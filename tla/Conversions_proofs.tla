------------------------- MODULE Conversions_proofs -------------------------
(***************************************************************************)
(* Theorems about the conversions, for bytes and texts of any length, and  *)
(* about the size classes of the buffer pool, for words of any width.      *)
(* What is foreign is dropped from a Base64 text one character after the   *)
(* other; that the rest of the text is what is kept is shown by a least    *)
(* prefix for which it is not.  That the digits spell the bytes is shown   *)
(* bit by bit: a byte is eight bits, and three bytes and their four        *)
(* sextets are the same bits in runs.                                      *)
(***************************************************************************)
EXTENDS Conversions, WellFoundedInduction, TLAPS

Byte == 0..255

LEMMA Digits ==
  \A d \in 0..15 : /\ ParseHexDigit(HexDigit(d)) = d
                   /\ HexDigit(d) \in 48..57 \cup 97..102
BY DEF ParseHexDigit, HexDigit

LEMMA UpperDigits ==
  ASSUME NEW d \in 0..15
  PROVE  LET c == HexDigit(d)
             x == IF c \in 97..122 THEN c - 32 ELSE c
         IN x \in Nat /\ ParseHexDigit(x) = d
<1> DEFINE c == HexDigit(d)
           x == IF c \in 97..122 THEN c - 32 ELSE c
<1>1. x = IF d < 10 THEN 48 + d ELSE 55 + d
  BY DEF HexDigit
<1> HIDE DEF x
<1>2. x \in Nat /\ ParseHexDigit(x) = d
  BY <1>1 DEF ParseHexDigit
<1> QED BY <1>2 DEF x

\* The two digits of byte i, and that there are no others.
LEMMA Spelled ==
  ASSUME NEW b \in Seq(Byte)
  PROVE  LET t == BytesToHex(b) IN
         /\ t \in Seq(Nat) /\ Len(t) = 2 * Len(b)
         /\ \A i \in 1..Len(b) : /\ t[2 * i - 1] = HexDigit(b[i] \div 16)
                                 /\ t[2 * i] = HexDigit(b[i] % 16)
         /\ \A j \in 1..Len(t) : \E d \in 0..15 : t[j] = HexDigit(d)
<1> DEFINE t == BytesToHex(b)
           n == Len(b)
<1>1. n \in Nat /\ \A i \in 1..n : b[i] \in Byte
  OBVIOUS
<1>2. \A x \in Byte : x \div 16 \in 0..15 /\ x % 16 \in 0..15
  BY DEF Byte
<1>3. t = [j \in 1..(2 * n) |->
             HexDigit(IF j % 2 = 1 THEN b[(j + 1) \div 2] \div 16 ELSE b[j \div 2] % 16)]
  BY DEF BytesToHex
<1> HIDE DEF n
<1>4. \A i \in 1..n : /\ 2 * i - 1 \in 1..(2 * n) /\ (2 * i - 1) % 2 = 1
                      /\ ((2 * i - 1) + 1) \div 2 = i
                      /\ 2 * i \in 1..(2 * n) /\ (2 * i) % 2 = 0 /\ (2 * i) \div 2 = i
  BY <1>1
<1>5. \A j \in 1..(2 * n) : /\ j % 2 = 1 => (j + 1) \div 2 \in 1..n
                            /\ j % 2 # 1 => j \div 2 \in 1..n
  BY <1>1
<1> HIDE DEF t
<1>6. \A i \in 1..n : t[2 * i - 1] = HexDigit(b[i] \div 16) /\ t[2 * i] = HexDigit(b[i] % 16)
  BY <1>3, <1>4
<1>7. \A j \in 1..(2 * n) : \E d \in 0..15 : t[j] = HexDigit(d)
  <2> TAKE j \in 1..(2 * n)
  <2>1. CASE j % 2 = 1
    <3>1. t[j] = HexDigit(b[(j + 1) \div 2] \div 16)
      BY <1>3, <2>1
    <3>2. b[(j + 1) \div 2] \div 16 \in 0..15
      BY <1>1, <1>2, <1>5, <2>1
    <3> QED BY <3>1, <3>2
  <2>2. CASE j % 2 # 1
    <3>1. t[j] = HexDigit(b[j \div 2] % 16)
      BY <1>3, <2>2
    <3>2. b[j \div 2] % 16 \in 0..15
      BY <1>1, <1>2, <1>5, <2>2
    <3> QED BY <3>1, <3>2
  <2> QED BY <2>1, <2>2
<1>8. \A j \in 1..(2 * n) : t[j] \in Nat
  <2> TAKE j \in 1..(2 * n)
  <2>1. PICK d \in 0..15 : t[j] = HexDigit(d)
    BY <1>7
  <2>2. \A x \in 48..57 \cup 97..102 : x \in Nat
    OBVIOUS
  <2> QED BY <2>1, <2>2, Digits
<1>9. t \in Seq(Nat) /\ Len(t) = 2 * n
  BY <1>1, <1>3, <1>8
<1> QED BY <1>6, <1>7, <1>9 DEF t, n

\* Decoding needs only to know what each digit stands for.
LEMMA Decoded ==
  ASSUME NEW b \in Seq(Byte), NEW t, t \in Seq(Nat), Len(t) = 2 * Len(b),
         \A i \in 1..Len(b) : /\ ParseHexDigit(t[2 * i - 1]) = b[i] \div 16
                              /\ ParseHexDigit(t[2 * i]) = b[i] % 16,
         \A j \in 1..Len(t) : ParseHexDigit(t[j]) \in 0..15
  PROVE  HexToBytes(t) = b
<1> DEFINE n == Len(b)
<1>1. n \in Nat /\ \A i \in 1..n : b[i] \in Byte
  OBVIOUS
<1>2. \A j \in 1..Len(t) : ParseHexDigit(t[j]) # -1
  <2>1. -1 \notin 0..15
    OBVIOUS
  <2> QED BY <2>1
<1>3. Len(t) % 2 = 0 /\ Len(t) \div 2 = n
  BY <1>1
<1>4. HexToBytes(t) = [i \in 1..n |-> 16 * ParseHexDigit(t[2 * i - 1]) + ParseHexDigit(t[2 * i])]
  BY <1>2, <1>3 DEF HexToBytes
<1>5. \A x \in Byte : 16 * (x \div 16) + (x % 16) = x
  BY DEF Byte
<1>6. \A i \in 1..n : 16 * ParseHexDigit(t[2 * i - 1]) + ParseHexDigit(t[2 * i]) = b[i]
  BY <1>1, <1>5
<1>7. b = [i \in 1..n |-> b[i]]
  OBVIOUS
<1> QED BY <1>4, <1>6, <1>7

(***************************************************************************)
(* Bytes of any length survive bytesToHex() and hexToBytes(), whichever    *)
(* case the letters are in.                                                *)
(***************************************************************************)
THEOREM HexRoundTrip ==
  \A b \in Seq(Byte) : /\ HexToBytes(BytesToHex(b)) = b
                       /\ HexToBytes(Upper(BytesToHex(b))) = b
<1> TAKE b \in Seq(Byte)
<1> DEFINE t == BytesToHex(b)
           u == Upper(t)
<1>1. Len(b) \in Nat /\ \A i \in 1..Len(b) : b[i] \div 16 \in 0..15 /\ b[i] % 16 \in 0..15
  <2>1. \A x \in Byte : x \div 16 \in 0..15 /\ x % 16 \in 0..15
    BY DEF Byte
  <2> QED BY <2>1
<1>2. /\ t \in Seq(Nat) /\ Len(t) = 2 * Len(b)
      /\ \A i \in 1..Len(b) : /\ t[2 * i - 1] = HexDigit(b[i] \div 16)
                              /\ t[2 * i] = HexDigit(b[i] % 16)
      /\ \A j \in 1..Len(t) : \E d \in 0..15 : t[j] = HexDigit(d)
  BY Spelled
<1> HIDE DEF t
<1>3. HexToBytes(t) = b
  <2>1. \A j \in 1..Len(t) : ParseHexDigit(t[j]) \in 0..15
    <3> TAKE j \in 1..Len(t)
    <3>1. PICK d \in 0..15 : t[j] = HexDigit(d)
      BY <1>2
    <3> QED BY <3>1, Digits
  <2>2. \A i \in 1..Len(b) : /\ ParseHexDigit(t[2 * i - 1]) = b[i] \div 16
                             /\ ParseHexDigit(t[2 * i]) = b[i] % 16
    BY <1>1, <1>2, Digits
  <2> QED BY <1>2, <2>1, <2>2, Decoded
<1>4. HexToBytes(u) = b
  <2> DEFINE up(c) == IF c \in 97..122 THEN c - 32 ELSE c
  <2>1. \A d \in 0..15 : up(HexDigit(d)) \in Nat /\ ParseHexDigit(up(HexDigit(d))) = d
    BY UpperDigits
  <2>2. u = [j \in 1..Len(t) |-> up(t[j])]
    BY DEF Upper
  <2> HIDE DEF up, u
  <2>3. \A j \in 1..Len(t) : u[j] \in Nat /\ ParseHexDigit(u[j]) \in 0..15
    <3> TAKE j \in 1..Len(t)
    <3>1. PICK d \in 0..15 : t[j] = HexDigit(d)
      BY <1>2
    <3> QED BY <2>1, <2>2, <3>1
  <2>4. u \in Seq(Nat) /\ Len(u) = Len(t)
    BY <1>2, <2>2, <2>3
  <2>5. \A i \in 1..Len(b) : 2 * i - 1 \in 1..Len(t) /\ 2 * i \in 1..Len(t)
    BY <1>1, <1>2
  <2>6. \A i \in 1..Len(b) : /\ ParseHexDigit(u[2 * i - 1]) = b[i] \div 16
                             /\ ParseHexDigit(u[2 * i]) = b[i] % 16
    BY <1>1, <1>2, <2>1, <2>2, <2>5
  <2> QED BY <1>2, <2>3, <2>4, <2>6, Decoded
<1> QED BY <1>3, <1>4 DEF t, u

(***************************************************************************)
(* Key.hasFingerprint(): the spelling of a fingerprint, of whatever        *)
(* length, is accepted for that fingerprint and for no other.              *)
(***************************************************************************)
THEOREM FingerprintExact ==
  \A a, b \in Seq(Byte) : HasFingerprint(a, BytesToHex(b)) <=> a = b
<1> TAKE a, b \in Seq(Byte)
<1>1. HexToBytes(BytesToHex(b)) = b
  BY HexRoundTrip
<1>2. b # Thrown
  <2>1. \A i \in 1..Len(b) : b[i] \in Byte
    OBVIOUS
  <2>2. Len(Thrown) = 1 /\ Thrown[1] = -1
    BY DEF Thrown
  <2>3. -1 \notin Byte
    BY DEF Byte
  <2>4. ASSUME b = Thrown PROVE FALSE
    <3>1. Len(b) = 1 /\ b[1] = -1
      BY <2>2, <2>4
    <3> QED BY <2>1, <2>3, <3>1
  <2> QED BY <2>4
<1>3. ConstantTimeEqual(a, b) <=> a = b
  <2>1. a = b => ConstantTimeEqual(a, b)
    BY DEF ConstantTimeEqual
  <2>2. ASSUME ConstantTimeEqual(a, b) PROVE a = b
    <3>1. a = [i \in 1..Len(a) |-> a[i]] /\ b = [i \in 1..Len(b) |-> b[i]]
      OBVIOUS
    <3> QED BY <2>2, <3>1 DEF ConstantTimeEqual
  <2> QED BY <2>1, <2>2
<1> QED BY <1>1, <1>2, <1>3 DEF HasFingerprint

(***************************************************************************)
(* The hexadecimal half of the conversions, for input of any length.       *)
(***************************************************************************)
THEOREM HexAlwaysRoundTrips == Spec => []HexRoundTrips
<1> DEFINE IInv == input \in Seq(Byte)
<1>1. Init => IInv
  BY DEF Init
<1>2. IInv /\ [Next]_input => IInv'
  <2> SUFFICES ASSUME input \in Seq(Byte), Next
               PROVE  input' \in Seq(Byte)
    OBVIOUS
  <2>1. PICK c \in Byte : Grow(c)
    BY ConversionsAssumption DEF Next, Byte
  <2> QED BY <2>1 DEF Grow
<1>3. IInv => HexRoundTrips
  <2> SUFFICES ASSUME input \in Seq(Byte)
               PROVE  HexRoundTrips
    OBVIOUS
  <2>1. HexToBytes(BytesToHex(input)) = input /\ HexToBytes(Upper(BytesToHex(input))) = input
    BY HexRoundTrip
  <2>2. ASSUME NEW m \in 0..Len(input)
        PROVE  LET a == SubSeq(input, 1, m)
                   b == SubSeq(input, m + 1, Len(input))
               IN /\ BytesToHex(ConcatBytes(a, b)) = BytesToHex(input)
                  /\ HasFingerprint(a, BytesToHex(b)) <=> a = b
    <3> DEFINE a == SubSeq(input, 1, m)
               b == SubSeq(input, m + 1, Len(input))
    <3>1. /\ Len(input) \in Nat /\ m \in Nat
          /\ a \in Seq(Byte) /\ Len(a) = m /\ \A i \in 1..m : a[i] = input[i]
      OBVIOUS
    <3>2. /\ b \in Seq(Byte) /\ Len(b) = Len(input) - m
          /\ \A i \in 1..(Len(input) - m) : b[i] = input[m + i]
      OBVIOUS
    <3> HIDE DEF a, b
    <3>3. ConcatBytes(a, b) =
            [i \in 1..Len(input) |-> IF i <= m THEN a[i] ELSE b[i - m]]
      BY <3>1, <3>2 DEF ConcatBytes
    <3>4. \A i \in 1..Len(input) : (IF i <= m THEN a[i] ELSE b[i - m]) = input[i]
      BY <3>1, <3>2
    <3>5. input = [i \in 1..Len(input) |-> input[i]]
      OBVIOUS
    <3>6. ConcatBytes(a, b) = input
      BY <3>3, <3>4, <3>5
    <3>7. HasFingerprint(a, BytesToHex(b)) <=> a = b
      BY <3>1, <3>2, FingerprintExact
    <3> QED BY <3>6, <3>7 DEF a, b
  <2> QED BY <2>1, <2>2 DEF HexRoundTrips
<1> QED BY <1>1, <1>2, <1>3, PTL DEF Spec

\* The least element of a set of numbers, for induction over them.
LEMMA Least ==
  ASSUME NEW S \in SUBSET Nat, S # {}
  PROVE  \E m \in S : \A k \in S : m <= k
<1> DEFINE R == OpToRel(<, Nat)
<1>1. IsWellFoundedOn(R, Nat)
  BY NatLessThanWellFounded
<1>2. \A k, m \in Nat : k < m => <<k, m>> \in R
  BY DEF OpToRel
<1> HIDE DEF R
<1>3. PICK m \in S : \A k \in S : ~(<<k, m>> \in R)
  BY <1>1, WFMin
<1>4. \A k \in S : m \in Nat /\ k \in Nat /\ ~(k < m)
  BY <1>2, <1>3
<1> QED BY <1>4

-----------------------------------------------------------------------------
(* What Cleaned keeps.                                                     *)

\* The recursive function of Cleaned, on the first n characters of t.
Keeps(t, n, g) ==
  g = [i \in 0..n |-> IF i = 0 THEN <<>>
                      ELSE IF DecodeBase64Char(t[i]) = -1 THEN g[i - 1]
                      ELSE Append(g[i - 1], t[i])]

Kept(t) == CHOOSE g : Keeps(t, Len(t), g)

LEMMA CleanedIsKept == \A t : Cleaned(t) = Kept(t)[Len(t)]
BY Zenon DEF Cleaned, Kept, Keeps

\* What the function is, equation by equation.
LEMMA KeepsAt ==
  ASSUME NEW t, NEW n \in Nat, NEW g
  PROVE  Keeps(t, n, g) <=>
           /\ g = [i \in 0..n |-> g[i]]
           /\ g[0] = <<>>
           /\ \A i \in 1..n : g[i] = IF DecodeBase64Char(t[i]) = -1 THEN g[i - 1]
                                     ELSE Append(g[i - 1], t[i])
<1> DEFINE at(i) == IF i = 0 THEN <<>>
                    ELSE IF DecodeBase64Char(t[i]) = -1 THEN g[i - 1]
                    ELSE Append(g[i - 1], t[i])
           eq(i) == g[i] = IF DecodeBase64Char(t[i]) = -1 THEN g[i - 1]
                           ELSE Append(g[i - 1], t[i])
<1>1. Keeps(t, n, g) <=> g = [i \in 0..n |-> at(i)]
  BY Zenon DEF Keeps
<1>2. 0 \in 0..n /\ (\A i : i \in 0..n <=> i = 0 \/ i \in 1..n) /\ 0 \notin 1..n
  OBVIOUS
<1>3. at(0) = <<>> /\ \A i \in 1..n : eq(i) <=> g[i] = at(i)
  BY <1>2
<1> HIDE DEF at, eq
<1>4. g = [i \in 0..n |-> at(i)] <=>
        g = [i \in 0..n |-> g[i]] /\ \A i \in 0..n : g[i] = at(i)
  <2>1. ASSUME g = [i \in 0..n |-> at(i)]
        PROVE  g = [i \in 0..n |-> g[i]] /\ \A i \in 0..n : g[i] = at(i)
    <3>1. \A i \in 0..n : g[i] = at(i)
      BY <2>1, Zenon
    <3> QED BY <2>1, <3>1
  <2>2. ASSUME g = [i \in 0..n |-> g[i]], \A i \in 0..n : g[i] = at(i)
        PROVE  g = [i \in 0..n |-> at(i)]
    BY <2>2
  <2> QED BY <2>1, <2>2
<1>5. (\A i \in 0..n : g[i] = at(i)) <=> g[0] = <<>> /\ \A i \in 1..n : eq(i)
  BY <1>2, <1>3
<1>6. Keeps(t, n, g) <=> /\ g = [i \in 0..n |-> g[i]]
                        /\ g[0] = <<>>
                        /\ \A i \in 1..n : eq(i)
  BY <1>1, <1>4, <1>5
<1> QED BY <1>6 DEF eq

\* There is one for every n: the least n without one has one.
LEMMA KeepsExists ==
  ASSUME NEW t
  PROVE  \A n \in Nat : \E g : Keeps(t, n, g)
<1> DEFINE S == {n \in Nat : ~\E g : Keeps(t, n, g)}
<1> SUFFICES ASSUME S # {} PROVE FALSE
  OBVIOUS
<1>1. PICK m \in S : \A k \in S : m <= k
  BY Least
<1>2. m \in Nat /\ ~\E g : Keeps(t, m, g)
  BY <1>1
<1>3. m # 0
  <2> DEFINE g == [i \in 0..0 |-> <<>>]
  <2>1. g = [i \in 0..0 |-> g[i]] /\ g[0] = <<>> /\ 1..0 = {}
    OBVIOUS
  <2> HIDE DEF g
  <2>2. Keeps(t, 0, g)
    BY <2>1, KeepsAt
  <2> QED BY <1>2, <2>2
<1>4. m - 1 \in Nat /\ m - 1 \notin S
  BY <1>1, <1>2, <1>3
<1>5. PICK f : Keeps(t, m - 1, f)
  BY <1>4
<1> DEFINE g == [i \in 0..m |-> IF i < m THEN f[i]
                 ELSE IF DecodeBase64Char(t[i]) = -1 THEN f[i - 1]
                 ELSE Append(f[i - 1], t[i])]
<1>6. g = [i \in 0..m |-> g[i]]
  OBVIOUS
<1>7. /\ f[0] = <<>>
      /\ \A i \in 1..(m - 1) : f[i] = IF DecodeBase64Char(t[i]) = -1 THEN f[i - 1]
                                      ELSE Append(f[i - 1], t[i])
  BY <1>4, <1>5, KeepsAt
<1>8. g[0] = <<>>
  BY <1>2, <1>3, <1>7
<1>9. \A i \in 1..m : g[i] = IF DecodeBase64Char(t[i]) = -1 THEN g[i - 1]
                             ELSE Append(g[i - 1], t[i])
  <2> SUFFICES ASSUME NEW i \in 1..m
               PROVE  g[i] = IF DecodeBase64Char(t[i]) = -1 THEN g[i - 1]
                             ELSE Append(g[i - 1], t[i])
    OBVIOUS
  <2>1. i - 1 \in 0..m /\ i \in 0..m /\ i - 1 < m
    BY <1>2
  <2>2. g[i - 1] = f[i - 1]
    BY <2>1
  <2>3. CASE i < m
    BY <1>2, <1>7, <2>1, <2>2, <2>3
  <2>4. CASE i = m
    BY <2>1, <2>2, <2>4
  <2> QED BY <1>2, <2>3, <2>4
<1> HIDE DEF g
<1>10. Keeps(t, m, g)
  BY <1>2, <1>6, <1>8, <1>9, KeepsAt
<1> QED BY <1>2, <1>10

LEMMA KeptEquations ==
  ASSUME NEW t \in Seq(Int)
  PROVE  /\ Cleaned(t) = Kept(t)[Len(t)]
         /\ Kept(t)[0] = <<>>
         /\ \A i \in 1..Len(t) :
              Kept(t)[i] = IF DecodeBase64Char(t[i]) = -1 THEN Kept(t)[i - 1]
                           ELSE Append(Kept(t)[i - 1], t[i])
<1>1. Len(t) \in Nat
  OBVIOUS
<1>2. \E g : Keeps(t, Len(t), g)
  BY <1>1, KeepsExists
<1>3. Keeps(t, Len(t), Kept(t))
  BY <1>2, Zenon DEF Kept
<1> QED BY <1>1, <1>3, CleanedIsKept, KeepsAt

Alphabet == {c \in Int : DecodeBase64Char(c) # -1}

\* Whatever the text, only the alphabet is kept.
LEMMA CleanedType ==
  ASSUME NEW t \in Seq(Int)
  PROVE  Cleaned(t) \in Seq(Alphabet)
<1> DEFINE n == Len(t)
           S == {i \in 0..n : Kept(t)[i] \notin Seq(Alphabet)}
<1>1. n \in Nat /\ \A i \in 1..n : t[i] \in Int
  OBVIOUS
<1>2. S = {}
  <2> SUFFICES ASSUME S # {} PROVE FALSE
    OBVIOUS
  <2>1. PICK m \in S : \A k \in S : m <= k
    <3>1. S \in SUBSET Nat
      OBVIOUS
    <3> QED BY <3>1, Least
  <2>2. m \in 0..n /\ Kept(t)[m] \notin Seq(Alphabet)
    BY <2>1
  <2>3. m # 0
    <3>1. Kept(t)[0] = <<>> /\ <<>> \in Seq(Alphabet)
      BY KeptEquations
    <3> QED BY <2>2, <3>1
  <2>4. m - 1 \in 0..n /\ m - 1 \notin S /\ m \in 1..n
    BY <1>1, <2>1, <2>2, <2>3
  <2>5. Kept(t)[m - 1] \in Seq(Alphabet)
    BY <2>4
  <2>6. Kept(t)[m] = IF DecodeBase64Char(t[m]) = -1 THEN Kept(t)[m - 1]
                     ELSE Append(Kept(t)[m - 1], t[m])
    BY <2>4, KeptEquations
  <2>7. DecodeBase64Char(t[m]) # -1 => t[m] \in Alphabet
    BY <1>1, <2>4 DEF Alphabet
  <2> QED BY <2>2, <2>5, <2>6, <2>7
<1>3. Kept(t)[n] \in Seq(Alphabet)
  <2>1. n \in 0..n
    BY <1>1
  <2> QED BY <1>2, <2>1
<1> QED BY <1>3, KeptEquations

\* Of a text whose foreign characters are all at its end, the rest is kept.
LEMMA CleanedPrefix ==
  ASSUME NEW t \in Seq(Int), NEW m \in 0..Len(t),
         \A i \in 1..m : DecodeBase64Char(t[i]) # -1,
         \A i \in (m + 1)..Len(t) : DecodeBase64Char(t[i]) = -1
  PROVE  /\ Cleaned(t) \in Seq(Alphabet)
         /\ Len(Cleaned(t)) = m
         /\ \A j \in 1..m : Cleaned(t)[j] = t[j]
<1> DEFINE n == Len(t)
           Whole(i, s) == /\ s \in Seq(Int)
                          /\ Len(s) = i
                          /\ \A j \in 1..i : s[j] = t[j]
           A == {i \in 0..m : ~Whole(i, Kept(t)[i])}
           B == {i \in m..n : ~Whole(m, Kept(t)[i])}
<1>1. n \in Nat /\ m \in Nat /\ m <= n /\ \A i \in 1..n : t[i] \in Int
  OBVIOUS
<1>2. /\ Kept(t)[0] = <<>>
      /\ \A i \in 1..n :
           Kept(t)[i] = IF DecodeBase64Char(t[i]) = -1 THEN Kept(t)[i - 1]
                        ELSE Append(Kept(t)[i - 1], t[i])
  BY KeptEquations
<1>3. A = {}
  <2> SUFFICES ASSUME A # {} PROVE FALSE
    OBVIOUS
  <2>1. PICK k \in A : \A i \in A : k <= i
    <3>1. A \in SUBSET Nat
      BY <1>1
    <3> QED BY <3>1, Least
  <2>2. k \in 0..m /\ ~Whole(k, Kept(t)[k])
    BY <2>1
  <2>3. k # 0
    <3>1. <<>> \in Seq(Int) /\ Len(<<>>) = 0 /\ 1..0 = {}
      OBVIOUS
    <3> QED BY <1>2, <2>2, <3>1
  <2>4. k - 1 \in 0..m /\ k - 1 \notin A /\ k \in 1..m /\ k \in 1..n
    <3> HIDE DEF A
    <3>1. k \in Int /\ ~(k <= k - 1)
      BY <1>1, <2>2
    <3>2. k - 1 \notin A
      BY <2>1, <3>1
    <3> QED BY <1>1, <2>2, <2>3, <3>2
  <2>5. PICK s : s = Kept(t)[k - 1]
    OBVIOUS
  <2>6. Whole(k - 1, s)
    BY <2>4, <2>5
  <2>7. Kept(t)[k] = Append(s, t[k])
    BY <1>2, <2>4, <2>5
  <2>8. Whole(k, Append(s, t[k]))
    BY <1>1, <2>4, <2>6
  <2> QED BY <2>2, <2>7, <2>8
<1>4. Whole(m, Kept(t)[m])
  <2>1. m \in 0..m
    BY <1>1
  <2> QED BY <1>3, <2>1
<1>5. B = {}
  <2> SUFFICES ASSUME B # {} PROVE FALSE
    OBVIOUS
  <2>1. PICK k \in B : \A i \in B : k <= i
    <3>1. B \in SUBSET Nat
      BY <1>1
    <3> QED BY <3>1, Least
  <2>2. k \in m..n /\ ~Whole(m, Kept(t)[k])
    BY <2>1
  <2>3. k # m
    BY <1>4, <2>2
  <2>4. k - 1 \in m..n /\ k - 1 \notin B /\ k \in (m + 1)..n /\ k \in 1..n
    <3> HIDE DEF B
    <3>1. k \in Int /\ ~(k <= k - 1)
      BY <1>1, <2>2
    <3>2. k - 1 \notin B
      BY <2>1, <3>1
    <3> QED BY <1>1, <2>2, <2>3, <3>2
  <2>5. Whole(m, Kept(t)[k - 1])
    BY <2>4
  <2>6. Kept(t)[k] = Kept(t)[k - 1]
    BY <1>2, <2>4
  <2> QED BY <2>2, <2>5, <2>6
<1>6. Whole(m, Kept(t)[n])
  <2>1. n \in m..n
    BY <1>1
  <2> QED BY <1>5, <2>1
<1>7. Cleaned(t) = Kept(t)[n]
  BY KeptEquations
<1> QED BY <1>6, <1>7, CleanedType

-----------------------------------------------------------------------------
(* Base64.                                                                 *)

LEMMA Base64Digits ==
  ASSUME NEW s \in 0..63
  PROVE  /\ Base64Char(s) \in Nat /\ Base64Char(s) # Pad
         /\ DecodeBase64Char(Base64Char(s)) = s
<1>1. CASE s < 26
  BY <1>1 DEF Base64Char, DecodeBase64Char, Pad
<1>2. CASE s \in 26..51
  BY <1>2 DEF Base64Char, DecodeBase64Char, Pad
<1>3. CASE s \in 52..61
  BY <1>3 DEF Base64Char, DecodeBase64Char, Pad
<1>4. CASE s = 62 \/ s = 63
  BY <1>4 DEF Base64Char, DecodeBase64Char, Pad
<1> QED BY <1>1, <1>2, <1>3, <1>4

LEMMA PadForeign == DecodeBase64Char(Pad) = -1 /\ Pad \in Nat
BY DEF DecodeBase64Char, Pad

LEMMA AlphabetDigits ==
  ASSUME NEW c \in Alphabet
  PROVE  DecodeBase64Char(c) \in 0..63
BY DEF Alphabet, DecodeBase64Char

LEMMA AtByte ==
  ASSUME NEW b \in Seq(Byte), NEW n
  PROVE  At(b, n) \in Byte
<1>1. \A i \in 1..Len(b) : b[i] \in Byte
  OBVIOUS
<1>2. 0 \in Byte
  BY DEF Byte
<1> QED BY <1>1, <1>2 DEF At

LEMMA SextetRange ==
  ASSUME NEW b \in Seq(Byte), NEW k \in Nat \ {0}
  PROVE  Sextet(b, k) \in 0..63
<1> DEFINE g == 3 * ((k - 1) \div 4)
<1>1. PICK x, y, z \in 0..255 : x = At(b, g + 1) /\ y = At(b, g + 2) /\ z = At(b, g + 3)
  BY AtByte DEF Byte
<1>2. Sextet(b, k) = CASE k % 4 = 1 -> x \div 4
                       [] k % 4 = 2 -> 16 * (x % 4) + y \div 16
                       [] k % 4 = 3 -> 4 * (y % 16) + z \div 64
                       [] k % 4 = 0 -> z % 64
  BY <1>1, Zenon DEF Sextet
<1>3. k % 4 = 0 \/ k % 4 = 1 \/ k % 4 = 2 \/ k % 4 = 3
  OBVIOUS
<1>4. /\ x \div 4 \in 0..63 /\ 16 * (x % 4) + y \div 16 \in 0..63
      /\ 4 * (y % 16) + z \div 64 \in 0..63 /\ z % 64 \in 0..63
  OBVIOUS
<1> QED BY <1>2, <1>3, <1>4

LEMMA Encoded ==
  ASSUME NEW b \in Seq(Byte)
  PROVE  LET t == BytesToBase64(b) IN
         /\ t \in Seq(Nat)
         /\ Len(t) = 4 * ((Len(b) + 2) \div 3)
         /\ Sextets(b) \in 0..Len(t)
         /\ \A k \in 1..Sextets(b) : t[k] = Base64Char(Sextet(b, k))
         /\ \A k \in (Sextets(b) + 1)..Len(t) : t[k] = Pad
<1> DEFINE t == BytesToBase64(b)
           n == 4 * ((Len(b) + 2) \div 3)
           m == Sextets(b)
<1>1. Len(b) \in Nat
  OBVIOUS
<1>2. n \in Nat /\ m \in 0..n
  BY <1>1 DEF Sextets
<1>3. t = [k \in 1..n |-> IF k <= m THEN Base64Char(Sextet(b, k)) ELSE Pad]
  BY DEF BytesToBase64
<1> HIDE DEF t, n, m
<1>4. \A k \in 1..n : k <= m => Base64Char(Sextet(b, k)) \in Nat
  <2>1. \A k \in 1..n : k \in Nat \ {0}
    BY <1>2
  <2> QED BY <2>1, SextetRange, Base64Digits
<1>5. t \in Seq(Nat) /\ Len(t) = n
  BY <1>2, <1>3, <1>4, PadForeign
<1>6. /\ \A k \in 1..m : t[k] = Base64Char(Sextet(b, k))
      /\ \A k \in (m + 1)..n : t[k] = Pad
  BY <1>2, <1>3
<1> QED BY <1>2, <1>5, <1>6 DEF t, n, m

\* The four sextets of a group of three bytes.
LEMMA SextetsOf ==
  ASSUME NEW b, NEW p \in Nat
  PROVE  /\ Sextet(b, 4 * p + 1) = At(b, 3 * p + 1) \div 4
         /\ Sextet(b, 4 * p + 2) = 16 * (At(b, 3 * p + 1) % 4) + At(b, 3 * p + 2) \div 16
         /\ Sextet(b, 4 * p + 3) = 4 * (At(b, 3 * p + 2) % 16) + At(b, 3 * p + 3) \div 64
         /\ Sextet(b, 4 * p + 4) = At(b, 3 * p + 3) % 64
<1> DEFINE G(k) == 3 * ((k - 1) \div 4)
<1>1. \A k : Sextet(b, k) = CASE k % 4 = 1 -> At(b, G(k) + 1) \div 4
                              [] k % 4 = 2 -> 16 * (At(b, G(k) + 1) % 4) + At(b, G(k) + 2) \div 16
                              [] k % 4 = 3 -> 4 * (At(b, G(k) + 2) % 16) + At(b, G(k) + 3) \div 64
                              [] k % 4 = 0 -> At(b, G(k) + 3) % 64
  BY Zenon DEF Sextet
<1>2. /\ (4 * p + 1) % 4 = 1 /\ G(4 * p + 1) = 3 * p
      /\ (4 * p + 2) % 4 = 2 /\ G(4 * p + 2) = 3 * p
      /\ (4 * p + 3) % 4 = 3 /\ G(4 * p + 3) = 3 * p
      /\ (4 * p + 4) % 4 = 0 /\ G(4 * p + 4) = 3 * p
  OBVIOUS
<1> HIDE DEF G
<1>3. Sextet(b, 4 * p + 1) = At(b, 3 * p + 1) \div 4
  BY <1>1, <1>2
<1>4. Sextet(b, 4 * p + 2) = 16 * (At(b, 3 * p + 1) % 4) + At(b, 3 * p + 2) \div 16
  BY <1>1, <1>2
<1>5. Sextet(b, 4 * p + 3) = 4 * (At(b, 3 * p + 2) % 16) + At(b, 3 * p + 3) \div 64
  BY <1>1, <1>2
<1>6. Sextet(b, 4 * p + 4) = At(b, 3 * p + 3) % 64
  BY <1>1, <1>2
<1> QED BY <1>3, <1>4, <1>5, <1>6

\* Digit k of what was kept of a text, and byte j of what they stand for.
Digit(c, k) == IF k \in 1..Len(c) THEN DecodeBase64Char(c[k]) ELSE 0

Octet(c, j) ==
  LET g == 4 * ((j - 1) \div 3) IN
  CASE j % 3 = 1 -> 4 * Digit(c, g + 1) + Digit(c, g + 2) \div 16
    [] j % 3 = 2 -> 16 * (Digit(c, g + 2) % 16) + Digit(c, g + 3) \div 4
    [] j % 3 = 0 -> 64 * (Digit(c, g + 3) % 4) + Digit(c, g + 4)

LEMMA Octets ==
  \A t : Base64ToBytes(t) =
           IF Len(Cleaned(t)) % 4 = 1 THEN Thrown
           ELSE [j \in 1..((6 * Len(Cleaned(t))) \div 8) |-> Octet(Cleaned(t), j)]
BY Zenon DEF Base64ToBytes, Octet, Digit

\* The three bytes of a group of four digits.
LEMMA OctetsOf ==
  ASSUME NEW c, NEW p \in Nat
  PROVE  /\ Octet(c, 3 * p + 1) = 4 * Digit(c, 4 * p + 1) + Digit(c, 4 * p + 2) \div 16
         /\ Octet(c, 3 * p + 2) =
              16 * (Digit(c, 4 * p + 2) % 16) + Digit(c, 4 * p + 3) \div 4
         /\ Octet(c, 3 * p + 3) = 64 * (Digit(c, 4 * p + 3) % 4) + Digit(c, 4 * p + 4)
<1> DEFINE G(j) == 4 * ((j - 1) \div 3)
<1>1. \A j : Octet(c, j) =
        CASE j % 3 = 1 -> 4 * Digit(c, G(j) + 1) + Digit(c, G(j) + 2) \div 16
          [] j % 3 = 2 -> 16 * (Digit(c, G(j) + 2) % 16) + Digit(c, G(j) + 3) \div 4
          [] j % 3 = 0 -> 64 * (Digit(c, G(j) + 3) % 4) + Digit(c, G(j) + 4)
  BY Zenon DEF Octet
<1>2. /\ (3 * p + 1) % 3 = 1 /\ G(3 * p + 1) = 4 * p
      /\ (3 * p + 2) % 3 = 2 /\ G(3 * p + 2) = 4 * p
      /\ (3 * p + 3) % 3 = 0 /\ G(3 * p + 3) = 4 * p
  OBVIOUS
<1> HIDE DEF G
<1>3. Octet(c, 3 * p + 1) = 4 * Digit(c, 4 * p + 1) + Digit(c, 4 * p + 2) \div 16
  BY <1>1, <1>2
<1>4. Octet(c, 3 * p + 2) = 16 * (Digit(c, 4 * p + 2) % 16) + Digit(c, 4 * p + 3) \div 4
  BY <1>1, <1>2
<1>5. Octet(c, 3 * p + 3) = 64 * (Digit(c, 4 * p + 3) % 4) + Digit(c, 4 * p + 4)
  BY <1>1, <1>2
<1> QED BY <1>3, <1>4, <1>5

\* As many sextets as hold n bytes hold n bytes, and are never one too many.
LEMMA Counts ==
  ASSUME NEW b \in Seq(Byte)
  PROVE  /\ Sextets(b) \in Nat /\ Sextets(b) % 4 # 1
         /\ (6 * Sextets(b)) \div 8 = Len(b)
BY DEF Sextets

\* What Base64ToBytes reads in a text BytesToBase64 wrote.
LEMMA Reread ==
  ASSUME NEW b \in Seq(Byte)
  PROVE  LET c == Cleaned(BytesToBase64(b)) IN
         /\ c \in Seq(Alphabet)
         /\ Len(c) = Sextets(b)
         /\ \A k \in 1..Sextets(b) : Digit(c, k) = Sextet(b, k)
<1> DEFINE t == BytesToBase64(b)
           m == Sextets(b)
           c == Cleaned(t)
<1>1. /\ t \in Seq(Nat) /\ m \in 0..Len(t)
      /\ \A k \in 1..m : t[k] = Base64Char(Sextet(b, k))
      /\ \A k \in (m + 1)..Len(t) : t[k] = Pad
  BY Encoded
<1>2. m \in Nat
  BY Counts
<1> HIDE DEF t, m
<1>3. \A k \in 1..m : Sextet(b, k) \in 0..63
  <2>1. \A k \in 1..m : k \in Nat \ {0}
    BY <1>2
  <2> QED BY <2>1, SextetRange
<1>4. \A k \in 1..m : DecodeBase64Char(t[k]) = Sextet(b, k)
  BY <1>1, <1>3, Base64Digits
<1>5. \A k \in 1..m : DecodeBase64Char(t[k]) # -1
  <2>1. -1 \notin 0..63
    OBVIOUS
  <2> QED BY <1>3, <1>4, <2>1
<1>6. t \in Seq(Int)
  BY <1>1
<1>7. /\ c \in Seq(Alphabet) /\ Len(c) = m /\ \A k \in 1..m : c[k] = t[k]
  BY <1>1, <1>5, <1>6, PadForeign, CleanedPrefix
<1> HIDE DEF c
<1>8. \A k \in 1..m : Digit(c, k) = Sextet(b, k)
  BY <1>4, <1>7 DEF Digit
<1> QED BY <1>7, <1>8 DEF c, m, t

(***************************************************************************)
(* Bytes of any length survive bytesToBase64() and base64ToBytes(),        *)
(* whatever the last group lacks.                                          *)
(***************************************************************************)
THEOREM Base64RoundTrip ==
  \A b \in Seq(Byte) : Base64ToBytes(BytesToBase64(b)) = b
<1> TAKE b \in Seq(Byte)
<1> DEFINE c == Cleaned(BytesToBase64(b))
           n == Len(b)
           m == Sextets(b)
<1>1. /\ Len(c) = m /\ m \in Nat /\ m % 4 # 1 /\ (6 * m) \div 8 = n
      /\ n \in Nat /\ m = (8 * n + 5) \div 6
      /\ \A k \in 1..m : Digit(c, k) = Sextet(b, k)
  <2>1. m = (8 * n + 5) \div 6 /\ n \in Nat
    BY DEF Sextets
  <2> QED BY <2>1, Counts, Reread
<1>2. Base64ToBytes(BytesToBase64(b)) = [j \in 1..n |-> Octet(c, j)]
  BY <1>1, Octets
<1>3. ASSUME NEW j \in 1..n
      PROVE  Octet(c, j) = b[j]
  <2> HIDE DEF c, n, m
  <2>1. PICK p \in Nat : j = 3 * p + 1 \/ j = 3 * p + 2 \/ j = 3 * p + 3
    <3>1. /\ (j - 1) \div 3 \in Nat
          /\ \/ j = 3 * ((j - 1) \div 3) + 1 \/ j = 3 * ((j - 1) \div 3) + 2
             \/ j = 3 * ((j - 1) \div 3) + 3
      BY <1>1
    <3> QED BY <3>1
  <2>2. PICK x, y, z \in 0..255 :
          x = At(b, 3 * p + 1) /\ y = At(b, 3 * p + 2) /\ z = At(b, 3 * p + 3)
    BY AtByte DEF Byte
  <2>3. At(b, j) = b[j]
    BY DEF At, n
  <2>4. /\ Sextet(b, 4 * p + 1) = x \div 4
        /\ Sextet(b, 4 * p + 2) = 16 * (x % 4) + y \div 16
        /\ Sextet(b, 4 * p + 3) = 4 * (y % 16) + z \div 64
        /\ Sextet(b, 4 * p + 4) = z % 64
    BY <2>2, SextetsOf
  <2>5. CASE j = 3 * p + 1
    <3>1. 4 * p + 1 \in 1..m /\ 4 * p + 2 \in 1..m
      BY <1>1, <2>5
    <3>2. Octet(c, j) = 4 * (x \div 4) + (16 * (x % 4) + y \div 16) \div 16
      <4>1. Digit(c, 4 * p + 1) = Sextet(b, 4 * p + 1)
        BY <1>1, <3>1
      <4>2. Digit(c, 4 * p + 2) = Sextet(b, 4 * p + 2)
        BY <1>1, <3>1
      <4>3. Octet(c, j) = Octet(c, 3 * p + 1)
        BY <2>5
      <4> QED BY <2>4, <4>1, <4>2, <4>3, OctetsOf
    <3>3. 4 * (x \div 4) + (16 * (x % 4) + y \div 16) \div 16 = x
      OBVIOUS
    <3> QED BY <2>2, <2>3, <2>5, <3>2, <3>3
  <2>6. CASE j = 3 * p + 2
    <3>1. 4 * p + 2 \in 1..m /\ 4 * p + 3 \in 1..m
      BY <1>1, <2>6
    <3>2. Octet(c, j) = 16 * ((16 * (x % 4) + y \div 16) % 16) + (4 * (y % 16) + z \div 64) \div 4
      <4>1. Digit(c, 4 * p + 2) = Sextet(b, 4 * p + 2)
        BY <1>1, <3>1
      <4>2. Digit(c, 4 * p + 3) = Sextet(b, 4 * p + 3)
        BY <1>1, <3>1
      <4>3. Octet(c, j) = Octet(c, 3 * p + 2)
        BY <2>6
      <4> QED BY <2>4, <4>1, <4>2, <4>3, OctetsOf
    <3>3. 16 * ((16 * (x % 4) + y \div 16) % 16) + (4 * (y % 16) + z \div 64) \div 4 = y
      OBVIOUS
    <3> QED BY <2>2, <2>3, <2>6, <3>2, <3>3
  <2>7. CASE j = 3 * p + 3
    <3>1. 4 * p + 3 \in 1..m /\ 4 * p + 4 \in 1..m
      BY <1>1, <2>7
    <3>2. Octet(c, j) = 64 * ((4 * (y % 16) + z \div 64) % 4) + (z % 64)
      <4>1. Digit(c, 4 * p + 3) = Sextet(b, 4 * p + 3)
        BY <1>1, <3>1
      <4>2. Digit(c, 4 * p + 4) = Sextet(b, 4 * p + 4)
        BY <1>1, <3>1
      <4>3. Octet(c, j) = Octet(c, 3 * p + 3)
        BY <2>7
      <4> QED BY <2>4, <4>1, <4>2, <4>3, OctetsOf
    <3>3. 64 * ((4 * (y % 16) + z \div 64) % 4) + (z % 64) = z
      OBVIOUS
    <3> QED BY <2>2, <2>3, <2>7, <3>2, <3>3
  <2> QED BY <2>1, <2>5, <2>6, <2>7
<1>4. b = [j \in 1..n |-> b[j]]
  OBVIOUS
<1> HIDE DEF c, n
<1> QED BY <1>2, <1>3, <1>4

-----------------------------------------------------------------------------
(* Bits.                                                                   *)

\* The bit of weight 2^e.
Bin(x, e) == (x \div 2^e) % 2

LEMMA BitIsBin ==
  \A s, w, i : Bit(s, w, i) = Bin(s[1 + (i - 1) \div w], (w - 1) - ((i - 1) % w))
BY Zenon DEF Bit, Bin

Bool == 0..1

\* The number x in binary, the highest bit first.
Binary(x, a, b, c, d, e, f, g, h) ==
  /\ a \in Bool /\ b \in Bool /\ c \in Bool /\ d \in Bool
  /\ e \in Bool /\ f \in Bool /\ g \in Bool /\ h \in Bool
  /\ x = 128 * a + 64 * b + 32 * c + 16 * d + 8 * e + 4 * f + 2 * g + h

LEMMA BinsOf ==
  ASSUME NEW x, NEW a, NEW b, NEW c, NEW d, NEW e, NEW f, NEW g, NEW h,
         Binary(x, a, b, c, d, e, f, g, h)
  PROVE  /\ Bin(x, 7) = a /\ Bin(x, 6) = b /\ Bin(x, 5) = c /\ Bin(x, 4) = d
         /\ Bin(x, 3) = e /\ Bin(x, 2) = f /\ Bin(x, 1) = g /\ Bin(x, 0) = h
<1>1. x = 128 * a + 64 * b + 32 * c + 16 * d + 8 * e + 4 * f + 2 * g + h
  BY DEF Binary
<1>0. /\ a \in Bool /\ b \in Bool /\ c \in Bool /\ d \in Bool
      /\ e \in Bool /\ f \in Bool /\ g \in Bool /\ h \in Bool
  BY DEF Binary
<1>2. x \div 128 = a
  BY <1>0, <1>1 DEF Bool
<1>3. x \div 64 = 2 * a + b
  BY <1>0, <1>1 DEF Bool
<1>4. x \div 32 = 4 * a + 2 * b + c
  BY <1>0, <1>1 DEF Bool
<1>5. x \div 16 = 8 * a + 4 * b + 2 * c + d
  BY <1>0, <1>1 DEF Bool
<1>6. x \div 8 = 16 * a + 8 * b + 4 * c + 2 * d + e
  BY <1>0, <1>1 DEF Bool
<1>7. x \div 4 = 32 * a + 16 * b + 8 * c + 4 * d + 2 * e + f
  BY <1>0, <1>1 DEF Bool
<1>8. x \div 2 = 64 * a + 32 * b + 16 * c + 8 * d + 4 * e + 2 * f + g
  BY <1>0, <1>1 DEF Bool
<1>9. Bin(x, 7) = a
  BY <1>0, <1>2 DEF Bin, Bool
<1>10. Bin(x, 6) = b
  BY <1>0, <1>3 DEF Bin, Bool
<1>11. Bin(x, 5) = c
  BY <1>0, <1>4 DEF Bin, Bool
<1>12. Bin(x, 4) = d
  BY <1>0, <1>5 DEF Bin, Bool
<1>13. Bin(x, 3) = e
  BY <1>0, <1>6 DEF Bin, Bool
<1>14. Bin(x, 2) = f
  BY <1>0, <1>7 DEF Bin, Bool
<1>15. Bin(x, 1) = g
  BY <1>0, <1>8 DEF Bin, Bool
<1>16. Bin(x, 0) = h
  BY <1>0, <1>1 DEF Bin, Bool
<1> QED BY <1>9, <1>10, <1>11, <1>12, <1>13, <1>14, <1>15, <1>16

\* Every byte is spelled by bits.
LEMMA BinaryExists ==
  ASSUME NEW x \in 0..255
  PROVE  \E a, b, c, d, e, f, g, h : Binary(x, a, b, c, d, e, f, g, h)
<1>1. PICK h \in Bool, p \in 0..127 : x = 2 * p + h
  <2>1. x % 2 \in Bool /\ x \div 2 \in 0..127 /\ x = 2 * (x \div 2) + (x % 2)
    BY DEF Bool
  <2> QED BY <2>1
<1>2. PICK g \in Bool, q \in 0..63 : p = 2 * q + g
  <2>1. p % 2 \in Bool /\ p \div 2 \in 0..63 /\ p = 2 * (p \div 2) + (p % 2)
    BY DEF Bool
  <2> QED BY <2>1
<1>3. PICK f \in Bool, r \in 0..31 : q = 2 * r + f
  <2>1. q % 2 \in Bool /\ q \div 2 \in 0..31 /\ q = 2 * (q \div 2) + (q % 2)
    BY DEF Bool
  <2> QED BY <2>1
<1>4. PICK e \in Bool, s \in 0..15 : r = 2 * s + e
  <2>1. r % 2 \in Bool /\ r \div 2 \in 0..15 /\ r = 2 * (r \div 2) + (r % 2)
    BY DEF Bool
  <2> QED BY <2>1
<1>5. PICK d \in Bool, t \in 0..7 : s = 2 * t + d
  <2>1. s % 2 \in Bool /\ s \div 2 \in 0..7 /\ s = 2 * (s \div 2) + (s % 2)
    BY DEF Bool
  <2> QED BY <2>1
<1>6. PICK c \in Bool, u \in 0..3 : t = 2 * u + c
  <2>1. t % 2 \in Bool /\ t \div 2 \in 0..3 /\ t = 2 * (t \div 2) + (t % 2)
    BY DEF Bool
  <2> QED BY <2>1
<1>7. PICK b \in Bool, a \in Bool : u = 2 * a + b
  <2>1. u % 2 \in Bool /\ u \div 2 \in Bool /\ u = 2 * (u \div 2) + (u % 2)
    BY DEF Bool
  <2> QED BY <2>1
<1>8. Binary(x, a, b, c, d, e, f, g, h)
  BY <1>1, <1>2, <1>3, <1>4, <1>5, <1>6, <1>7 DEF Binary, Bool
<1> QED BY <1>8

\* The digits of a byte, bit by bit.
LEMMA Cut ==
  ASSUME NEW x, NEW a, NEW b, NEW c, NEW d, NEW e, NEW f, NEW g, NEW h,
         Binary(x, a, b, c, d, e, f, g, h)
  PROVE  /\ x \div 4 = 32 * a + 16 * b + 8 * c + 4 * d + 2 * e + f
         /\ x % 4 = 2 * g + h
         /\ x \div 16 = 8 * a + 4 * b + 2 * c + d
         /\ x % 16 = 8 * e + 4 * f + 2 * g + h
         /\ x \div 64 = 2 * a + b
         /\ x % 64 = 32 * c + 16 * d + 8 * e + 4 * f + 2 * g + h
<1>1. x = 128 * a + 64 * b + 32 * c + 16 * d + 8 * e + 4 * f + 2 * g + h
  BY DEF Binary
<1>0. /\ a \in Bool /\ b \in Bool /\ c \in Bool /\ d \in Bool
      /\ e \in Bool /\ f \in Bool /\ g \in Bool /\ h \in Bool
  BY DEF Binary
<1>2. x \div 4 = 32 * a + 16 * b + 8 * c + 4 * d + 2 * e + f /\ x % 4 = 2 * g + h
  BY <1>0, <1>1 DEF Bool
<1>3. x \div 16 = 8 * a + 4 * b + 2 * c + d /\ x % 16 = 8 * e + 4 * f + 2 * g + h
  BY <1>0, <1>1 DEF Bool
<1>4. x \div 64 = 2 * a + b /\ x % 64 = 32 * c + 16 * d + 8 * e + 4 * f + 2 * g + h
  BY <1>0, <1>1 DEF Bool
<1> QED BY <1>2, <1>3, <1>4

\* The sextets that the bytes x, y and z are cut into.
Cuts(x, y, z, s, t, u, v) ==
  /\ x \in 0..255 /\ y \in 0..255 /\ z \in 0..255
  /\ s = x \div 4 /\ t = 16 * (x % 4) + y \div 16
  /\ u = 4 * (y % 16) + z \div 64 /\ v = z % 64

\* The bits of three bytes are those of four sextets, in runs.
LEMMA Regrouped ==
  ASSUME NEW x, NEW y, NEW z, NEW s, NEW t, NEW u, NEW v,
         Cuts(x, y, z, s, t, u, v)
  PROVE  /\ \A e \in 0..5 : Bin(s, e) = Bin(x, e + 2)
         /\ \A e \in 4..5 : Bin(t, e) = Bin(x, e - 4)
         /\ \A e \in 0..3 : Bin(t, e) = Bin(y, e + 4)
         /\ \A e \in 2..5 : Bin(u, e) = Bin(y, e - 2)
         /\ \A e \in 0..1 : Bin(u, e) = Bin(z, e + 6)
         /\ \A e \in 0..5 : Bin(v, e) = Bin(z, e)
<1>0. /\ x \in 0..255 /\ y \in 0..255 /\ z \in 0..255
      /\ s = x \div 4 /\ t = 16 * (x % 4) + y \div 16
      /\ u = 4 * (y % 16) + z \div 64 /\ v = z % 64
  BY DEF Cuts
<1>1. PICK x7, x6, x5, x4, x3, x2, x1, x0 :
        Binary(x, x7, x6, x5, x4, x3, x2, x1, x0)
  BY <1>0, BinaryExists
<1>2. PICK y7, y6, y5, y4, y3, y2, y1, y0 :
        Binary(y, y7, y6, y5, y4, y3, y2, y1, y0)
  BY <1>0, BinaryExists
<1>3. PICK z7, z6, z5, z4, z3, z2, z1, z0 :
        Binary(z, z7, z6, z5, z4, z3, z2, z1, z0)
  BY <1>0, BinaryExists
<1>4. /\ x7 \in Bool /\ x6 \in Bool /\ x5 \in Bool /\ x4 \in Bool
      /\ x3 \in Bool /\ x2 \in Bool /\ x1 \in Bool /\ x0 \in Bool
      /\ y7 \in Bool /\ y6 \in Bool /\ y5 \in Bool /\ y4 \in Bool
      /\ y3 \in Bool /\ y2 \in Bool /\ y1 \in Bool /\ y0 \in Bool
      /\ z7 \in Bool /\ z6 \in Bool /\ z5 \in Bool /\ z4 \in Bool
      /\ z3 \in Bool /\ z2 \in Bool /\ z1 \in Bool /\ z0 \in Bool
      /\ 0 \in Bool
  BY <1>1, <1>2, <1>3 DEF Binary, Bool
<1>5. Binary(s, 0, 0, x7, x6, x5, x4, x3, x2)
  <2>1. s = 32 * x7 + 16 * x6 + 8 * x5 + 4 * x4 + 2 * x3 + x2
    BY <1>0, <1>1, Cut
  <2> QED BY <1>4, <2>1 DEF Binary, Bool
<1>6. Binary(t, 0, 0, x1, x0, y7, y6, y5, y4)
  <2>1. x % 4 = 2 * x1 + x0
    BY <1>0, <1>1, Cut
  <2>2. y \div 16 = 8 * y7 + 4 * y6 + 2 * y5 + y4
    BY <1>2, Cut
  <2>3. t = 16 * (2 * x1 + x0) + (8 * y7 + 4 * y6 + 2 * y5 + y4)
    BY <1>0, <2>1, <2>2
  <2> QED BY <1>4, <2>3 DEF Binary, Bool
<1>7. Binary(u, 0, 0, y3, y2, y1, y0, z7, z6)
  <2>1. y % 16 = 8 * y3 + 4 * y2 + 2 * y1 + y0
    BY <1>2, Cut
  <2>2. z \div 64 = 2 * z7 + z6
    BY <1>0, <1>3, Cut
  <2>3. u = 4 * (8 * y3 + 4 * y2 + 2 * y1 + y0) + (2 * z7 + z6)
    BY <1>0, <2>1, <2>2
  <2> QED BY <1>4, <2>3 DEF Binary, Bool
<1>8. Binary(v, 0, 0, z5, z4, z3, z2, z1, z0)
  <2>1. v = 32 * z5 + 16 * z4 + 8 * z3 + 4 * z2 + 2 * z1 + z0
    BY <1>0, <1>3, Cut
  <2> QED BY <1>4, <2>1 DEF Binary, Bool
<1>9. /\ Bin(x, 7) = x7 /\ Bin(x, 6) = x6 /\ Bin(x, 5) = x5 /\ Bin(x, 4) = x4
      /\ Bin(x, 3) = x3 /\ Bin(x, 2) = x2 /\ Bin(x, 1) = x1 /\ Bin(x, 0) = x0
  BY <1>1, BinsOf, Zenon
<1>10. /\ Bin(y, 7) = y7 /\ Bin(y, 6) = y6 /\ Bin(y, 5) = y5 /\ Bin(y, 4) = y4
       /\ Bin(y, 3) = y3 /\ Bin(y, 2) = y2 /\ Bin(y, 1) = y1 /\ Bin(y, 0) = y0
  BY <1>2, BinsOf, Zenon
<1>11. /\ Bin(z, 7) = z7 /\ Bin(z, 6) = z6 /\ Bin(z, 5) = z5 /\ Bin(z, 4) = z4
       /\ Bin(z, 3) = z3 /\ Bin(z, 2) = z2 /\ Bin(z, 1) = z1 /\ Bin(z, 0) = z0
  BY <1>3, BinsOf, Zenon
<1>12. /\ Bin(s, 5) = x7 /\ Bin(s, 4) = x6 /\ Bin(s, 3) = x5
       /\ Bin(s, 2) = x4 /\ Bin(s, 1) = x3 /\ Bin(s, 0) = x2
  BY <1>5, BinsOf, Zenon
<1>13. /\ Bin(t, 5) = x1 /\ Bin(t, 4) = x0 /\ Bin(t, 3) = y7
       /\ Bin(t, 2) = y6 /\ Bin(t, 1) = y5 /\ Bin(t, 0) = y4
  BY <1>6, BinsOf, Zenon
<1>14. /\ Bin(u, 5) = y3 /\ Bin(u, 4) = y2 /\ Bin(u, 3) = y1
       /\ Bin(u, 2) = y0 /\ Bin(u, 1) = z7 /\ Bin(u, 0) = z6
  BY <1>7, BinsOf, Zenon
<1>15. /\ Bin(v, 5) = z5 /\ Bin(v, 4) = z4 /\ Bin(v, 3) = z3
       /\ Bin(v, 2) = z2 /\ Bin(v, 1) = z1 /\ Bin(v, 0) = z0
  BY <1>8, BinsOf, Zenon
<1>16. \A e \in 0..5 : e = 0 \/ e = 1 \/ e = 2 \/ e = 3 \/ e = 4 \/ e = 5
  OBVIOUS
<1>17. \A e \in 0..5 : Bin(s, e) = Bin(x, e + 2)
  BY <1>9, <1>12, <1>16
<1>18. /\ \A e \in 4..5 : Bin(t, e) = Bin(x, e - 4)
       /\ \A e \in 0..3 : Bin(t, e) = Bin(y, e + 4)
  BY <1>9, <1>10, <1>13, <1>16
<1>19. /\ \A e \in 2..5 : Bin(u, e) = Bin(y, e - 2)
       /\ \A e \in 0..1 : Bin(u, e) = Bin(z, e + 6)
  BY <1>10, <1>11, <1>14, <1>16
<1>20. \A e \in 0..5 : Bin(v, e) = Bin(z, e)
  BY <1>11, <1>15, <1>16
<1> QED BY <1>17, <1>18, <1>19, <1>20

\* Place i of a stream of bits, in sextets and in bytes: the group p, the
\* sextet a of the group and the weight e in the sextet.
LEMMA Places ==
  ASSUME NEW i \in Nat \ {0}
  PROVE  \E p \in Nat, a \in 0..3, e \in 0..5 :
           /\ i - 1 = 24 * p + 6 * a + (5 - e)
           /\ (i - 1) \div 6 = 4 * p + a /\ 5 - ((i - 1) % 6) = e
<1> DEFINE q == (i - 1) \div 6
           e == 5 - ((i - 1) % 6)
<1>1. q \in Nat /\ e \in 0..5 /\ i - 1 = 6 * q + (5 - e)
  OBVIOUS
<1>2. q \div 4 \in Nat /\ q % 4 \in 0..3 /\ q = 4 * (q \div 4) + (q % 4)
  BY <1>1
<1> HIDE DEF q
<1>3. i - 1 = 24 * (q \div 4) + 6 * (q % 4) + (5 - e)
  BY <1>1, <1>2
<1> QED BY <1>1, <1>2, <1>3 DEF q

\* If each group of three bytes of `oct` is cut into a group of four sextets
\* of `six`, they are the same stream of bits.
LEMMA StreamBits ==
  ASSUME NEW oct, NEW six, NEW i \in Nat \ {0},
         \A p \in Nat : Cuts(oct[3 * p + 1], oct[3 * p + 2], oct[3 * p + 3],
                            six[4 * p + 1], six[4 * p + 2], six[4 * p + 3], six[4 * p + 4])
  PROVE  Bin(six[1 + (i - 1) \div 6], 5 - ((i - 1) % 6)) =
           Bin(oct[1 + (i - 1) \div 8], 7 - ((i - 1) % 8))
<1>1. PICK p \in Nat, a \in 0..3, e \in 0..5 :
        /\ i - 1 = 24 * p + 6 * a + (5 - e)
        /\ (i - 1) \div 6 = 4 * p + a /\ 5 - ((i - 1) % 6) = e
  BY Places
<1>2. PICK x, y, z, s, t, u, v :
        /\ x = oct[3 * p + 1] /\ y = oct[3 * p + 2] /\ z = oct[3 * p + 3]
        /\ s = six[4 * p + 1] /\ t = six[4 * p + 2] /\ u = six[4 * p + 3]
        /\ v = six[4 * p + 4]
  OBVIOUS
<1>3. PICK k, w, j, f : /\ k = 1 + (i - 1) \div 6 /\ w = 5 - ((i - 1) % 6)
                        /\ j = 1 + (i - 1) \div 8 /\ f = 7 - ((i - 1) % 8)
  OBVIOUS
<1>4. k = 4 * p + a + 1 /\ w = e
  BY <1>1, <1>3
<1>5. Cuts(x, y, z, s, t, u, v)
  BY <1>2
<1>6. /\ \A c \in 0..5 : Bin(s, c) = Bin(x, c + 2)
      /\ \A c \in 4..5 : Bin(t, c) = Bin(x, c - 4)
      /\ \A c \in 0..3 : Bin(t, c) = Bin(y, c + 4)
      /\ \A c \in 2..5 : Bin(u, c) = Bin(y, c - 2)
      /\ \A c \in 0..1 : Bin(u, c) = Bin(z, c + 6)
      /\ \A c \in 0..5 : Bin(v, c) = Bin(z, c)
  BY <1>5, Regrouped
<1>7. ASSUME a = 0
      PROVE  Bin(six[k], w) = Bin(oct[j], f)
  <2>1. j = 3 * p + 1 /\ f = e + 2
    BY <1>1, <1>3, <1>7
  <2>2. six[k] = s /\ oct[j] = x
    <3>1. k = 4 * p + 1
      BY <1>4, <1>7
    <3> QED BY <1>2, <2>1, <3>1
  <2> QED BY <1>4, <1>6, <2>1, <2>2
<1>8. ASSUME a = 1 /\ e \in 4..5
      PROVE  Bin(six[k], w) = Bin(oct[j], f)
  <2>1. j = 3 * p + 1 /\ f = e - 4
    BY <1>1, <1>3, <1>8
  <2>2. six[k] = t /\ oct[j] = x
    <3>1. k = 4 * p + 2
      BY <1>4, <1>8
    <3> QED BY <1>2, <2>1, <3>1
  <2> QED BY <1>4, <1>6, <1>8, <2>1, <2>2
<1>9. ASSUME a = 1 /\ e \in 0..3
      PROVE  Bin(six[k], w) = Bin(oct[j], f)
  <2>1. j = 3 * p + 2 /\ f = e + 4
    BY <1>1, <1>3, <1>9
  <2>2. six[k] = t /\ oct[j] = y
    <3>1. k = 4 * p + 2
      BY <1>4, <1>9
    <3> QED BY <1>2, <2>1, <3>1
  <2> QED BY <1>4, <1>6, <1>9, <2>1, <2>2
<1>10. ASSUME a = 2 /\ e \in 2..5
      PROVE  Bin(six[k], w) = Bin(oct[j], f)
  <2>1. j = 3 * p + 2 /\ f = e - 2
    BY <1>1, <1>3, <1>10
  <2>2. six[k] = u /\ oct[j] = y
    <3>1. k = 4 * p + 3
      BY <1>4, <1>10
    <3> QED BY <1>2, <2>1, <3>1
  <2> QED BY <1>4, <1>6, <1>10, <2>1, <2>2
<1>11. ASSUME a = 2 /\ e \in 0..1
      PROVE  Bin(six[k], w) = Bin(oct[j], f)
  <2>1. j = 3 * p + 3 /\ f = e + 6
    BY <1>1, <1>3, <1>11
  <2>2. six[k] = u /\ oct[j] = z
    <3>1. k = 4 * p + 3
      BY <1>4, <1>11
    <3> QED BY <1>2, <2>1, <3>1
  <2> QED BY <1>4, <1>6, <1>11, <2>1, <2>2
<1>12. ASSUME a = 3
      PROVE  Bin(six[k], w) = Bin(oct[j], f)
  <2>1. j = 3 * p + 3 /\ f = e
    BY <1>1, <1>3, <1>12
  <2>2. six[k] = v /\ oct[j] = z
    <3>1. k = 4 * p + 4
      BY <1>4, <1>12
    <3> QED BY <1>2, <2>1, <3>1
  <2> QED BY <1>4, <1>6, <2>1, <2>2
<1>13. \/ a = 0 \/ (a = 1 /\ e \in 4..5) \/ (a = 1 /\ e \in 0..3)
       \/ (a = 2 /\ e \in 2..5) \/ (a = 2 /\ e \in 0..1) \/ a = 3
  OBVIOUS
<1>14. Bin(six[k], w) = Bin(oct[j], f)
  BY <1>7, <1>8, <1>9, <1>10, <1>11, <1>12, <1>13
<1> QED BY <1>3, <1>14

\* Bit by bit, the sextets of b are the bytes of b.
LEMMA SextetBits ==
  ASSUME NEW b \in Seq(Byte), NEW i \in Nat \ {0}
  PROVE  Bin(Sextet(b, 1 + (i - 1) \div 6), 5 - ((i - 1) % 6)) =
           Bin(At(b, 1 + (i - 1) \div 8), 7 - ((i - 1) % 8))
<1>1. PICK oct, six : oct = [j \in Nat |-> At(b, j)] /\ six = [k \in Nat |-> Sextet(b, k)]
  OBVIOUS
<1>2. ASSUME NEW p \in Nat
      PROVE  Cuts(oct[3 * p + 1], oct[3 * p + 2], oct[3 * p + 3],
                  six[4 * p + 1], six[4 * p + 2], six[4 * p + 3], six[4 * p + 4])
  <2>1. /\ oct[3 * p + 1] = At(b, 3 * p + 1) /\ oct[3 * p + 2] = At(b, 3 * p + 2)
        /\ oct[3 * p + 3] = At(b, 3 * p + 3)
    BY <1>1
  <2>2. /\ six[4 * p + 1] = Sextet(b, 4 * p + 1) /\ six[4 * p + 2] = Sextet(b, 4 * p + 2)
        /\ six[4 * p + 3] = Sextet(b, 4 * p + 3) /\ six[4 * p + 4] = Sextet(b, 4 * p + 4)
    BY <1>1
  <2>3. /\ At(b, 3 * p + 1) \in 0..255 /\ At(b, 3 * p + 2) \in 0..255
        /\ At(b, 3 * p + 3) \in 0..255
    BY AtByte DEF Byte
  <2> QED BY <2>1, <2>2, <2>3, SextetsOf DEF Cuts
<1>3. Bin(six[1 + (i - 1) \div 6], 5 - ((i - 1) % 6)) =
        Bin(oct[1 + (i - 1) \div 8], 7 - ((i - 1) % 8))
  BY <1>2, StreamBits
<1>4. 1 + (i - 1) \div 6 \in Nat /\ 1 + (i - 1) \div 8 \in Nat
  OBVIOUS
<1> QED BY <1>1, <1>3, <1>4

\* The bits of a byte are those of its two digits.
LEMMA Nibbles ==
  ASSUME NEW x \in 0..255, NEW s, s = x \div 16, NEW t, t = x % 16
  PROVE  /\ \A e \in 0..3 : Bin(s, e) = Bin(x, e + 4)
         /\ \A e \in 0..3 : Bin(t, e) = Bin(x, e)
<1>1. PICK x7, x6, x5, x4, x3, x2, x1, x0 :
        Binary(x, x7, x6, x5, x4, x3, x2, x1, x0)
  BY BinaryExists
<1>2. /\ x7 \in Bool /\ x6 \in Bool /\ x5 \in Bool /\ x4 \in Bool
      /\ x3 \in Bool /\ x2 \in Bool /\ x1 \in Bool /\ x0 \in Bool /\ 0 \in Bool
  BY <1>1 DEF Binary, Bool
<1>3. Binary(s, 0, 0, 0, 0, x7, x6, x5, x4)
  <2>1. s = 8 * x7 + 4 * x6 + 2 * x5 + x4
    BY <1>1, Cut
  <2> QED BY <1>2, <2>1 DEF Binary, Bool
<1>4. Binary(t, 0, 0, 0, 0, x3, x2, x1, x0)
  <2>1. t = 8 * x3 + 4 * x2 + 2 * x1 + x0
    BY <1>1, Cut
  <2> QED BY <1>2, <2>1 DEF Binary, Bool
<1>5. /\ Bin(x, 7) = x7 /\ Bin(x, 6) = x6 /\ Bin(x, 5) = x5 /\ Bin(x, 4) = x4
      /\ Bin(x, 3) = x3 /\ Bin(x, 2) = x2 /\ Bin(x, 1) = x1 /\ Bin(x, 0) = x0
  BY <1>1, BinsOf, Zenon
<1>6. /\ Bin(s, 3) = x7 /\ Bin(s, 2) = x6 /\ Bin(s, 1) = x5 /\ Bin(s, 0) = x4
  BY <1>3, BinsOf, Zenon
<1>7. /\ Bin(t, 3) = x3 /\ Bin(t, 2) = x2 /\ Bin(t, 1) = x1 /\ Bin(t, 0) = x0
  BY <1>4, BinsOf, Zenon
<1>8. \A e \in 0..3 : e = 0 \/ e = 1 \/ e = 2 \/ e = 3
  OBVIOUS
<1>9. \A e \in 0..3 : Bin(s, e) = Bin(x, e + 4)
  BY <1>5, <1>6, <1>8
<1>10. \A e \in 0..3 : Bin(t, e) = Bin(x, e)
  BY <1>5, <1>7, <1>8
<1> QED BY <1>9, <1>10

\* Place i of a stream of bits, in digits and in bytes: the byte p, the digit
\* a of the byte and the weight e in the digit.
LEMMA HexPlaces ==
  ASSUME NEW i \in Nat \ {0}
  PROVE  \E p \in Nat, a \in 0..1, e \in 0..3 :
           /\ 1 + (i - 1) \div 4 = 2 * p + a + 1 /\ (4 - 1) - ((i - 1) % 4) = e
           /\ 1 + (i - 1) \div 8 = p + 1
           /\ a = 0 => (8 - 1) - ((i - 1) % 8) = e + 4
           /\ a = 1 => (8 - 1) - ((i - 1) % 8) = e
<1> DEFINE q == (i - 1) \div 4
           e == 3 - ((i - 1) % 4)
<1>1. q \in Nat /\ e \in 0..3 /\ i - 1 = 4 * q + (3 - e)
  OBVIOUS
<1>2. q \div 2 \in Nat /\ q % 2 \in 0..1 /\ q = 2 * (q \div 2) + (q % 2)
  BY <1>1
<1>3. (4 - 1) - ((i - 1) % 4) = e
  OBVIOUS
<1> HIDE DEF e
<1>4. 1 + (i - 1) \div 4 = 2 * (q \div 2) + (q % 2) + 1
  BY <1>2
<1> HIDE DEF q
<1>5. PICK p \in Nat, a \in 0..1 : p = q \div 2 /\ a = q % 2
  BY <1>2
<1>6. i - 1 = 8 * p + 4 * a + (3 - e)
  BY <1>1, <1>2, <1>5
<1>7. /\ 1 + (i - 1) \div 8 = p + 1
      /\ a = 0 => (8 - 1) - ((i - 1) % 8) = e + 4
      /\ a = 1 => (8 - 1) - ((i - 1) % 8) = e
  BY <1>1, <1>6
<1> QED BY <1>1, <1>3, <1>4, <1>5, <1>7

LEMMA HexBits ==
  ASSUME NEW b \in Seq(Byte), NEW hex, hex = Values(BytesToHex(b), ParseHexDigit)
  PROVE  /\ Len(hex) = 2 * Len(b)
         /\ \A i \in 1..(8 * Len(b)) : Bit(hex, 4, i) = Bit(b, 8, i)
<1> DEFINE t == BytesToHex(b)
           n == Len(b)
<1>1. /\ t \in Seq(Nat) /\ Len(t) = 2 * n /\ n \in Nat
      /\ \A j \in 1..n : /\ t[2 * j - 1] = HexDigit(b[j] \div 16)
                         /\ t[2 * j] = HexDigit(b[j] % 16)
  BY Spelled
<1>2. hex = [k \in 1..Len(t) |-> ParseHexDigit(t[k])]
  BY Zenon DEF Values
<1> HIDE DEF t, n
<1>3. hex = [k \in 1..(2 * n) |-> ParseHexDigit(t[k])] /\ Len(hex) = 2 * n
  BY <1>1, <1>2
<1>4. ASSUME NEW i \in 1..(8 * n)
      PROVE  Bit(hex, 4, i) = Bit(b, 8, i)
  <2>1. PICK p \in Nat, a \in 0..1, e \in 0..3 :
          /\ 1 + (i - 1) \div 4 = 2 * p + a + 1 /\ (4 - 1) - ((i - 1) % 4) = e
          /\ 1 + (i - 1) \div 8 = p + 1
          /\ a = 0 => (8 - 1) - ((i - 1) % 8) = e + 4
          /\ a = 1 => (8 - 1) - ((i - 1) % 8) = e
    <3>1. i \in Nat \ {0}
      BY <1>1
    <3> QED BY <3>1, HexPlaces
  <2>2. PICK k, w, j, f : /\ k = 1 + (i - 1) \div 4 /\ w = (4 - 1) - ((i - 1) % 4)
                          /\ j = 1 + (i - 1) \div 8 /\ f = (8 - 1) - ((i - 1) % 8)
    OBVIOUS
  <2>3. k = 2 * p + a + 1 /\ w = e /\ j = p + 1 /\ j \in 1..n
    <3>1. 1 + (i - 1) \div 8 \in 1..n
      BY <1>1
    <3> QED BY <2>1, <2>2, <3>1
  <2>4. PICK x \in 0..255 : x = b[j]
    <3>1. b[j] \in Byte
      BY <2>3 DEF n
    <3> QED BY <3>1 DEF Byte
  <2>5. PICK s, u : s = x \div 16 /\ u = x % 16
    OBVIOUS
  <2>6. /\ \A c \in 0..3 : Bin(s, c) = Bin(x, c + 4)
        /\ \A c \in 0..3 : Bin(u, c) = Bin(x, c)
    BY <2>5, Nibbles
  <2>7. s \in 0..15 /\ u \in 0..15
    BY <2>5
  <2>8. Bit(hex, 4, i) = Bin(hex[k], w) /\ Bit(b, 8, i) = Bin(b[j], f)
    BY <2>2, BitIsBin
  <2>9. CASE a = 0
    <3>1. k = 2 * j - 1 /\ k \in 1..(2 * n) /\ f = e + 4
      BY <1>1, <2>1, <2>2, <2>3, <2>9
    <3>2. hex[k] = s
      BY <1>1, <1>3, <2>3, <2>4, <2>5, <2>7, <3>1, Digits
    <3> QED BY <2>3, <2>4, <2>6, <2>8, <3>1, <3>2
  <2>10. CASE a = 1
    <3>1. k = 2 * j /\ k \in 1..(2 * n) /\ f = e
      BY <1>1, <2>1, <2>2, <2>3, <2>10
    <3>2. hex[k] = u
      BY <1>1, <1>3, <2>3, <2>4, <2>5, <2>7, <3>1, Digits
    <3> QED BY <2>3, <2>4, <2>6, <2>8, <3>1, <3>2
  <2> QED BY <2>9, <2>10
<1> QED BY <1>3, <1>4 DEF n

LEMMA Base64Bits ==
  ASSUME NEW b \in Seq(Byte), NEW six,
         six = Values(SubSeq(BytesToBase64(b), 1, Sextets(b)), DecodeBase64Char)
  PROVE  /\ Len(six) = Sextets(b)
         /\ \A i \in 1..(8 * Len(b)) : Bit(six, 6, i) = Bit(b, 8, i)
         /\ \A i \in (8 * Len(b) + 1)..(6 * Sextets(b)) : Bit(six, 6, i) = 0
<1> DEFINE t == BytesToBase64(b)
           n == Len(b)
           m == Sextets(b)
           r == SubSeq(t, 1, m)
<1>1. /\ t \in Seq(Nat) /\ m \in 0..Len(t) /\ n \in Nat /\ m \in Nat
      /\ \A k \in 1..m : t[k] = Base64Char(Sextet(b, k))
      /\ m = (8 * n + 5) \div 6
  <2>1. n \in Nat /\ m = (8 * n + 5) \div 6
    BY DEF Sextets
  <2> QED BY <2>1, Encoded, Counts
<1>2. six = [k \in 1..Len(r) |-> DecodeBase64Char(r[k])]
  BY Zenon DEF Values
<1>3. Len(r) = m /\ \A k \in 1..m : r[k] = t[k]
  <2> HIDE DEF t, m
  <2> QED BY <1>1
<1> HIDE DEF t, n, m, r
<1>4. \A k \in 1..m : DecodeBase64Char(r[k]) = Sextet(b, k)
  <2>1. \A k \in 1..m : k \in Nat \ {0}
    BY <1>1
  <2> QED BY <1>1, <1>3, <2>1, SextetRange, Base64Digits
<1>5. Len(six) = m /\ \A k \in 1..m : six[k] = Sextet(b, k)
  <2>1. six = [k \in 1..m |-> DecodeBase64Char(r[k])]
    BY <1>2, <1>3
  <2>2. m \in Nat
    BY <1>1
  <2>3. Len(six) = m
    BY <2>1, <2>2
  <2> QED BY <1>4, <2>1, <2>3
<1>6. ASSUME NEW i \in 1..(6 * m)
      PROVE  Bit(six, 6, i) = Bin(At(b, 1 + (i - 1) \div 8), 7 - ((i - 1) % 8))
  <2>1. 1 + (i - 1) \div 6 \in 1..m /\ i \in Nat \ {0} /\ (6 - 1) - ((i - 1) % 6) = 5 - ((i - 1) % 6)
    BY <1>1
  <2>2. Bit(six, 6, i) = Bin(six[1 + (i - 1) \div 6], (6 - 1) - ((i - 1) % 6))
    BY BitIsBin
  <2> QED BY <1>5, <2>1, <2>2, SextetBits
<1>7. ASSUME NEW i \in 1..(8 * n)
      PROVE  Bit(six, 6, i) = Bit(b, 8, i)
  <2>1. /\ i \in 1..(6 * m) /\ 1 + (i - 1) \div 8 \in 1..n
        /\ (8 - 1) - ((i - 1) % 8) = 7 - ((i - 1) % 8)
    BY <1>1
  <2>2. Bit(b, 8, i) = Bin(b[1 + (i - 1) \div 8], (8 - 1) - ((i - 1) % 8))
    BY BitIsBin
  <2>3. At(b, 1 + (i - 1) \div 8) = b[1 + (i - 1) \div 8]
    BY <2>1 DEF At, n
  <2> QED BY <1>6, <2>1, <2>2, <2>3
<1>8. ASSUME NEW i \in (8 * n + 1)..(6 * m)
      PROVE  Bit(six, 6, i) = 0
  <2>1. /\ i \in 1..(6 * m) /\ 1 + (i - 1) \div 8 \notin 1..n
        /\ 7 - ((i - 1) % 8) \in 0..7
    BY <1>1
  <2>2. At(b, 1 + (i - 1) \div 8) = 0
    BY <2>1 DEF At, n
  <2>3. \A e \in 0..7 : Bin(0, e) = 0
    <3>1. Binary(0, 0, 0, 0, 0, 0, 0, 0, 0)
      BY DEF Binary, Bool
    <3>2. /\ Bin(0, 7) = 0 /\ Bin(0, 6) = 0 /\ Bin(0, 5) = 0 /\ Bin(0, 4) = 0
          /\ Bin(0, 3) = 0 /\ Bin(0, 2) = 0 /\ Bin(0, 1) = 0 /\ Bin(0, 0) = 0
      BY <3>1, BinsOf, Zenon
    <3>3. \A e \in 0..7 : \/ e = 0 \/ e = 1 \/ e = 2 \/ e = 3
                          \/ e = 4 \/ e = 5 \/ e = 6 \/ e = 7
      OBVIOUS
    <3> QED BY <3>2, <3>3
  <2> QED BY <1>6, <2>1, <2>2, <2>3
<1> QED BY <1>5, <1>7, <1>8 DEF n, m

\* The input is made of bytes.
LEMMA InputBytes == Spec => [](input \in Seq(Byte))
<1>1. Init => input \in Seq(Byte)
  BY DEF Init
<1>2. input \in Seq(Byte) /\ [Next]_input => (input \in Seq(Byte))'
  <2> SUFFICES ASSUME input \in Seq(Byte), Next
               PROVE  input' \in Seq(Byte)
    OBVIOUS
  <2>1. PICK c \in Byte : Grow(c)
    BY ConversionsAssumption DEF Next, Byte
  <2> QED BY <2>1 DEF Grow
<1> QED BY <1>1, <1>2, PTL DEF Spec

(***************************************************************************)
(* Bit by bit, what bytesToHex() and bytesToBase64() write of bytes of any *)
(* length spells those bytes (bytes.ts:19, 64).                            *)
(***************************************************************************)
THEOREM AlwaysRegroups == Spec => []EncodersRegroup
<1>1. input \in Seq(Byte) => EncodersRegroup
  <2> SUFFICES ASSUME input \in Seq(Byte) PROVE EncodersRegroup
    OBVIOUS
  <2>1. PICK hex : hex = Values(BytesToHex(input), ParseHexDigit)
    OBVIOUS
  <2>2. PICK b64 : b64 = BytesToBase64(input)
    OBVIOUS
  <2>3. PICK six : six = Values(SubSeq(b64, 1, Sextets(input)), DecodeBase64Char)
    OBVIOUS
  <2>4. Len(hex) = 2 * Len(input) /\ Len(input) \in Nat
        /\ \A i \in 1..(8 * Len(input)) : Bit(hex, 4, i) = Bit(input, 8, i)
    BY <2>1, HexBits
  <2>5. /\ Len(six) = Sextets(input)
        /\ \A i \in 1..(8 * Len(input)) : Bit(six, 6, i) = Bit(input, 8, i)
        /\ \A i \in (8 * Len(input) + 1)..(6 * Sextets(input)) : Bit(six, 6, i) = 0
    BY <2>2, <2>3, Base64Bits
  <2>6. /\ Len(b64) = 4 * ((Len(input) + 2) \div 3)
        /\ \A k \in (Sextets(input) + 1)..Len(b64) : b64[k] = Pad
    BY <2>2, Encoded
  <2>7. Len(hex) * 4 = 8 * Len(input) /\ Len(b64) % 4 = 0
    BY <2>4, <2>6
  <2> QED BY <2>1, <2>2, <2>3, <2>4, <2>5, <2>6, <2>7, Zenon DEF EncodersRegroup
<1> QED BY <1>1, InputBytes, PTL

(***************************************************************************)
(* Decoding undoes encoding, in both encodings and for input of any length *)
(* (bytes.ts:35, 97).                                                      *)
(***************************************************************************)
THEOREM AlwaysRoundTrips == Spec => []RoundTrips
<1>1. input \in Seq(Byte) /\ HexRoundTrips => RoundTrips
  BY Base64RoundTrip DEF RoundTrips
<1> QED BY <1>1, InputBytes, HexAlwaysRoundTrips, PTL

-----------------------------------------------------------------------------
(* Text that was not made by the encoders.                                 *)

\* A digit, decoded and encoded again, differs at most in the case.
LEMMA DigitCase ==
  ASSUME NEW c \in Byte, ParseHexDigit(c) # -1
  PROVE  LET h == HexDigit(ParseHexDigit(c)) IN
         /\ ParseHexDigit(c) \in 0..15
         /\ (IF h \in 97..122 THEN h - 32 ELSE h) = (IF c \in 97..122 THEN c - 32 ELSE c)
<1>1. c \in 48..57 \/ c \in 97..102 \/ c \in 65..70
  BY DEF ParseHexDigit
<1>2. CASE c \in 48..57
  BY <1>2 DEF ParseHexDigit, HexDigit
<1>3. CASE c \in 97..102
  BY <1>3 DEF ParseHexDigit, HexDigit
<1>4. CASE c \in 65..70
  BY <1>4 DEF ParseHexDigit, HexDigit
<1> QED BY <1>1, <1>2, <1>3, <1>4

\* hexToBytes() throws, or gives bytes that spell the text up to case.
LEMMA HexSpelling ==
  ASSUME NEW t \in Seq(Byte), HexToBytes(t) # Thrown
  PROVE  Upper(BytesToHex(HexToBytes(t))) = Upper(t)
<1> DEFINE b == HexToBytes(t)
           n == Len(t) \div 2
           P(c) == ParseHexDigit(c)
           U(c) == IF c \in 97..122 THEN c - 32 ELSE c
<1>1. /\ Len(t) \in Nat /\ n \in Nat /\ Len(t) = 2 * n
      /\ \A j \in 1..Len(t) : P(t[j]) # -1 /\ t[j] \in Byte
      /\ b = [i \in 1..n |-> 16 * P(t[2 * i - 1]) + P(t[2 * i])]
  <2>1. /\ Len(t) % 2 = 0 /\ \A j \in 1..Len(t) : P(t[j]) # -1
        /\ b = [i \in 1..n |-> 16 * P(t[2 * i - 1]) + P(t[2 * i])]
    BY DEF HexToBytes
  <2>2. Len(t) \in Nat /\ \A j \in 1..Len(t) : t[j] \in Byte
    OBVIOUS
  <2>3. n \in Nat /\ Len(t) = 2 * n
    BY <2>1, <2>2
  <2> QED BY <2>1, <2>2, <2>3
<1> HIDE DEF n, b
<1>2. \A j \in 1..(2 * n) : P(t[j]) \in 0..15 /\ U(HexDigit(P(t[j]))) = U(t[j])
  BY <1>1, DigitCase
<1>3. \A i \in 1..n : 2 * i - 1 \in 1..(2 * n) /\ 2 * i \in 1..(2 * n)
  BY <1>1
<1> HIDE DEF P
<1>4. \A i \in 1..n : /\ b[i] \in Byte
                      /\ b[i] \div 16 = P(t[2 * i - 1]) /\ b[i] % 16 = P(t[2 * i])
  <2> TAKE i \in 1..n
  <2>1. PICK d, f \in 0..15 : d = P(t[2 * i - 1]) /\ f = P(t[2 * i])
    BY <1>2, <1>3
  <2>2. b[i] = 16 * d + f
    BY <1>1, <2>1
  <2>3. b[i] \in 0..255 /\ b[i] \div 16 = d /\ b[i] % 16 = f
    BY <2>2
  <2> QED BY <2>1, <2>3, Zenon DEF Byte
<1>5. b \in Seq(Byte) /\ Len(b) = n
  BY <1>1, <1>4
<1>6. PICK h : h = BytesToHex(b)
  OBVIOUS
<1>7. /\ h \in Seq(Nat) /\ Len(h) = 2 * n
      /\ \A i \in 1..n : h[2 * i - 1] = HexDigit(b[i] \div 16) /\ h[2 * i] = HexDigit(b[i] % 16)
  BY <1>5, <1>6, Spelled
<1>8. ASSUME NEW j \in 1..(2 * n)
      PROVE  h[j] = HexDigit(P(t[j]))
  <2>1. PICK i \in 1..n : j = 2 * i - 1 \/ j = 2 * i
    <3>1. /\ (j + 1) \div 2 \in 1..n
          /\ j = 2 * ((j + 1) \div 2) - 1 \/ j = 2 * ((j + 1) \div 2)
      BY <1>1
    <3> QED BY <3>1
  <2> QED BY <1>4, <1>7, <2>1
<1>9. Upper(h) = [j \in 1..(2 * n) |-> U(h[j])] /\ Upper(t) = [j \in 1..(2 * n) |-> U(t[j])]
  BY <1>1, <1>7 DEF Upper
<1> HIDE DEF U
<1> QED BY <1>2, <1>6, <1>8, <1>9 DEF b

\* Whatever digits were kept, their bytes are cut into them.
LEMMA OctetCuts ==
  ASSUME NEW c \in Seq(Alphabet), NEW p \in Nat
  PROVE  Cuts(Octet(c, 3 * p + 1), Octet(c, 3 * p + 2), Octet(c, 3 * p + 3),
              Digit(c, 4 * p + 1), Digit(c, 4 * p + 2), Digit(c, 4 * p + 3),
              Digit(c, 4 * p + 4))
<1>1. \A k : Digit(c, k) \in 0..63
  <2> TAKE k
  <2>1. CASE k \in 1..Len(c)
    <3>1. c[k] \in Alphabet
      BY <2>1
    <3> QED BY <2>1, <3>1, AlphabetDigits DEF Digit
  <2>2. CASE k \notin 1..Len(c)
    <3>1. 0 \in 0..63
      OBVIOUS
    <3> QED BY <2>2, <3>1 DEF Digit
  <2> QED BY <2>1, <2>2
<1>2. PICK s, t, u, v \in 0..63 :
        /\ s = Digit(c, 4 * p + 1) /\ t = Digit(c, 4 * p + 2)
        /\ u = Digit(c, 4 * p + 3) /\ v = Digit(c, 4 * p + 4)
  BY <1>1
<1>3. PICK x, y, z : /\ x = Octet(c, 3 * p + 1) /\ y = Octet(c, 3 * p + 2)
                     /\ z = Octet(c, 3 * p + 3)
  OBVIOUS
<1>4. x = 4 * s + t \div 16 /\ y = 16 * (t % 16) + u \div 4 /\ z = 64 * (u % 4) + v
  BY <1>2, <1>3, OctetsOf
<1>5. x \in 0..255 /\ y \in 0..255 /\ z \in 0..255
  BY <1>4
<1>6. s = x \div 4 /\ x % 4 = t \div 16
  BY <1>4
<1>7. y \div 16 = t % 16 /\ y % 16 = u \div 4
  BY <1>4
<1>8. z \div 64 = u % 4 /\ z % 64 = v
  BY <1>4
<1>9. t = 16 * (t \div 16) + (t % 16) /\ u = 4 * (u \div 4) + (u % 4)
  OBVIOUS
<1>10. Cuts(x, y, z, s, t, u, v)
  BY <1>5, <1>6, <1>7, <1>8, <1>9 DEF Cuts
<1> QED BY <1>2, <1>3, <1>10

LEMMA OctetRange ==
  ASSUME NEW c \in Seq(Alphabet), NEW j \in Nat \ {0}
  PROVE  Octet(c, j) \in Byte
<1>1. PICK p \in Nat : j = 3 * p + 1 \/ j = 3 * p + 2 \/ j = 3 * p + 3
  <2>1. /\ (j - 1) \div 3 \in Nat
        /\ \/ j = 3 * ((j - 1) \div 3) + 1 \/ j = 3 * ((j - 1) \div 3) + 2
           \/ j = 3 * ((j - 1) \div 3) + 3
    OBVIOUS
  <2> QED BY <2>1
<1>2. /\ Octet(c, 3 * p + 1) \in 0..255 /\ Octet(c, 3 * p + 2) \in 0..255
      /\ Octet(c, 3 * p + 3) \in 0..255
  BY OctetCuts DEF Cuts
<1> QED BY <1>1, <1>2 DEF Byte

\* base64ToBytes() throws only on one character too many; the bytes spell
\* what was kept, but for the bits that make no byte.
LEMMA Base64Spelling ==
  ASSUME NEW t \in Seq(Int), NEW c, c = Cleaned(t), NEW b, b = Base64ToBytes(t)
  PROVE  IF Len(c) % 4 = 1 THEN b = Thrown
         ELSE /\ b \in Seq(Byte)
              /\ Len(Cleaned(BytesToBase64(b))) = Len(c)
              /\ \A i \in 1..(8 * Len(b)) :
                   Bit(Values(c, DecodeBase64Char), 6, i) = Bit(b, 8, i)
<1>1. c \in Seq(Alphabet) /\ Len(c) \in Nat
  BY CleanedType
<1>2. CASE Len(c) % 4 = 1
  BY <1>2, Octets
<1>3. CASE Len(c) % 4 # 1
  <2> DEFINE n == (6 * Len(c)) \div 8
  <2>1. b = [j \in 1..n |-> Octet(c, j)]
    BY <1>3, Octets
  <2>2. n \in Nat /\ (8 * n + 5) \div 6 = Len(c) /\ 8 * n <= 6 * Len(c)
    <3>1. PICK m \in Nat : m = Len(c)
      BY <1>1
    <3>2. PICK q \in Nat, r \in {0, 2, 3} : m = 4 * q + r
      <4>1. m \div 4 \in Nat /\ m % 4 \in {0, 2, 3} /\ m = 4 * (m \div 4) + (m % 4)
        BY <1>3, <3>1
      <4> QED BY <4>1
    <3>3. CASE r = 0
      BY <3>1, <3>2, <3>3
    <3>4. CASE r = 2
      BY <3>1, <3>2, <3>4
    <3>5. CASE r = 3
      BY <3>1, <3>2, <3>5
    <3> QED BY <3>2, <3>3, <3>4, <3>5
  <2> HIDE DEF n
  <2>3. \A j \in 1..n : Octet(c, j) \in Byte
    <3>1. \A j \in 1..n : j \in Nat \ {0}
      BY <2>2
    <3> QED BY <1>1, <3>1, OctetRange
  <2>4. b \in Seq(Byte) /\ Len(b) = n
    BY <2>1, <2>2, <2>3
  <2>5. Len(Cleaned(BytesToBase64(b))) = Len(c)
    BY <2>2, <2>4, Reread DEF Sextets
  <2>6. PICK v : v = Values(c, DecodeBase64Char)
    OBVIOUS
  <2>7. v = [k \in 1..Len(c) |-> DecodeBase64Char(c[k])]
    BY <2>6, Zenon DEF Values
  <2>8. PICK oct, six : /\ oct = [j \in Nat |-> Octet(c, j)]
                        /\ six = [k \in Nat |-> Digit(c, k)]
    OBVIOUS
  <2>9. ASSUME NEW p \in Nat
        PROVE  Cuts(oct[3 * p + 1], oct[3 * p + 2], oct[3 * p + 3],
                    six[4 * p + 1], six[4 * p + 2], six[4 * p + 3], six[4 * p + 4])
    <3>1. /\ oct[3 * p + 1] = Octet(c, 3 * p + 1) /\ oct[3 * p + 2] = Octet(c, 3 * p + 2)
          /\ oct[3 * p + 3] = Octet(c, 3 * p + 3)
      BY <2>8
    <3>2. /\ six[4 * p + 1] = Digit(c, 4 * p + 1) /\ six[4 * p + 2] = Digit(c, 4 * p + 2)
          /\ six[4 * p + 3] = Digit(c, 4 * p + 3) /\ six[4 * p + 4] = Digit(c, 4 * p + 4)
      BY <2>8
    <3> QED BY <1>1, <3>1, <3>2, OctetCuts
  <2>10. ASSUME NEW i \in 1..(8 * n)
         PROVE  Bit(v, 6, i) = Bit(b, 8, i)
    <3>1. /\ i \in Nat \ {0}
          /\ 1 + (i - 1) \div 6 \in 1..Len(c) /\ 1 + (i - 1) \div 6 \in Nat
          /\ 1 + (i - 1) \div 8 \in 1..n /\ 1 + (i - 1) \div 8 \in Nat
          /\ (6 - 1) - ((i - 1) % 6) = 5 - ((i - 1) % 6)
          /\ (8 - 1) - ((i - 1) % 8) = 7 - ((i - 1) % 8)
      BY <1>1, <2>2
    <3>2. Bin(six[1 + (i - 1) \div 6], 5 - ((i - 1) % 6)) =
            Bin(oct[1 + (i - 1) \div 8], 7 - ((i - 1) % 8))
      BY <2>9, <3>1, StreamBits
    <3>3. v[1 + (i - 1) \div 6] = six[1 + (i - 1) \div 6]
      BY <2>7, <2>8, <3>1 DEF Digit
    <3>4. b[1 + (i - 1) \div 8] = oct[1 + (i - 1) \div 8]
      BY <2>1, <2>8, <3>1
    <3>5. /\ Bit(v, 6, i) = Bin(v[1 + (i - 1) \div 6], (6 - 1) - ((i - 1) % 6))
          /\ Bit(b, 8, i) = Bin(b[1 + (i - 1) \div 8], (8 - 1) - ((i - 1) % 8))
      BY BitIsBin
    <3> QED BY <3>1, <3>2, <3>3, <3>4, <3>5
  <2> QED BY <1>3, <2>4, <2>5, <2>6, <2>10
<1> QED BY <1>2, <1>3

(***************************************************************************)
(* What the decoders make of text of any length that the encoders did not  *)
(* write: hexToBytes() of any text, base64ToBytes() of documented text     *)
(* (bytes.ts:35, 97).                                                      *)
(***************************************************************************)
THEOREM AlwaysDecodersSpell == Spec => []DecodersSpell
<1>1. input \in Seq(Byte) => DecodersSpell
  <2> SUFFICES ASSUME input \in Seq(Byte) PROVE DecodersSpell
    OBVIOUS
  <2>1. PICK kept, b, back : /\ kept = Cleaned(input) /\ b = Base64ToBytes(input)
                             /\ back = Cleaned(BytesToBase64(b))
    OBVIOUS
  <2>2. input \in Seq(Int)
    <3>1. Byte \subseteq Int
      BY DEF Byte
    <3>2. \A i \in 1..Len(input) : input[i] \in Byte
      OBVIOUS
    <3>3. \A i \in 1..Len(input) : input[i] \in Int
      BY <3>1, <3>2
    <3> QED BY <3>3
  <2>3. IF Len(kept) % 4 = 1 THEN b = Thrown
        ELSE /\ b \in Seq(0..255) /\ Len(back) = Len(kept)
             /\ \A i \in 1..(8 * Len(b)) :
                  Bit(Values(kept, DecodeBase64Char), 6, i) = Bit(b, 8, i)
    BY <2>1, <2>2, Base64Spelling DEF Byte
  <2>4. \/ HexToBytes(input) = Thrown
        \/ Upper(BytesToHex(HexToBytes(input))) = Upper(input)
    BY HexSpelling
  <2> QED BY <2>1, <2>3, <2>4, Zenon DEF DecodersSpell
<1> QED BY <1>1, InputBytes, PTL

-----------------------------------------------------------------------------
(* Words.                                                                  *)

\* The recursive function Pow2, on 0..n.
Doubles(n, g) == g = [k \in 0..n |-> IF k = 0 THEN 1 ELSE 2 * g[k - 1]]

LEMMA PowDoubles == Pow2 = CHOOSE g : Doubles(WordBits + 1, g)
BY Zenon DEF Pow2, Doubles

\* There is one for every n: the least n without one has one.
LEMMA DoublesExist == \A n \in Nat : \E g : Doubles(n, g)
<1> DEFINE S == {n \in Nat : ~\E g : Doubles(n, g)}
<1> SUFFICES ASSUME S # {} PROVE FALSE
  OBVIOUS
<1>1. PICK m \in S : \A k \in S : m <= k
  BY Least
<1>2. m \in Nat /\ ~\E g : Doubles(m, g)
  BY <1>1
<1>3. m # 0
  <2> DEFINE g == [k \in 0..0 |-> 1]
  <2>1. Doubles(0, g)
    BY DEF Doubles
  <2> QED BY <1>2, <2>1
<1>4. m - 1 \in Nat /\ m - 1 \notin S
  BY <1>1, <1>2, <1>3
<1>5. PICK f : Doubles(m - 1, f)
  BY <1>4
<1> DEFINE g == [k \in 0..m |-> IF k < m THEN f[k] ELSE 2 * f[k - 1]]
<1>6. Doubles(m, g)
  <2>1. ASSUME NEW k \in 0..m
        PROVE  g[k] = IF k = 0 THEN 1 ELSE 2 * g[k - 1]
    <3>1. f = [j \in 0..(m - 1) |-> IF j = 0 THEN 1 ELSE 2 * f[j - 1]]
      BY <1>5 DEF Doubles
    <3>2. \A j \in 0..(m - 1) : f[j] = IF j = 0 THEN 1 ELSE 2 * f[j - 1]
      BY <3>1, Zenon
    <3>3. CASE k < m
      BY <1>2, <3>2, <3>3
    <3>4. CASE k = m
      BY <1>2, <1>3, <3>4
    <3> QED BY <1>2, <3>3, <3>4
  <2>2. g = [k \in 0..m |-> g[k]]
    OBVIOUS
  <2> HIDE DEF g
  <2> QED BY <2>1, <2>2 DEF Doubles
<1> QED BY <1>2, <1>6

LEMMA Powers ==
  /\ WordBits \in Nat /\ WordBits >= 2 /\ MinBits \in 0..(WordBits - 2) /\ Pow2[0] = 1
  /\ \A k \in 1..(WordBits + 1) : Pow2[k] = 2 * Pow2[k - 1]
<1>1. WordBits \in Nat /\ WordBits >= 2 /\ MinBits \in 0..(WordBits - 2)
  BY ConversionsAssumption
<1>2. Doubles(WordBits + 1, Pow2)
  <2>1. \E g : Doubles(WordBits + 1, g)
    BY <1>1, DoublesExist
  <2> QED BY <2>1, PowDoubles, Zenon
<1>3. \A k \in 0..(WordBits + 1) : Pow2[k] = IF k = 0 THEN 1 ELSE 2 * Pow2[k - 1]
  BY <1>2, Zenon DEF Doubles
<1> QED BY <1>1, <1>3

LEMMA PowersPositive == \A k \in 0..(WordBits + 1) : Pow2[k] \in Nat \ {0}
<1> DEFINE S == {k \in 0..(WordBits + 1) : Pow2[k] \notin Nat \ {0}}
<1> SUFFICES ASSUME S # {} PROVE FALSE
  OBVIOUS
<1>1. PICK m \in S : \A k \in S : m <= k
  <2>1. S \in SUBSET Nat
    BY Powers
  <2> QED BY <2>1, Least
<1>2. m \in 0..(WordBits + 1) /\ Pow2[m] \notin Nat \ {0}
  BY <1>1
<1>3. m # 0
  BY <1>2, Powers
<1>4. m \in 1..(WordBits + 1) /\ m - 1 \in 0..(WordBits + 1) /\ ~(m <= m - 1)
  BY <1>2, <1>3, Powers
<1>5. Pow2[m - 1] \in Nat \ {0}
  BY <1>1, <1>4
<1>6. Pow2[m] = 2 * Pow2[m - 1]
  BY <1>4, Powers
<1> QED BY <1>2, <1>5, <1>6

LEMMA PowersGrow ==
  ASSUME NEW j \in 0..(WordBits + 1)
  PROVE  \A k \in j..(WordBits + 1) : Pow2[j] <= Pow2[k]
<1> DEFINE S == {k \in j..(WordBits + 1) : ~(Pow2[j] <= Pow2[k])}
<1> SUFFICES ASSUME S # {} PROVE FALSE
  OBVIOUS
<1>1. PICK m \in S : \A k \in S : m <= k
  <2>1. S \in SUBSET Nat
    BY Powers
  <2> QED BY <2>1, Least
<1>2. m \in j..(WordBits + 1) /\ ~(Pow2[j] <= Pow2[m])
  BY <1>1
<1>3. m # j
  BY <1>2, PowersPositive
<1>4. /\ m \in 1..(WordBits + 1) /\ m - 1 \in j..(WordBits + 1)
      /\ m - 1 \in 0..(WordBits + 1) /\ ~(m <= m - 1)
  BY <1>2, <1>3, Powers
<1>5. Pow2[j] <= Pow2[m - 1]
  BY <1>1, <1>4
<1>6. Pow2[m] = 2 * Pow2[m - 1]
  BY <1>4, Powers
<1>7. Pow2[j] \in Nat /\ Pow2[m - 1] \in Nat
  BY <1>4, PowersPositive
<1> QED BY <1>2, <1>5, <1>6, <1>7

\* The values that p takes: the powers as long as they fit, then one that is
\* negative, then 0.
LEMMA SizesAre ==
  /\ DOMAIN Sizes = MinBits..(WordBits + 1)
  /\ \A k \in MinBits..(WordBits - 2) : Sizes[k] = Pow2[k] /\ Pow2[k] <= Pow2[WordBits - 2]
  /\ \A k \in (WordBits - 1)..(WordBits + 1) : Sizes[k] \in Int /\ Sizes[k] <= 0
<1>1. PICK P : P = Pow2[WordBits - 2]
  OBVIOUS
<1>2. /\ P \in Nat \ {0} /\ Pow2[WordBits - 1] = 2 * P /\ Pow2[WordBits] = 4 * P
      /\ Pow2[WordBits + 1] = 8 * P
  <2>1. /\ WordBits - 2 \in 0..(WordBits + 1) /\ WordBits - 1 \in 1..(WordBits + 1)
        /\ WordBits \in 1..(WordBits + 1) /\ WordBits + 1 \in 1..(WordBits + 1)
        /\ (WordBits - 1) - 1 = WordBits - 2 /\ (WordBits + 1) - 1 = WordBits
    BY Powers
  <2>2. P \in Nat \ {0}
    BY <1>1, <2>1, PowersPositive
  <2>3. Pow2[WordBits - 1] = 2 * P
    BY <1>1, <2>1, Powers
  <2>4. Pow2[WordBits] = 2 * Pow2[WordBits - 1]
    BY <2>1, Powers
  <2>5. Pow2[WordBits + 1] = 2 * Pow2[WordBits]
    BY <2>1, Powers
  <2> QED BY <2>2, <2>3, <2>4, <2>5
<1>3. \A x : Word(x) = IF (x % (4 * P)) < 2 * P THEN x % (4 * P) ELSE (x % (4 * P)) - 4 * P
  BY <1>2 DEF Word
<1>4. \A x \in 0..P : Word(x) = x
  <2> TAKE x \in 0..P
  <2>1. x % (4 * P) = x
    BY <1>2
  <2> QED BY <1>2, <1>3, <2>1
<1>5. Word(2 * P) = -(2 * P) /\ Word(4 * P) = 0 /\ Word(8 * P) = 0
  <2>1. (2 * P) % (4 * P) = 2 * P
    BY <1>2
  <2>2. (4 * P) % (4 * P) = 0
    BY <1>2
  <2>3. (8 * P) % (4 * P) = 0
    BY <1>2
  <2> QED BY <1>2, <1>3, <2>1, <2>2, <2>3
<1>6. \A k \in MinBits..(WordBits + 1) : Sizes[k] = Word(Pow2[k])
  BY DEF Sizes
<1>7. ASSUME NEW k \in MinBits..(WordBits - 2)
      PROVE  Sizes[k] = Pow2[k] /\ Pow2[k] <= P
  <2>1. k \in 0..(WordBits + 1) /\ k \in MinBits..(WordBits + 1) /\ WordBits - 2 \in k..(WordBits + 1)
    BY Powers
  <2>2. Pow2[k] \in Nat /\ Pow2[k] <= P
    BY <1>1, <2>1, PowersGrow, PowersPositive
  <2>3. Pow2[k] \in 0..P
    BY <1>2, <2>2
  <2> QED BY <1>4, <1>6, <2>1, <2>2, <2>3
<1>8. ASSUME NEW k \in (WordBits - 1)..(WordBits + 1)
      PROVE  Sizes[k] \in Int /\ Sizes[k] <= 0
  <2>1. k \in MinBits..(WordBits + 1) /\ (k = WordBits - 1 \/ k = WordBits \/ k = WordBits + 1)
    BY Powers
  <2>2. Sizes[k] = -(2 * P) \/ Sizes[k] = 0
    BY <1>2, <1>5, <1>6, <2>1
  <2> QED BY <1>2, <2>2
<1>9. DOMAIN Sizes = MinBits..(WordBits + 1)
  BY DEF Sizes
<1> QED BY <1>1, <1>7, <1>8, <1>9

(***************************************************************************)
(* The size classes of the pool, for words of any width: roundUp() yields  *)
(* the least class that holds a size, and no value of its loop holds one   *)
(* of more than a quarter of the words (pool.ts:108).                      *)
(***************************************************************************)
THEOREM AlwaysRoundsUp == Spec => []RoundsUpToLeast
<1> DEFINE classes == {Pow2[k] : k \in MinBits..(WordBits - 2)}
<1>1. ASSUME NEW n \in Nat, n <= Pow2[WordBits - 2], ~(n <= MinSize)
      PROVE  /\ RoundUp(n) \in classes /\ RoundUp(n) >= n
             /\ \A c \in classes : c >= n => RoundUp(n) <= c
  <2> DEFINE E == {k \in DOMAIN Sizes : Sizes[k] >= n}
             l == CHOOSE k \in E : \A j \in E : k <= j
  <2>1. /\ WordBits - 2 \in MinBits..(WordBits - 2)
        /\ MinBits..(WordBits - 2) \subseteq MinBits..(WordBits + 1)
        /\ MinBits..(WordBits + 1) \subseteq 0..(WordBits + 1)
    BY Powers
  <2>2. WordBits - 2 \in E
    BY <1>1, <2>1, SizesAre
  <2>3. l \in E /\ \A j \in E : l <= j
    <3>1. E \in SUBSET Nat
      BY <2>1, SizesAre
    <3>2. \E k \in E : \A j \in E : k <= j
      BY <2>2, <3>1, Least
    <3> QED BY <3>2, Zenon
  <2>4. RoundUp(n) = Sizes[l]
    BY <1>1, <2>2 DEF RoundUp
  <2> HIDE DEF l
  <2>5. l \in MinBits..(WordBits - 2) /\ Sizes[l] >= n
    <3>1. l \in MinBits..(WordBits + 1) /\ l <= WordBits - 2 /\ Sizes[l] >= n
      BY <2>2, <2>3, SizesAre
    <3> QED BY <3>1, Powers
  <2>6. Sizes[l] = Pow2[l] /\ l \in 0..(WordBits + 1)
    BY <2>1, <2>5, SizesAre
  <2>7. ASSUME NEW k \in MinBits..(WordBits - 2), Pow2[k] >= n
        PROVE  Pow2[l] <= Pow2[k]
    <3>1. k \in E
      BY <2>1, <2>7, SizesAre
    <3>2. k \in l..(WordBits + 1)
      BY <2>3, <2>5, <3>1, Powers
    <3> QED BY <2>6, <3>2, PowersGrow
  <2> HIDE DEF E
  <2> QED BY <2>4, <2>5, <2>6, <2>7
<1>2. ASSUME NEW n \in Nat, n <= MinSize
      PROVE  /\ RoundUp(n) \in classes /\ RoundUp(n) >= n /\ n <= Pow2[WordBits - 2]
             /\ \A c \in classes : c >= n => RoundUp(n) <= c
  <2>1. RoundUp(n) = Pow2[MinBits]
    BY <1>2 DEF RoundUp, MinSize
  <2>2. MinBits \in 0..(WordBits + 1) /\ MinBits \in MinBits..(WordBits - 2)
    BY Powers
  <2>3. \A k \in MinBits..(WordBits - 2) : k \in MinBits..(WordBits + 1)
    BY Powers
  <2>4. \A k \in MinBits..(WordBits - 2) : Pow2[MinBits] <= Pow2[k]
    BY <2>2, <2>3, PowersGrow
  <2>5. Pow2[MinBits] \in Nat /\ Pow2[WordBits - 2] \in Nat /\ Pow2[MinBits] <= Pow2[WordBits - 2]
    <3>1. WordBits - 2 \in 0..(WordBits + 1) /\ WordBits - 2 \in MinBits..(WordBits - 2)
      BY Powers
    <3> QED BY <2>2, <2>4, <3>1, PowersPositive
  <2> QED BY <1>2, <2>1, <2>2, <2>4, <2>5 DEF MinSize
<1>3. ASSUME NEW n \in Nat, ~(n <= Pow2[WordBits - 2])
      PROVE  RoundUp(n) = -1
  <2>1. Pow2[WordBits - 2] \in Nat \ {0}
    <3>1. WordBits - 2 \in 0..(WordBits + 1)
      BY Powers
    <3> QED BY <3>1, PowersPositive
  <2>2. ASSUME NEW k \in MinBits..(WordBits + 1)
        PROVE  ~(Sizes[k] >= n)
    <3>1. k \in MinBits..(WordBits - 2) \/ k \in (WordBits - 1)..(WordBits + 1)
      BY Powers
    <3>2. Pow2[k] \in Nat
      <4>1. k \in 0..(WordBits + 1)
        BY Powers
      <4> QED BY <4>1, PowersPositive
    <3> QED BY <1>3, <2>1, <3>1, <3>2, SizesAre
  <2>3. {k \in DOMAIN Sizes : Sizes[k] >= n} = {}
    BY <2>2, SizesAre
  <2>4. ~(n <= MinSize)
    BY <1>2, <1>3
  <2> QED BY <2>3, <2>4 DEF RoundUp
<1>4. input \in Seq(Byte) => RoundsUpToLeast
  <2> SUFFICES ASSUME input \in Seq(Byte), input # <<>>
               PROVE  RoundsUpToLeast
    BY DEF RoundsUpToLeast
  <2>1. PICK n \in Nat : n = Head(input)
    <3>1. Head(input) \in Byte
      OBVIOUS
    <3>2. Byte \subseteq Nat
      BY DEF Byte
    <3> QED BY <3>1, <3>2
  <2> HIDE DEF classes
  <2>2. IF n <= Pow2[WordBits - 2]
        THEN /\ RoundUp(n) \in classes /\ RoundUp(n) >= n
             /\ \A c \in classes : c >= n => RoundUp(n) <= c
        ELSE RoundUp(n) = -1
    BY <1>1, <1>2, <1>3
  <2> QED BY <2>1, <2>2, Zenon DEF RoundsUpToLeast, classes
<1> QED BY <1>4, InputBytes, PTL
=============================================================================
