---------------------------- MODULE Conversions ----------------------------
(***************************************************************************)
(* The conversions of ts/bytes.ts and the size classes of ts/memory/       *)
(* pool.ts.  A string is the sequence of its character codes, so one       *)
(* growing sequence serves as the bytes to encode and as the text to       *)
(* decode; its first element also serves as a requested size.  A function  *)
(* that throws yields Thrown.                                              *)
(***************************************************************************)
EXTENDS Naturals, Integers, Sequences

CONSTANTS
  First,       \* the values the sequence may begin with
  Other,       \* the values it may go on with
  MaxLength,   \* bound on its length
  WordBits,    \* width of a word, 32 in JavaScript's shifts
  MinBits      \* the smallest buffer has 2^MinBits bytes, in the pool 2^8

ASSUME ConversionsAssumption ==
  /\ First \subseteq 0..255 /\ Other \subseteq 0..255
  /\ MaxLength \in Nat
  /\ WordBits \in Nat \ {0, 1}
  /\ MinBits \in 0..(WordBits - 2)

VARIABLE input

Thrown == <<-1>>

-----------------------------------------------------------------------------
(* Hexadecimal.                                                            *)

HexDigit(d) == IF d < 10 THEN 48 + d ELSE 87 + d

\* Mutant of BytesToHex: the low digit comes first.
BytesToHexSwapped(b) ==
  [i \in 1..(2 * Len(b)) |->
     HexDigit(IF i % 2 = 1 THEN b[(i + 1) \div 2] % 16 ELSE b[i \div 2] \div 16)]

BytesToHex(b) ==
  [i \in 1..(2 * Len(b)) |->
     HexDigit(IF i % 2 = 1 THEN b[(i + 1) \div 2] \div 16 ELSE b[i \div 2] % 16)]

\* Mutant of ParseHexDigit: what is no digit counts as 0.
ParseHexDigitLenient(c) == CASE c \in 48..57  -> c - 48
                             [] c \in 97..102 -> c - 87
                             [] c \in 65..70  -> c - 55
                             [] OTHER         -> 0

\* -1 when it throws.
ParseHexDigit(c) == CASE c \in 48..57  -> c - 48
                      [] c \in 97..102 -> c - 87
                      [] c \in 65..70  -> c - 55
                      [] OTHER         -> -1

HexToBytes(t) ==
  IF Len(t) % 2 # 0 \/ \E i \in 1..Len(t) : ParseHexDigit(t[i]) = -1
  THEN Thrown
  ELSE [i \in 1..(Len(t) \div 2) |->
          16 * ParseHexDigit(t[2 * i - 1]) + ParseHexDigit(t[2 * i])]

-----------------------------------------------------------------------------
(* Base64.  A group of three bytes is four sextets; the last group may be  *)
(* shorter, and is filled up with pad characters.                          *)

Pad == 61

Base64Char(s) == IF s < 26 THEN 65 + s
                 ELSE IF s < 52 THEN 71 + s
                 ELSE IF s < 62 THEN s - 4
                 ELSE IF s = 62 THEN 43 ELSE 47

\* Byte n of b, none beyond its end.
At(b, n) == IF n \in 1..Len(b) THEN b[n] ELSE 0

\* Sextet k of the bytes: the high bits first.
Sextet(b, k) ==
  LET g == 3 * ((k - 1) \div 4) IN
  CASE k % 4 = 1 -> At(b, g + 1) \div 4
    [] k % 4 = 2 -> 16 * (At(b, g + 1) % 4) + At(b, g + 2) \div 16
    [] k % 4 = 3 -> 4 * (At(b, g + 2) % 16) + At(b, g + 3) \div 64
    [] k % 4 = 0 -> At(b, g + 3) % 64

Sextets(b) == (8 * Len(b) + 5) \div 6

BytesToBase64(b) ==
  [k \in 1..(4 * ((Len(b) + 2) \div 3)) |->
     IF k <= Sextets(b) THEN Base64Char(Sextet(b, k)) ELSE Pad]

\* -1 when it throws.
DecodeBase64Char(c) == CASE c \in 65..90  -> c - 65
                         [] c \in 97..122 -> c - 71
                         [] c \in 48..57  -> c + 4
                         [] c = 43        -> 62
                         [] c = 47        -> 63
                         [] OTHER         -> -1

\* Whatever is not of the alphabet is dropped, pad characters too.
Cleaned(t) ==
  LET kept[i \in 0..Len(t)] ==
        IF i = 0 THEN <<>>
        ELSE IF DecodeBase64Char(t[i]) = -1 THEN kept[i - 1]
        ELSE Append(kept[i - 1], t[i])
  IN kept[Len(t)]

\* Mutant of Base64ToBytes: the last group is taken for a full one.
Base64ToBytesFull(t) ==
  LET c == Cleaned(t)
      s(k) == IF k \in 1..Len(c) THEN DecodeBase64Char(c[k]) ELSE 0
  IN IF Len(c) % 4 = 1 THEN Thrown
     ELSE [j \in 1..(3 * ((Len(c) + 3) \div 4)) |->
            LET g == 4 * ((j - 1) \div 3) IN
            CASE j % 3 = 1 -> 4 * s(g + 1) + s(g + 2) \div 16
              [] j % 3 = 2 -> 16 * (s(g + 2) % 16) + s(g + 3) \div 4
              [] j % 3 = 0 -> 64 * (s(g + 3) % 4) + s(g + 4)]

\* A lone last character has no second one: the pad in its place throws.
Base64ToBytes(t) ==
  LET c == Cleaned(t)
      s(k) == IF k \in 1..Len(c) THEN DecodeBase64Char(c[k]) ELSE 0
  IN IF Len(c) % 4 = 1 THEN Thrown
     ELSE [j \in 1..((6 * Len(c)) \div 8) |->
            LET g == 4 * ((j - 1) \div 3) IN
            CASE j % 3 = 1 -> 4 * s(g + 1) + s(g + 2) \div 16
              [] j % 3 = 2 -> 16 * (s(g + 2) % 16) + s(g + 3) \div 4
              [] j % 3 = 0 -> 64 * (s(g + 3) % 4) + s(g + 4)]

-----------------------------------------------------------------------------
(* Concatenation and comparison.                                           *)

\* Each chunk is copied to where the one before it ended.
ConcatBytes(a, b) ==
  [i \in 1..(Len(a) + Len(b)) |-> IF i <= Len(a) THEN a[i] ELSE b[i - Len(a)]]

ConstantTimeEqual(a, b) ==
  Len(a) = Len(b) /\ \A i \in 1..Len(a) : a[i] = b[i]

\* Key.hasFingerprint(): false when the text does not decode.
HasFingerprint(bytes, t) ==
  HexToBytes(t) # Thrown /\ ConstantTimeEqual(bytes, HexToBytes(t))

-----------------------------------------------------------------------------
(* roundUp() of the buffer pool: p <<= 1 works on words of WordBits bits   *)
(* with a sign, while the size n is any number.                            *)

\* 2^k.
Pow2[k \in 0..(WordBits + 1)] == IF k = 0 THEN 1 ELSE 2 * Pow2[k - 1]

Word(x) == LET r == x % Pow2[WordBits] IN
           IF r < Pow2[WordBits - 1] THEN r ELSE r - Pow2[WordBits]

MinSize == Pow2[MinBits]

\* Mutant of Sizes: the shift is that of an unbounded integer.
SizesUnbounded == [k \in MinBits..(WordBits + 1) |-> Pow2[k]]

\* The values p takes, one after the other, beginning with MinSize; from the
\* last one on it stays 0.
Sizes == [k \in MinBits..(WordBits + 1) |-> Word(Pow2[k])]

\* What the loop ends with, or -1 if it does not end.
RoundUp(n) ==
  IF n <= MinSize THEN MinSize
  ELSE LET ends == {k \in DOMAIN Sizes : Sizes[k] >= n} IN
       IF ends = {} THEN -1
       ELSE Sizes[CHOOSE k \in ends : \A j \in ends : k <= j]

-----------------------------------------------------------------------------
Init == input = <<>>

Grow(c) ==
  /\ Len(input) < MaxLength
  /\ input' = Append(input, c)

Next == (input = <<>> /\ \E c \in First : Grow(c)) \/ \E c \in Other : Grow(c)

Spec == Init /\ [][Next]_input

-----------------------------------------------------------------------------
\* Bit i, from the most significant on, of a sequence of w-bit numbers.
Bit(s, w, i) == (s[1 + (i - 1) \div w] \div 2^((w - 1) - ((i - 1) % w))) % 2

\* What a string of digits stands for.
Values(t, decode(_)) == [i \in 1..Len(t) |-> decode(t[i])]

Upper(t) == [i \in 1..Len(t) |-> IF t[i] \in 97..122 THEN t[i] - 32 ELSE t[i]]

(***************************************************************************)
(* Both encodings cut the same stream of bits into pieces of another size: *)
(* bit by bit the digits spell the bytes, what Base64 adds is 0, and the   *)
(* pad characters make up a multiple of four (bytes.ts:19, 64).            *)
(***************************************************************************)
EncodersRegroup ==
  LET hex == Values(BytesToHex(input), ParseHexDigit)
      b64 == BytesToBase64(input)
      six == Values(SubSeq(b64, 1, Sextets(input)), DecodeBase64Char)
      n   == 8 * Len(input)
  IN /\ Len(hex) * 4 = n /\ Len(b64) % 4 = 0
     /\ \A i \in 1..n : /\ Bit(hex, 4, i) = Bit(input, 8, i)
                        /\ Bit(six, 6, i) = Bit(input, 8, i)
     /\ \A i \in (n + 1)..(6 * Len(six)) : Bit(six, 6, i) = 0
     /\ \A k \in (Len(six) + 1)..Len(b64) : b64[k] = Pad

(***************************************************************************)
(* Hexadecimal decoding undoes encoding, in either case of letters and     *)
(* over concatenated pieces, and the spelling of a fingerprint is accepted *)
(* for that fingerprint and for no other, of whatever length               *)
(* (bytes.ts:35, 130, 166, key.ts:233).                                    *)
(***************************************************************************)
HexRoundTrips ==
  LET hex == BytesToHex(input) IN
  /\ HexToBytes(hex) = input /\ HexToBytes(Upper(hex)) = input
  /\ \A m \in 0..Len(input) :
       LET a == SubSeq(input, 1, m)
           b == SubSeq(input, m + 1, Len(input))
       IN /\ BytesToHex(ConcatBytes(a, b)) = hex
          /\ HasFingerprint(a, BytesToHex(b)) <=> a = b

(***************************************************************************)
(* Decoding undoes encoding: also in Base64, whatever the last group lacks *)
(* (bytes.ts:64, 97).                                                      *)
(***************************************************************************)
RoundTrips ==
  /\ HexRoundTrips
  /\ Base64ToBytes(BytesToBase64(input)) = input

\* What the documentation lets a Base64 text consist of: the alphabet, pads,
\* and white space.
Documented(c) == DecodeBase64Char(c) # -1 \/ c = Pad \/ c \in 9..13 \cup {32}

(***************************************************************************)
(* Text that was not made by the encoders.  hexToBytes() throws on it or   *)
(* gives bytes that spell the same text up to case.  base64ToBytes(), on   *)
(* the text it is documented for, throws only on one character too many;   *)
(* encoded again the bytes spell the text without pads and white space,    *)
(* but for the bits of the last character that do not make a byte          *)
(* (bytes.ts:35, 97).                                                      *)
(***************************************************************************)
DecodersSpell ==
  LET kept == Cleaned(input)
      b    == Base64ToBytes(input)
      back == Cleaned(BytesToBase64(b))
  IN /\ HexToBytes(input) = Thrown \/ Upper(BytesToHex(HexToBytes(input))) = Upper(input)
     /\ (\A i \in 1..Len(input) : Documented(input[i])) =>
          IF Len(kept) % 4 = 1 THEN b = Thrown
          ELSE /\ b \in Seq(0..255) /\ Len(back) = Len(kept)
               /\ \A i \in 1..(8 * Len(b)) :
                    Bit(Values(kept, DecodeBase64Char), 6, i) = Bit(b, 8, i)

(***************************************************************************)
(* "@throws TypeError if the input contains chars outside the Base64       *)
(* alphabet", says bytes.ts:95, after "Whitespace and padding are          *)
(* tolerated".  The code drops every such character before it looks        *)
(* (bytes.ts:98).                                                          *)
(***************************************************************************)
ForeignCharactersThrow ==
  (\E i \in 1..Len(input) : ~Documented(input[i])) => Base64ToBytes(input) = Thrown

(***************************************************************************)
(* A size is rounded up to the least class that holds it as long as it is  *)
(* at most a quarter of the words; for a larger one the loop never ends    *)
(* (pool.ts:108).                                                          *)
(***************************************************************************)
RoundsUpToLeast ==
  input # <<>> =>
    LET n       == Head(input)
        classes == {Pow2[k] : k \in MinBits..(WordBits - 2)}
    IN IF n <= Pow2[WordBits - 2]
       THEN /\ RoundUp(n) \in classes /\ RoundUp(n) >= n
            /\ \A c \in classes : c >= n => RoundUp(n) <= c
       ELSE RoundUp(n) = -1
=============================================================================
