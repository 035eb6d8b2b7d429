-------------------------- MODULE WireFormatProofs --------------------------
(***************************************************************************)
(* Proofs about the wire format: what is read is what was sent, and what   *)
(* is sent has the bytes of the protocol.                                  *)
(***************************************************************************)
EXTENDS WireFormat, TLAPS

-----------------------------------------------------------------------------
(* Sequences of bytes.                                                     *)

LEMMA FunctionIsSeq ==
    ASSUME NEW S, NEW n \in Nat, NEW v \in [1..n -> S]
    PROVE  v \in Seq(S) /\ Len(v) = n
BY SMT

LEMMA SeqIsFunction ==
    ASSUME NEW S, NEW v \in Seq(S)
    PROVE  Len(v) \in Nat /\ v \in [1..Len(v) -> S]
BY SMT

LEMMA Pointwise ==
    ASSUME NEW S, NEW v \in Seq(S), NEW x \in Seq(S), Len(v) = Len(x),
           \A i \in 1..Len(v) : v[i] = x[i]
    PROVE  v = x
BY SMT

LEMMA Appended ==
    ASSUME NEW S, NEW v \in Seq(S), NEW x \in Seq(S)
    PROVE  /\ v \o x \in Seq(S) /\ Len(v \o x) = Len(v) + Len(x)
           /\ \A i \in 1..(Len(v) + Len(x)) :
                 (v \o x)[i] = IF i <= Len(v) THEN v[i] ELSE x[i - Len(v)]
BY SMT

LEMMA FieldLen ==
    /\ \A v \in Field(2) : v \in Seq(Byte) /\ Len(v) = 2
    /\ \A v \in Field(4) : v \in Seq(Byte) /\ Len(v) = 4
    /\ \A v \in Field(8) : v \in Seq(Byte) /\ Len(v) = 8
<1>1. 2 \in Nat /\ 4 \in Nat /\ 8 \in Nat
  OBVIOUS
<1> QED BY <1>1, FunctionIsSeq, Zenon DEF Field

LEMMA SwapTwice ==
    ASSUME NEW S, NEW v \in Seq(S)
    PROVE  /\ Swap(v) \in Seq(S) /\ Len(Swap(v)) = Len(v)
           /\ Swap(Swap(v)) = v
<1> DEFINE n == Len(v)
           x == Swap(v)
           y == Swap(x)
<1>1. n \in Nat /\ v \in [1..n -> S]
  BY SeqIsFunction, Zenon
<1>2. \A i \in 1..n : (n - i) + 1 \in 1..n /\ (n - ((n - i) + 1)) + 1 = i
  BY <1>1
<1>3. x \in [1..n -> S] /\ \A i \in 1..n : x[i] = v[(n - i) + 1]
  BY <1>1, <1>2, Zenon DEF Swap
<1>4. x \in Seq(S) /\ Len(x) = n
  BY <1>1, <1>3, FunctionIsSeq, Zenon
<1>5. y \in [1..n -> S] /\ \A i \in 1..n : y[i] = x[(n - i) + 1]
  BY <1>2, <1>3, <1>4, Zenon DEF Swap
<1>6. \A i \in 1..n : y[i] = v[i]
  BY <1>2, <1>3, <1>5, Zenon
<1>7. y = v
  BY <1>1, <1>5, <1>6
<1> QED BY <1>4, <1>7, Zenon

LEMMA Piece ==
    ASSUME NEW S, NEW s \in Seq(S), NEW m \in Nat \ {0}, NEW n \in Nat, n <= Len(s), m <= n + 1
    PROVE  /\ SubSeq(s, m, n) \in Seq(S) /\ Len(SubSeq(s, m, n)) = n + 1 - m
           /\ \A i \in 1..(n + 1 - m) : SubSeq(s, m, n)[i] = s[i + m - 1]
OBVIOUS

LEMMA Halves ==
    \A i \in 1..8 :
        /\ i \in 1..(4 + 4)
        /\ i <= 4 => /\ i \in 1..4 /\ (4 - i) + 1 \in 1..4
                     /\ ((4 - i) + 1) + 4 = (8 - i) + 1
        /\ ~(i <= 4) => /\ i - 4 \in 1..4 /\ (4 - (i - 4)) + 1 \in 1..4
                        /\ (4 - (i - 4)) + 1 = (8 - i) + 1
OBVIOUS

(* host_to_network exchanges the digits of 64 bits too.                    *)
LEMMA HostToNetwork ==
    ASSUME NEW S, NEW v \in Seq(S)
    PROVE  host_to_network(v) = Swap(v)
<1>1. CASE Len(v) # 8
  BY <1>1, Zenon DEF host_to_network
<1>2. CASE Len(v) = 8
  <2> DEFINE lo == SubSeq(v, 1, 4)
             hi == SubSeq(v, 5, 8)
             rlo == Swap(lo)
             rhi == Swap(hi)
  <2>0. /\ 1 \in Nat \ {0} /\ 5 \in Nat \ {0} /\ 4 \in Nat /\ 8 \in Nat
        /\ 4 <= Len(v) /\ 8 <= Len(v) /\ 1 <= 4 + 1 /\ 5 <= 8 + 1
    BY <1>2
  <2>l. /\ lo \in Seq(S) /\ Len(lo) = 4 + 1 - 1
        /\ \A i \in 1..(4 + 1 - 1) : lo[i] = v[i + 1 - 1]
    BY <2>0, Piece, SMT
  <2>m. /\ hi \in Seq(S) /\ Len(hi) = 8 + 1 - 5
        /\ \A i \in 1..(8 + 1 - 5) : hi[i] = v[i + 5 - 1]
    BY <2>0, Piece, SMT
  <2> HIDE DEF lo, hi
  <2>1. lo \in Seq(S) /\ Len(lo) = 4 /\ \A i \in 1..4 : lo[i] = v[i]
    BY <2>l
  <2>h. hi \in Seq(S) /\ Len(hi) = 4 /\ \A i \in 1..4 : hi[i] = v[i + 4]
    BY <2>m
  <2>2. /\ rlo \in Seq(S) /\ Len(rlo) = 4 /\ rhi \in Seq(S) /\ Len(rhi) = 4
    BY <2>1, <2>h, SwapTwice, Zenon
  <2>3. \A i \in 1..4 : rlo[i] = lo[(4 - i) + 1] /\ rhi[i] = hi[(4 - i) + 1]
    BY <2>1, <2>h, Zenon DEF Swap
  <2>4. \A i \in 1..8 : Swap(v)[i] = v[(8 - i) + 1]
    BY <1>2, Zenon DEF Swap
  <2>5. Swap(v) \in Seq(S) /\ Len(Swap(v)) = 8
    BY <1>2, SwapTwice, Zenon
  <2>6. host_to_network(v) = rhi \o rlo
    BY <1>2, Zenon DEF host_to_network, lo, hi
  <2> HIDE DEF rlo, rhi
  <2>6a. /\ rhi \o rlo \in Seq(S) /\ Len(rhi \o rlo) = Len(rhi) + Len(rlo)
         /\ \A i \in 1..(Len(rhi) + Len(rlo)) :
               (rhi \o rlo)[i] = IF i <= Len(rhi) THEN rhi[i] ELSE rlo[i - Len(rhi)]
    BY <2>2, Appended, Zenon
  <2>7. /\ rhi \o rlo \in Seq(S) /\ Len(rhi \o rlo) = 4 + 4
        /\ \A i \in 1..(4 + 4) : (rhi \o rlo)[i] = IF i <= 4 THEN rhi[i] ELSE rlo[i - 4]
    BY <2>2, <2>6a, Zenon
  <2>8. ASSUME NEW i \in 1..8 PROVE (rhi \o rlo)[i] = Swap(v)[i]
    <3>0. i \in 1..(4 + 4)
      BY Halves, Zenon
    <3>1. CASE i <= 4
      <4>1. i \in 1..4 /\ (4 - i) + 1 \in 1..4 /\ ((4 - i) + 1) + 4 = (8 - i) + 1
        BY <3>1, Halves, Zenon
      <4>2. (rhi \o rlo)[i] = rhi[i]
        BY <2>7, <3>0, <3>1, Zenon
      <4>3. rhi[i] = v[(8 - i) + 1]
        BY <2>h, <2>3, <4>1, Zenon
      <4> QED BY <2>4, <4>2, <4>3, Zenon
    <3>2. CASE ~(i <= 4)
      <4> DEFINE j == i - 4
      <4>1. j \in 1..4 /\ (4 - j) + 1 \in 1..4 /\ (4 - j) + 1 = (8 - i) + 1
        BY <3>2, Halves, Zenon
      <4>2. (rhi \o rlo)[i] = rlo[j]
        BY <2>7, <3>0, <3>2, Zenon
      <4> HIDE DEF j
      <4>3. rlo[j] = v[(8 - i) + 1]
        BY <2>1, <2>3, <4>1, Zenon
      <4> QED BY <2>4, <4>2, <4>3, Zenon
    <3> QED BY <3>1, <3>2, Zenon
  <2>a. Len(rhi \o rlo) = Len(Swap(v)) /\ 1..8 = 1..Len(rhi \o rlo)
    BY <2>5, <2>7
  <2>9. rhi \o rlo = Swap(v)
    BY <2>5, <2>7, <2>8, <2>a, Pointwise, Zenon
  <2> QED BY <2>6, <2>9, Zenon
<1> QED BY <1>1, <1>2, Zenon

(* What is written in network order has the digits in their order.         *)
LEMMA WriteKeeps ==
    ASSUME NEW S, NEW v \in Seq(S)
    PROVE  write(v) = v
  BY HostToNetwork, SwapTwice, Zenon DEF write

LEMMA WriteField ==
    ASSUME NEW S, NEW n \in Nat, NEW v \in [1..n -> S]
    PROVE  write(v) = v
  BY FunctionIsSeq, WriteKeeps, Zenon

LEMMA BytesOf ==
    ASSUME NEW S, NEW raw \in Seq(S), NEW first \in Nat, NEW w \in Nat, first + w <= Len(raw)
    PROVE  /\ Bytes(raw, first, w) \in Seq(S) /\ Len(Bytes(raw, first, w)) = w
           /\ \A i \in 1..w : Bytes(raw, first, w)[i] = raw[first + i]
  BY DEF Bytes

LEMMA LoadKeeps ==
    ASSUME NEW S, NEW raw \in Seq(S), NEW first \in Nat, NEW w \in Nat, first + w <= Len(raw)
    PROVE  Load(raw, first, w) = Bytes(raw, first, w)
<1> DEFINE b == Bytes(raw, first, w)
<1>1. b \in Seq(S)
  BY BytesOf, Zenon
<1> HIDE DEF b
<1>2. Swap(b) \in Seq(S) /\ Swap(Swap(b)) = b
  BY <1>1, SwapTwice, Zenon
<1>3. host_to_network(Swap(b)) = Swap(Swap(b))
  BY <1>2, HostToNetwork, Zenon
<1> QED BY <1>2, <1>3, Zenon DEF Load, network_to_host, b

-----------------------------------------------------------------------------
(* Lengths and the digits that hold them.                                  *)

LEMMA BaseFacts ==
    /\ Base \in Nat \ {0} /\ Base * Base \in Nat \ {0} /\ Base * Base * Base \in Nat \ {0}
    /\ \A n \in Nat : n % Base \in 0..(Base - 1)
BY DEF Base

LEMMA WeightFacts ==
    /\ Weight[1] = Base * Base * Base /\ Weight[2] = Base * Base
    /\ Weight[3] = Base /\ Weight[4] = 1
BY DEF Weight

LEMMA DigitsField ==
    /\ \A n : write(Digits(n, 2)) = Digits(n, 2) /\ write(Digits(n, 4)) = Digits(n, 4)
    /\ \A n \in Nat : Digits(n, 2) \in Field(2) /\ Digits(n, 4) \in Field(4)
<1>2. ASSUME NEW n, NEW w \in {2, 4} PROVE write(Digits(n, w)) = Digits(n, w)
  <2> DEFINE S == {(n \div Weight[4 - w + i]) % Base : i \in 1..w}
  <2>1. Digits(n, w) \in [1..w -> S]
    BY Zenon DEF Digits
  <2>2. w \in Nat
    OBVIOUS
  <2> QED BY <2>1, <2>2, WriteField, Zenon
<1>3. ASSUME NEW n \in Nat PROVE Digits(n, 2) \in Field(2) /\ Digits(n, 4) \in Field(4)
  <2>1. \A d \in Nat \ {0} : n \div d \in Nat
    OBVIOUS
  <2>2. \A i \in 1..4 : Weight[i] \in Nat \ {0}
    <3>1. \A i \in 1..4 : i = 1 \/ i = 2 \/ i = 3 \/ i = 4
      OBVIOUS
    <3>2. 1 \in Nat \ {0}
      OBVIOUS
    <3> QED BY <3>1, <3>2, BaseFacts, WeightFacts, Zenon
  <2>3. (\A i \in 1..2 : 4 - 2 + i \in 1..4) /\ (\A i \in 1..4 : 4 - 4 + i \in 1..4)
    OBVIOUS
  <2>4. \A i \in 1..4 : (n \div Weight[i]) % Base \in Byte
    BY <2>1, <2>2, BaseFacts, Zenon DEF Byte
  <2> QED BY <2>3, <2>4, Zenon DEF Digits, Field
<1> QED BY <1>2, <1>3, Zenon

LEMMA TwoBytes ==
    ASSUME NEW n \in Nat, n < Base * Base, NEW d1, NEW d2,
           d1 = (n \div Base) % Base, d2 = (n \div 1) % Base
    PROVE  Base * d1 + d2 = n
BY DEF Base

LEMMA FourBytes ==
    ASSUME NEW n \in Nat, Fits(n), NEW d1, NEW d2, NEW d3, NEW d4,
           d1 = (n \div (Base * Base * Base)) % Base, d2 = (n \div (Base * Base)) % Base,
           d3 = (n \div Base) % Base, d4 = (n \div 1) % Base
    PROVE  Base * (Base * (Base * d1 + d2) + d3) + d4 = n
BY DEF Base, Fits

(* The lengths in the header are read back.                                *)
LEMMA NumberOfDigits ==
    /\ \A n \in Nat : n < Base * Base => Number(Digits(n, 2)) = n
    /\ \A n \in Nat : Fits(n) => Number(Digits(n, 4)) = n
<1>0. 2 \in Nat /\ 4 \in Nat /\ 4 # 2 /\ 4 - 2 + 1 = 3 /\ 4 - 2 + 2 = 4 /\ 4 - 4 + 1 = 1
      /\ 4 - 4 + 2 = 2 /\ 4 - 4 + 3 = 3 /\ 4 - 4 + 4 = 4
      /\ 1 \in 1..2 /\ 2 \in 1..2 /\ 1 \in 1..4 /\ 2 \in 1..4 /\ 3 \in 1..4 /\ 4 \in 1..4
  OBVIOUS
<1>1. ASSUME NEW n \in Nat, n < Base * Base PROVE Number(Digits(n, 2)) = n
  <2> DEFINE d == Digits(n, 2)
  <2>1. d[1] = (n \div Base) % Base /\ d[2] = (n \div 1) % Base
    BY <1>0, WeightFacts, Zenon DEF Digits
  <2>2. d \in Field(2)
    BY DigitsField, Zenon
  <2>3. Len(d) = 2
    BY <2>2, FieldLen, Zenon
  <2> HIDE DEF d
  <2>4. Base * d[1] + d[2] = n
    BY <1>1, <2>1, TwoBytes, Zenon
  <2> QED BY <2>3, <2>4, Zenon DEF Number, d
<1>2. ASSUME NEW n \in Nat, Fits(n) PROVE Number(Digits(n, 4)) = n
  <2> DEFINE d == Digits(n, 4)
  <2>1. /\ d[1] = (n \div (Base * Base * Base)) % Base /\ d[2] = (n \div (Base * Base)) % Base
        /\ d[3] = (n \div Base) % Base /\ d[4] = (n \div 1) % Base
    BY <1>0, WeightFacts, Zenon DEF Digits
  <2>2. d \in Field(4)
    BY DigitsField, Zenon
  <2>3. Len(d) = 4
    BY <2>2, FieldLen, Zenon
  <2> HIDE DEF d
  <2>4. Base * (Base * (Base * d[1] + d[2]) + d[3]) + d[4] = n
    BY <1>2, <2>1, FourBytes, SMT
  <2>5. Len(d) # 2
    BY <2>3
  <2> QED BY <2>4, <2>5, Zenon DEF Number, d
<1> QED BY <1>1, <1>2, Zenon

-----------------------------------------------------------------------------
(* Reading a message from the front of a string.                           *)

Str == Seq(Byte)
Prefix(a, raw) == \E c \in Str : raw = a \o c

LEMMA Concat ==
    ASSUME NEW a \in Str, NEW b \in Str
    PROVE  /\ a \o b \in Str /\ Len(a \o b) = Len(a) + Len(b)
           /\ Len(a) \in Nat /\ Len(b) \in Nat
           /\ \A i \in 1..Len(a) : (a \o b)[i] = a[i]
           /\ \A i \in 1..Len(b) : (a \o b)[Len(a) + i] = b[i]
BY DEF Str

LEMMA Associative ==
    ASSUME NEW a \in Str, NEW b \in Str, NEW c \in Str
    PROVE  (a \o b) \o c = a \o (b \o c)
BY SMT DEF Str

LEMMA StrPieces ==
    ASSUME NEW raw \in Str
    PROVE  /\ \A first, w \in Nat : first + w <= Len(raw) =>
                  /\ Bytes(raw, first, w) \in Str /\ Len(Bytes(raw, first, w)) = w
                  /\ \A i \in 1..w : Bytes(raw, first, w)[i] = raw[first + i]
           /\ \A n \in 0..Len(raw) :
                  LET c == SubSeq(raw, n + 1, Len(raw)) IN
                  c \in Str /\ Len(c) = Len(raw) - n /\ \A i \in 1..Len(c) : c[i] = raw[n + i]
<1> USE DEF Str
<1>1. ASSUME NEW first \in Nat, NEW w \in Nat, first + w <= Len(raw)
      PROVE  /\ Bytes(raw, first, w) \in Str /\ Len(Bytes(raw, first, w)) = w
             /\ \A i \in 1..w : Bytes(raw, first, w)[i] = raw[first + i]
  BY <1>1, BytesOf, SMT
<1>2. ASSUME NEW n \in 0..Len(raw)
      PROVE  LET c == SubSeq(raw, n + 1, Len(raw)) IN
             c \in Str /\ Len(c) = Len(raw) - n /\ \A i \in 1..Len(c) : c[i] = raw[n + i]
  <2> DEFINE w == Len(raw) - n
             c == SubSeq(raw, n + 1, Len(raw))
  <2>1. w \in Nat /\ n \in Nat /\ n + w = Len(raw) /\ n + w <= Len(raw)
    OBVIOUS
  <2>2. Bytes(raw, n, w) = c
    BY <2>1, Zenon DEF Bytes
  <2> HIDE DEF w, c
  <2>3. c \in Str /\ Len(c) = w /\ \A i \in 1..w : c[i] = raw[n + i]
    BY <1>1, <2>1, <2>2, Zenon
  <2> QED BY <2>3, Zenon DEF w, c
<1> QED BY <1>1, <1>2, Zenon

LEMMA Equal ==
    ASSUME NEW a \in Str, NEW b \in Str, Len(a) = Len(b), \A i \in 1..Len(a) : a[i] = b[i]
    PROVE  a = b
BY Pointwise, Zenon DEF Str

(* The piece b between the bytes a before and the bytes c after it.        *)
LEMMA BytesBetween ==
    ASSUME NEW a \in Str, NEW b \in Str, NEW c \in Str
    PROVE  /\ Bytes(a \o (b \o c), Len(a), Len(b)) = b
           /\ Len(a) + Len(b) <= Len(a \o (b \o c))
<1> DEFINE d == b \o c
           raw == a \o d
           x == Bytes(raw, Len(a), Len(b))
<1>1. /\ d \in Str /\ Len(d) = Len(b) + Len(c) /\ Len(b) \in Nat /\ Len(c) \in Nat
      /\ \A i \in 1..Len(b) : d[i] = b[i]
  BY Concat, Zenon
<1> HIDE DEF d
<1>2. /\ raw \in Str /\ Len(raw) = Len(a) + Len(d) /\ Len(a) \in Nat
      /\ \A i \in 1..Len(d) : raw[Len(a) + i] = d[i]
  BY <1>1, Concat, Zenon
<1> HIDE DEF raw
<1>3. Len(a) + Len(b) <= Len(raw) /\ \A i \in 1..Len(b) : i \in 1..Len(d)
  BY <1>1, <1>2
<1>4. /\ x \in Str /\ Len(x) = Len(b) /\ \A i \in 1..Len(b) : x[i] = raw[Len(a) + i]
  <2>1. \A first, w \in Nat : first + w <= Len(raw) =>
            /\ Bytes(raw, first, w) \in Str /\ Len(Bytes(raw, first, w)) = w
            /\ \A i \in 1..w : Bytes(raw, first, w)[i] = raw[first + i]
    BY <1>2, StrPieces, Zenon
  <2>2. Len(a) \in Nat /\ Len(b) \in Nat /\ Len(a) + Len(b) <= Len(raw)
    BY <1>1, <1>2, <1>3, Zenon
  <2> QED BY <2>1, <2>2, Zenon
<1> HIDE DEF x
<1>5. \A i \in 1..Len(x) : x[i] = b[i]
  BY <1>1, <1>2, <1>3, <1>4, Zenon
<1>6. x = b
  BY <1>4, <1>5, Equal, Zenon
<1> QED BY <1>3, <1>6, Zenon DEF x, raw, d

(* A longer prefix gives the piece it ends with.                           *)
LEMMA PrefixPiece ==
    ASSUME NEW a \in Str, NEW b \in Str, NEW raw, Prefix(a \o b, raw)
    PROVE  /\ Prefix(a, raw) /\ Bytes(raw, Len(a), Len(b)) = b
           /\ Len(a) + Len(b) <= Len(raw)
<1>1. PICK c \in Str : raw = (a \o b) \o c
  BY Zenon DEF Prefix
<1>2. raw = a \o (b \o c)
  BY <1>1, Associative, Zenon
<1>3. b \o c \in Str
  BY Concat, Zenon
<1> QED BY <1>2, <1>3, BytesBetween, Zenon DEF Prefix

(* What is at the front of b and more is at the front of b, if b has as    *)
(* many bytes.                                                             *)
LEMMA PrefixOfFirst ==
    ASSUME NEW a \in Str, NEW b \in Str, NEW w \in Str, Prefix(a, b \o w), Len(a) <= Len(b)
    PROVE  /\ Prefix(a, b)
           /\ b = a \o SubSeq(b, Len(a) + 1, Len(b)) /\ SubSeq(b, Len(a) + 1, Len(b)) \in Str
<1> DEFINE c == SubSeq(b, Len(a) + 1, Len(b))
           x == a \o c
<1>0. Len(a) \in Nat /\ Len(b) \in Nat
  BY Concat, Zenon
<1>1. PICK d \in Str : b \o w = a \o d
  BY Zenon DEF Prefix
<1>2. \A i \in 1..Len(a) : b[i] = a[i]
  <2>1. \A i \in 1..Len(a) : i \in 1..Len(b)
    BY <1>0
  <2>2. \A i \in 1..Len(a) : (a \o d)[i] = a[i]
    BY Concat, Zenon
  <2>3. \A i \in 1..Len(b) : (b \o w)[i] = b[i]
    BY Concat, Zenon
  <2> QED BY <1>1, <2>1, <2>2, <2>3, Zenon
<1>3. Len(a) \in 0..Len(b)
  BY <1>0
<1>4. c \in Str /\ Len(c) = Len(b) - Len(a) /\ \A i \in 1..Len(c) : c[i] = b[Len(a) + i]
  BY <1>3, StrPieces, Zenon
<1> HIDE DEF c
<1>5. /\ x \in Str /\ Len(x) = Len(a) + Len(c)
      /\ \A i \in 1..Len(a) : x[i] = a[i]
      /\ \A i \in 1..Len(c) : x[Len(a) + i] = c[i]
  BY <1>4, Concat, Zenon
<1> HIDE DEF x
<1>6. Len(x) = Len(b)
  BY <1>0, <1>4, <1>5
<1>7. ASSUME NEW i \in 1..Len(x) PROVE x[i] = b[i]
  <2>1. CASE i \in 1..Len(a)
    BY <1>2, <1>5, <2>1, Zenon
  <2>2. CASE i \notin 1..Len(a)
    <3>1. PICK j \in 1..Len(c) : i = Len(a) + j
      <4>1. i - Len(a) \in 1..Len(c) /\ i = Len(a) + (i - Len(a))
        BY <1>0, <1>4, <1>6, <2>2
      <4> QED BY <4>1, Zenon
    <3> QED BY <1>4, <1>5, <3>1, Zenon
  <2> QED BY <2>1, <2>2, Zenon
<1>8. x = b
  BY <1>5, <1>6, <1>7, Equal, Zenon
<1> QED BY <1>4, <1>8, Zenon DEF Prefix, c, x

-----------------------------------------------------------------------------
(* The layout of a frame and what is read from it.                         *)

Body(f) == Len(f.extra) + Len(f.key) + Len(f.value)

Header(f) ==
    <<f.magic, f.op>> \o Digits(Len(f.key), 2) \o <<Len(f.extra), 0>> \o f.vb
        \o Digits(Body(f), 4) \o f.opaque \o f.cas

(* A string made longer: its length, and what a string that begins with it *)
(* has at the end of it.                                                   *)
LEMMA Longer ==
    ASSUME NEW a \in Str, NEW b \in Str
    PROVE  /\ a \o b \in Str /\ Len(a \o b) = Len(a) + Len(b)
           /\ \A raw : Prefix(a \o b, raw) => Prefix(a, raw) /\ Bytes(raw, Len(a), Len(b)) = b
<1>1. a \o b \in Str /\ Len(a \o b) = Len(a) + Len(b)
  BY Concat, Zenon
<1>2. \A raw : Prefix(a \o b, raw) => Prefix(a, raw) /\ Bytes(raw, Len(a), Len(b)) = b
  BY PrefixPiece, Zenon
<1> QED BY <1>1, <1>2, Zenon

LEMMA Pair ==
    ASSUME NEW x \in Byte, NEW y \in Byte
    PROVE  <<x, y>> \in Str /\ Len(<<x, y>>) = 2 /\ <<x, y>>[1] = x /\ <<x, y>>[2] = y
BY DEF Str

(* The fields of a frame.                                                  *)
LEMMA FrameFields ==
    ASSUME NEW f, ProtocolFrame(f)
    PROVE  /\ f.magic \in Byte /\ f.op \in Byte /\ 0 \in Byte /\ Len(f.extra) \in Byte
           /\ f.extra \in Str /\ f.key \in Str /\ f.value \in Str
           /\ f.vb \in Str /\ Len(f.vb) = 2 /\ f.opaque \in Str /\ Len(f.opaque) = 4
           /\ f.cas \in Str /\ Len(f.cas) = 8
           /\ Len(f.extra) \in Nat /\ Len(f.key) \in Nat /\ Len(f.value) \in Nat
           /\ Body(f) \in Nat /\ Len(f.key) < Base * Base /\ Fits(Body(f))
<1>1. /\ f.magic \in {128, 129} /\ f.op \in Byte /\ f.vb \in Field(2) /\ f.opaque \in Field(4)
      /\ f.cas \in Field(8) /\ f.extra \in Str /\ f.key \in Str /\ f.value \in Str
  BY DEF ProtocolFrame, Str
<1>2. 128 \in Byte /\ 129 \in Byte /\ 0 \in Byte
  BY DEF Byte, Base
<1>3. Len(f.extra) \in Nat /\ Len(f.key) \in Nat /\ Len(f.value) \in Nat
  BY <1>1 DEF Str
<1>4. Len(f.extra) < Base /\ Len(f.key) < Base * Base /\ Fits(Body(f))
  BY Zenon DEF ProtocolFrame, Body
<1>5. \A n \in Nat : n < Base => n \in Byte
  BY DEF Byte, Base
<1>6. Len(f.extra) \in Byte
  BY <1>3, <1>4, <1>5, Zenon
<1>7. \A a, b, c \in Nat : a + b + c \in Nat
  OBVIOUS
<1>8. Body(f) \in Nat
  BY <1>3, <1>7, Zenon DEF Body
<1>9. /\ f.vb \in Str /\ Len(f.vb) = 2 /\ f.opaque \in Str /\ Len(f.opaque) = 4
      /\ f.cas \in Str /\ Len(f.cas) = 8
  <2>1. f.vb \in Str /\ Len(f.vb) = 2
    BY <1>1, FieldLen, Zenon DEF Str
  <2>2. f.opaque \in Str /\ Len(f.opaque) = 4
    BY <1>1, FieldLen, Zenon DEF Str
  <2>3. f.cas \in Str /\ Len(f.cas) = 8
    BY <1>1, FieldLen, Zenon DEF Str
  <2> QED BY <2>1, <2>2, <2>3, Zenon
<1> QED BY <1>1, <1>2, <1>3, <1>4, <1>6, <1>8, <1>9, Zenon

(* The header, piece by piece.                                             *)
LEMMA HeaderPieces ==
    ASSUME NEW f, ProtocolFrame(f)
    PROVE  /\ Header(f) \in Str /\ Len(Header(f)) = 24
           /\ \A raw : Prefix(Header(f), raw) =>
                 /\ Bytes(raw, 0, 2) = <<f.magic, f.op>>
                 /\ Bytes(raw, 2, 2) = Digits(Len(f.key), 2)
                 /\ Bytes(raw, 4, 2) = <<Len(f.extra), 0>>
                 /\ Bytes(raw, 6, 2) = f.vb
                 /\ Bytes(raw, 8, 4) = Digits(Body(f), 4)
                 /\ Bytes(raw, 12, 4) = f.opaque
                 /\ Bytes(raw, 16, 8) = f.cas
<1> DEFINE p1 == <<f.magic, f.op>>
           d2 == Digits(Len(f.key), 2)
           p2 == p1 \o d2
           d3 == <<Len(f.extra), 0>>
           p3 == p2 \o d3
           p4 == p3 \o f.vb
           d5 == Digits(Body(f), 4)
           p5 == p4 \o d5
           p6 == p5 \o f.opaque
           p7 == p6 \o f.cas
<1>0. /\ p1 \in Str /\ Len(p1) = 2 /\ d3 \in Str /\ Len(d3) = 2
  BY FrameFields, Pair, Zenon
<1>1. /\ d2 \in Str /\ Len(d2) = 2 /\ d5 \in Str /\ Len(d5) = 4
  BY FrameFields, DigitsField, FieldLen, Zenon DEF Str
<1>h. Header(f) = p7
  BY Zenon DEF Header
<1> HIDE DEF p1, d2, d3, d5
<1>f. /\ f.vb \in Str /\ Len(f.vb) = 2 /\ f.opaque \in Str /\ Len(f.opaque) = 4
      /\ f.cas \in Str /\ Len(f.cas) = 8
  BY FrameFields, Zenon
<1>2. /\ p2 \in Str /\ Len(p2) = 2 + 2
      /\ \A raw : Prefix(p2, raw) => Prefix(p1, raw) /\ Bytes(raw, 2, 2) = d2
  <2>1. p1 \in Str /\ d2 \in Str /\ Len(p1) = 2 /\ Len(d2) = 2
    BY <1>0, <1>1, Zenon
  <2>2. /\ p2 \in Str /\ Len(p2) = Len(p1) + Len(d2)
        /\ \A raw : Prefix(p2, raw) =>
              Prefix(p1, raw) /\ Bytes(raw, Len(p1), Len(d2)) = d2
    BY <2>1, Longer, Zenon
  <2> QED BY <2>1, <2>2, Zenon
<1> HIDE DEF p2
<1>2a. p2 \in Str /\ Len(p2) = 4
  BY <1>2
<1>3. /\ p3 \in Str /\ Len(p3) = 4 + 2
      /\ \A raw : Prefix(p3, raw) => Prefix(p2, raw) /\ Bytes(raw, 4, 2) = d3
  <2>1. p2 \in Str /\ d3 \in Str /\ Len(p2) = 4 /\ Len(d3) = 2
    BY <1>0, <1>2a, Zenon
  <2>2. /\ p3 \in Str /\ Len(p3) = Len(p2) + Len(d3)
        /\ \A raw : Prefix(p3, raw) =>
              Prefix(p2, raw) /\ Bytes(raw, Len(p2), Len(d3)) = d3
    BY <2>1, Longer, Zenon
  <2> QED BY <2>1, <2>2, Zenon
<1> HIDE DEF p3
<1>3a. p3 \in Str /\ Len(p3) = 6
  BY <1>3
<1>4. /\ p4 \in Str /\ Len(p4) = 6 + 2
      /\ \A raw : Prefix(p4, raw) => Prefix(p3, raw) /\ Bytes(raw, 6, 2) = f.vb
  <2>1. p3 \in Str /\ f.vb \in Str /\ Len(p3) = 6 /\ Len(f.vb) = 2
    BY <1>f, <1>3a, Zenon
  <2>2. /\ p4 \in Str /\ Len(p4) = Len(p3) + Len(f.vb)
        /\ \A raw : Prefix(p4, raw) =>
              Prefix(p3, raw) /\ Bytes(raw, Len(p3), Len(f.vb)) = f.vb
    BY <2>1, Longer, Zenon
  <2> QED BY <2>1, <2>2, Zenon
<1> HIDE DEF p4
<1>4a. p4 \in Str /\ Len(p4) = 8
  BY <1>4
<1>5. /\ p5 \in Str /\ Len(p5) = 8 + 4
      /\ \A raw : Prefix(p5, raw) => Prefix(p4, raw) /\ Bytes(raw, 8, 4) = d5
  <2>1. p4 \in Str /\ d5 \in Str /\ Len(p4) = 8 /\ Len(d5) = 4
    BY <1>1, <1>4a, Zenon
  <2>2. /\ p5 \in Str /\ Len(p5) = Len(p4) + Len(d5)
        /\ \A raw : Prefix(p5, raw) =>
              Prefix(p4, raw) /\ Bytes(raw, Len(p4), Len(d5)) = d5
    BY <2>1, Longer, Zenon
  <2> QED BY <2>1, <2>2, Zenon
<1> HIDE DEF p5
<1>5a. p5 \in Str /\ Len(p5) = 12
  BY <1>5
<1>6. /\ p6 \in Str /\ Len(p6) = 12 + 4
      /\ \A raw : Prefix(p6, raw) => Prefix(p5, raw) /\ Bytes(raw, 12, 4) = f.opaque
  <2>1. p5 \in Str /\ f.opaque \in Str /\ Len(p5) = 12 /\ Len(f.opaque) = 4
    BY <1>f, <1>5a, Zenon
  <2>2. /\ p6 \in Str /\ Len(p6) = Len(p5) + Len(f.opaque)
        /\ \A raw : Prefix(p6, raw) =>
              Prefix(p5, raw) /\ Bytes(raw, Len(p5), Len(f.opaque)) = f.opaque
    BY <2>1, Longer, Zenon
  <2> QED BY <2>1, <2>2, Zenon
<1> HIDE DEF p6
<1>6a. p6 \in Str /\ Len(p6) = 16
  BY <1>6
<1>7. /\ p7 \in Str /\ Len(p7) = 16 + 8
      /\ \A raw : Prefix(p7, raw) => Prefix(p6, raw) /\ Bytes(raw, 16, 8) = f.cas
  <2>1. p6 \in Str /\ f.cas \in Str /\ Len(p6) = 16 /\ Len(f.cas) = 8
    BY <1>f, <1>6a, Zenon
  <2>2. /\ p7 \in Str /\ Len(p7) = Len(p6) + Len(f.cas)
        /\ \A raw : Prefix(p7, raw) =>
              Prefix(p6, raw) /\ Bytes(raw, Len(p6), Len(f.cas)) = f.cas
    BY <2>1, Longer, Zenon
  <2> QED BY <2>1, <2>2, Zenon
<1> HIDE DEF p7
<1>7a. p7 \in Str /\ Len(p7) = 24
  BY <1>7
<1>8. ASSUME NEW raw, Prefix(p7, raw)
      PROVE  /\ Bytes(raw, 0, 2) = p1 /\ Bytes(raw, 2, 2) = d2 /\ Bytes(raw, 4, 2) = d3
             /\ Bytes(raw, 6, 2) = f.vb /\ Bytes(raw, 8, 4) = d5
             /\ Bytes(raw, 12, 4) = f.opaque /\ Bytes(raw, 16, 8) = f.cas
  <2>7. Prefix(p6, raw) /\ Bytes(raw, 16, 8) = f.cas
    BY <1>7, <1>8, Zenon
  <2>6. Prefix(p5, raw) /\ Bytes(raw, 12, 4) = f.opaque
    BY <1>6, <2>7, Zenon
  <2>5. Prefix(p4, raw) /\ Bytes(raw, 8, 4) = d5
    BY <1>5, <2>6, Zenon
  <2>4. Prefix(p3, raw) /\ Bytes(raw, 6, 2) = f.vb
    BY <1>4, <2>5, Zenon
  <2>3. Prefix(p2, raw) /\ Bytes(raw, 4, 2) = d3
    BY <1>3, <2>4, Zenon
  <2>2. Prefix(p1, raw) /\ Bytes(raw, 2, 2) = d2
    BY <1>2, <2>3, Zenon
  <2>1. Bytes(raw, 0, 2) = p1
    <3>1. PICK c \in Str : raw = p1 \o c
      BY <2>2, Zenon DEF Prefix
    <3>2. <<>> \in Str /\ Len(<<>>) = 0
      BY DEF Str
    <3>3. p1 \o c \in Str
      BY <1>0, Concat, Zenon
    <3>4. <<>> \o (p1 \o c) = p1 \o c
      BY <3>3, SMT DEF Str
    <3>5. Bytes(<<>> \o (p1 \o c), Len(<<>>), Len(p1)) = p1
      BY <1>0, <3>2, BytesBetween, Zenon
    <3> QED BY <1>0, <3>1, <3>2, <3>4, <3>5, Zenon
  <2> QED BY <2>1, <2>2, <2>3, <2>4, <2>5, <2>6, <2>7, Zenon
<1> QED BY <1>h, <1>7a, <1>8, Zenon DEF p1, d2, d3, d5

(* What HDR_GET reads of a message whose header has arrived.               *)
LEMMA HeaderRead ==
    ASSUME NEW f, ProtocolFrame(f), NEW raw \in Str, Prefix(Header(f), raw)
    PROVE  /\ Len(raw) \in Nat /\ 24 <= Len(raw) /\ raw[1] = f.magic
           /\ HDR_GET(raw) = [magic |-> f.magic, op |-> f.op, key_length |-> Len(f.key),
                              extra_length |-> Len(f.extra), vb |-> f.vb,
                              body_length |-> Body(f), opaque |-> f.opaque, cas |-> f.cas]
<1>1. /\ Bytes(raw, 0, 2) = <<f.magic, f.op>> /\ Bytes(raw, 2, 2) = Digits(Len(f.key), 2)
      /\ Bytes(raw, 4, 2) = <<Len(f.extra), 0>> /\ Bytes(raw, 6, 2) = f.vb
      /\ Bytes(raw, 8, 4) = Digits(Body(f), 4) /\ Bytes(raw, 12, 4) = f.opaque
      /\ Bytes(raw, 16, 8) = f.cas
  BY HeaderPieces, Zenon
<1>2. Len(raw) \in Nat /\ 24 <= Len(raw)
  <2>1. PICK c \in Str : raw = Header(f) \o c
    BY Zenon DEF Prefix
  <2>2. Header(f) \in Str
    BY HeaderPieces, Zenon
  <2>3. Len(Header(f) \o c) = Len(Header(f)) + Len(c) /\ Len(c) \in Nat
    BY <2>2, Concat, Zenon
  <2>4. Len(Header(f)) = 24
    BY HeaderPieces, Zenon
  <2>5. Len(raw) = 24 + Len(c)
    BY <2>1, <2>3, <2>4, Zenon
  <2> QED BY <2>3, <2>5
<1>3. \A first, w \in 0..24 : first + w <= 24 =>
          first \in Nat /\ w \in Nat /\ first + w <= Len(raw)
  BY <1>2
<1>4. \A first, w \in 0..24 : first + w <= 24 =>
          /\ Load(raw, first, w) = Bytes(raw, first, w)
          /\ \A i \in 1..w : Bytes(raw, first, w)[i] = raw[first + i]
  <2>1. \A first, w \in Nat : first + w <= Len(raw) => Load(raw, first, w) = Bytes(raw, first, w)
    BY LoadKeeps, Zenon DEF Str
  <2>2. \A first, w \in Nat : first + w <= Len(raw) =>
           \A i \in 1..w : Bytes(raw, first, w)[i] = raw[first + i]
    BY StrPieces, Zenon
  <2> QED BY <1>3, <2>1, <2>2, Zenon
<1>5. /\ raw[1] = Bytes(raw, 0, 2)[1] /\ raw[2] = Bytes(raw, 0, 2)[2]
      /\ raw[5] = Bytes(raw, 4, 2)[1]
  <2>1. \A i \in 1..2 : Bytes(raw, 0, 2)[i] = raw[0 + i] /\ Bytes(raw, 4, 2)[i] = raw[4 + i]
    <3>1. 0 \in 0..24 /\ 2 \in 0..24 /\ 4 \in 0..24 /\ 0 + 2 <= 24 /\ 4 + 2 <= 24
      OBVIOUS
    <3> QED BY <1>4, <3>1, Zenon
  <2>2. 1 \in 1..2 /\ 2 \in 1..2
    OBVIOUS
  <2>3. /\ Bytes(raw, 0, 2)[1] = raw[0 + 1] /\ Bytes(raw, 0, 2)[2] = raw[0 + 2]
        /\ Bytes(raw, 4, 2)[1] = raw[4 + 1]
    BY <2>1, <2>2, Zenon
  <2>4. 0 + 1 = 1 /\ 0 + 2 = 2 /\ 4 + 1 = 5
    OBVIOUS
  <2> QED BY <2>3, <2>4
<1>6. /\ Load(raw, 2, 2) = Bytes(raw, 2, 2) /\ Load(raw, 6, 2) = Bytes(raw, 6, 2)
      /\ Load(raw, 8, 4) = Bytes(raw, 8, 4) /\ Load(raw, 12, 4) = Bytes(raw, 12, 4)
      /\ Load(raw, 16, 8) = Bytes(raw, 16, 8)
  <2>1. /\ 2 \in 0..24 /\ 4 \in 0..24 /\ 6 \in 0..24 /\ 8 \in 0..24 /\ 12 \in 0..24
        /\ 16 \in 0..24 /\ 2 + 2 <= 24 /\ 6 + 2 <= 24 /\ 8 + 4 <= 24 /\ 12 + 4 <= 24
        /\ 16 + 8 <= 24
    OBVIOUS
  <2> QED BY <1>4, <2>1, Zenon
<1>7. raw[1] = f.magic /\ raw[2] = f.op /\ raw[5] = Len(f.extra)
  <2>1. <<f.magic, f.op>>[1] = f.magic /\ <<f.magic, f.op>>[2] = f.op
        /\ <<Len(f.extra), 0>>[1] = Len(f.extra)
    OBVIOUS
  <2> QED BY <1>1, <1>5, <2>1, Zenon
<1>8. Number(Digits(Len(f.key), 2)) = Len(f.key) /\ Number(Digits(Body(f), 4)) = Body(f)
  BY FrameFields, NumberOfDigits, Zenon
<1>9. /\ Number(Load(raw, 2, 2)) = Len(f.key) /\ Load(raw, 6, 2) = f.vb
      /\ Number(Load(raw, 8, 4)) = Body(f) /\ Load(raw, 12, 4) = f.opaque
      /\ Load(raw, 16, 8) = f.cas
  BY <1>1, <1>6, <1>8, Zenon
<1> QED BY <1>2, <1>7, <1>9, Zenon DEF HDR_GET

(* The bytes of a frame: how many, and where its parts are.                *)
LEMMA LayoutPieces ==
    ASSUME NEW f, ProtocolFrame(f)
    PROVE  /\ Layout(f) \in Str /\ Len(Layout(f)) = 24 + Body(f)
           /\ \A raw : Prefix(Layout(f), raw) =>
                 /\ Prefix(Header(f), raw)
                 /\ Bytes(raw, 24, Len(f.extra)) = f.extra
                 /\ Bytes(raw, 24 + Len(f.extra), Len(f.key)) = f.key
                 /\ Bytes(raw, 24 + Len(f.extra) + Len(f.key), Len(f.value)) = f.value
<1> DEFINE h == Header(f)
           p1 == h \o f.extra
           p2 == p1 \o f.key
           p3 == p2 \o f.value
<1>0. Layout(f) = p3
  BY Zenon DEF Layout, Header, Body
<1>1. h \in Str /\ Len(h) = 24
  BY HeaderPieces, Zenon
<1>2. f.extra \in Str /\ f.key \in Str /\ f.value \in Str
  BY FrameFields, Zenon
<1>3. Len(f.extra) \in Nat /\ Len(f.key) \in Nat /\ Len(f.value) \in Nat
  BY FrameFields, Zenon
<1> HIDE DEF h
<1>4. /\ p1 \in Str /\ Len(p1) = Len(h) + Len(f.extra)
      /\ \A raw : Prefix(p1, raw) =>
            Prefix(h, raw) /\ Bytes(raw, Len(h), Len(f.extra)) = f.extra
  BY <1>1, <1>2, Longer, Zenon
<1> HIDE DEF p1
<1>5. /\ p2 \in Str /\ Len(p2) = Len(p1) + Len(f.key)
      /\ \A raw : Prefix(p2, raw) =>
            Prefix(p1, raw) /\ Bytes(raw, Len(p1), Len(f.key)) = f.key
  BY <1>2, <1>4, Longer, Zenon
<1> HIDE DEF p2
<1>6. /\ p3 \in Str /\ Len(p3) = Len(p2) + Len(f.value)
      /\ \A raw : Prefix(p3, raw) =>
            Prefix(p2, raw) /\ Bytes(raw, Len(p2), Len(f.value)) = f.value
  BY <1>2, <1>5, Longer, Zenon
<1> HIDE DEF p3
<1>7. Len(p1) = 24 + Len(f.extra) /\ Len(p2) = 24 + Len(f.extra) + Len(f.key)
  BY <1>1, <1>4, <1>5, Zenon
<1>8. Len(p3) = 24 + Body(f)
  <2>2. Len(p3) = 24 + Len(f.extra) + Len(f.key) + Len(f.value)
    BY <1>6, <1>7, Zenon
  <2>3. 24 + Len(f.extra) + Len(f.key) + Len(f.value) = 24 + Body(f)
    <3> DEFINE a == Len(f.extra)
               b == Len(f.key)
               c == Len(f.value)
    <3>1. a \in Nat /\ b \in Nat /\ c \in Nat
      BY <1>3, Zenon
    <3> HIDE DEF a, b, c
    <3>2. 24 + a + b + c = 24 + (a + b + c)
      BY <3>1
    <3> QED BY <3>2, Zenon DEF a, b, c, Body
  <2> QED BY <2>2, <2>3, Zenon
<1>9. ASSUME NEW raw, Prefix(p3, raw)
      PROVE  /\ Prefix(h, raw) /\ Bytes(raw, 24, Len(f.extra)) = f.extra
             /\ Bytes(raw, 24 + Len(f.extra), Len(f.key)) = f.key
             /\ Bytes(raw, 24 + Len(f.extra) + Len(f.key), Len(f.value)) = f.value
  <2>1. Prefix(p2, raw) /\ Bytes(raw, Len(p2), Len(f.value)) = f.value
    BY <1>6, <1>9, Zenon
  <2>2. Prefix(p1, raw) /\ Bytes(raw, Len(p1), Len(f.key)) = f.key
    BY <1>5, <2>1, Zenon
  <2>3. Prefix(h, raw) /\ Bytes(raw, Len(h), Len(f.extra)) = f.extra
    BY <1>4, <2>2, Zenon
  <2> QED BY <1>1, <1>7, <2>1, <2>2, <2>3, Zenon
<1> QED BY <1>0, <1>6, <1>8, <1>9, Zenon DEF h

-----------------------------------------------------------------------------
(* from_wire: the message made of a frame.                                 *)

LEMMA OpCodes ==
    /\ OpCode.GET = 0 /\ OpCode.SET = 1 /\ OpCode.ADD = 2 /\ OpCode.REPLACE = 3
    /\ OpCode.DELETE = 4 /\ OpCode.VERSION = 11 /\ OpCode.GETK = 12
    /\ OpCode.TAP_CONNECT = 64 /\ OpCode.TAP_MUTATE = 65
    /\ Stores = {1, 2, 3}
BY DEF OpCode, Stores

(* What each class says of the frame it was made of.                       *)
LEMMA ClassCases ==
    ASSUME NEW f, ProtocolFrame(f), NEW raw \in Str, Prefix(Header(f), raw)
    PROVE  /\ Class(raw) = "TapMutateReq" => f.magic = 128 /\ f.op = OpCode.TAP_MUTATE
           /\ Class(raw) = "SetAddReplaceReq" => f.magic = 128 /\ f.op \in Stores
           /\ Class(raw) = "GetRsp" => f.magic = 129 /\ f.op = OpCode.GET
           /\ Class(raw) = "GetReq" => f.magic = 128 /\ f.op \in {OpCode.GET, OpCode.GETK}
           /\ Class(raw) = "DeleteReq" => f.magic = 128 /\ f.op = OpCode.DELETE
           /\ Class(raw) = "VersionReq" => f.magic = 128 /\ f.op = OpCode.VERSION
           /\ Class(raw) # "none"
<1>1. raw[1] = f.magic /\ HDR_GET(raw).op = f.op
  BY HeaderRead
<1>2. f.magic \in {128, 129}
  BY Zenon DEF ProtocolFrame
<1>3. f.magic # 128 => f.magic = 129
  BY <1>2, Zenon
<1> DEFINE op == f.op
<1>4. Class(raw) =
          IF f.magic = 128
          THEN CASE op = OpCode.TAP_MUTATE -> "TapMutateReq"
                 [] op \in {OpCode.GET, OpCode.GETK} -> "GetReq"
                 [] op \in Stores -> "SetAddReplaceReq"
                 [] op = OpCode.DELETE -> "DeleteReq"
                 [] op = OpCode.VERSION -> "VersionReq"
                 [] OTHER -> "BaseReq"
          ELSE CASE op = OpCode.GET -> "GetRsp"
                 [] op \in {OpCode.ADD, OpCode.REPLACE} -> "SetAddReplaceRsp"
                 [] OTHER -> "BaseRsp"
  BY <1>1 DEF Class
<1> HIDE DEF op
<1>5. CASE f.magic = 128
  BY <1>4, <1>5 DEF op
<1>6. CASE f.magic # 128
  BY <1>3, <1>4, <1>6 DEF op
<1> QED BY <1>5, <1>6, Zenon

(* The same, of the class of a message.                                    *)
ClassOf(class, f) ==
    /\ class = "TapMutateReq" => f.magic = 128 /\ f.op = OpCode.TAP_MUTATE
    /\ class = "SetAddReplaceReq" => f.magic = 128 /\ f.op \in Stores
    /\ class = "GetReq" => f.magic = 128 /\ f.op \in {OpCode.GET, OpCode.GETK}
    /\ class = "DeleteReq" => f.magic = 128 /\ f.op = OpCode.DELETE
    /\ class = "VersionReq" => f.magic = 128 /\ f.op = OpCode.VERSION

LEMMA ClassFits ==
    ASSUME NEW f, ProtocolFrame(f), NEW raw \in Str, Prefix(Header(f), raw)
    PROVE  ClassOf(Class(raw), f)
<1> DEFINE class == Class(raw)
<1>1. /\ class = "TapMutateReq" => f.magic = 128 /\ f.op = OpCode.TAP_MUTATE
      /\ class = "SetAddReplaceReq" => f.magic = 128 /\ f.op \in Stores
      /\ class = "GetReq" => f.magic = 128 /\ f.op \in {OpCode.GET, OpCode.GETK}
      /\ class = "DeleteReq" => f.magic = 128 /\ f.op = OpCode.DELETE
      /\ class = "VersionReq" => f.magic = 128 /\ f.op = OpCode.VERSION
  BY ClassCases, SMT
<1> HIDE DEF class
<1>2. ClassOf(class, f)
  BY <1>1, Zenon DEF ClassOf
<1> QED BY <1>2, Zenon DEF class

LEMMA EmptyLen == Len(<<>>) = 0 /\ 0 # 4 /\ 0 # 8 /\ 4 <= 4
OBVIOUS

(* The words of the extras.                                                *)
LEMMA Words ==
    ASSUME NEW e \in Str
    PROVE  /\ 4 <= Len(e) => Word(e, 0) = Bytes(e, 0, 4)
           /\ Len(e) = 0 => Word(e, 0) = Unknown
           /\ 8 <= Len(e) => Word(e, 0 + 1) = Bytes(e, 4, 4)
           /\ 16 <= Len(e) => Word(e, 2) = Bytes(e, 8, 4) /\ Word(e, 2 + 1) = Bytes(e, 12, 4)
<1>0. Len(e) \in Nat
  BY Concat, Zenon
<1>1. \A first \in Nat : first + 4 <= Len(e) => Load(e, first, 4) = Bytes(e, first, 4)
  <2>1. 4 \in Nat
    OBVIOUS
  <2> QED BY <2>1, LoadKeeps, Zenon DEF Str
<1>2. ASSUME NEW i \in Nat, NEW n \in Nat, n = 4 * i
      PROVE  /\ n + 4 <= Len(e) => Word(e, i) = Bytes(e, n, 4)
             /\ ~(n + 4 <= Len(e)) => Word(e, i) = Unknown
  <2>1. Len(e) >= 4 * (i + 1) <=> n + 4 <= Len(e)
    BY <1>0, <1>2
  <2> QED BY <1>1, <1>2, <2>1, Zenon DEF Word
<1>3. 4 <= Len(e) => Word(e, 0) = Bytes(e, 0, 4)
  BY <1>0, <1>2
<1>4. Len(e) = 0 => Word(e, 0) = Unknown
  BY <1>2
<1>5. 8 <= Len(e) => Word(e, 0 + 1) = Bytes(e, 4, 4)
  BY <1>0, <1>2
<1>6. 16 <= Len(e) => Word(e, 2) = Bytes(e, 8, 4) /\ Word(e, 2 + 1) = Bytes(e, 12, 4)
  BY <1>0, <1>2
<1> QED BY <1>3, <1>4, <1>5, <1>6, Zenon

(* The message that the constructors make of the bytes of a frame.         *)
AsSent(m, f) ==
    /\ m.op = f.op /\ m.key = f.key /\ m.opaque = f.opaque /\ m.cas = f.cas /\ m.vb = f.vb
    /\ m.class \in {"GetRsp", "SetAddReplaceReq", "TapMutateReq"} =>
           m.value = f.value /\ m.flags = FlagsOf(f)
    /\ m.class \in {"SetAddReplaceReq", "TapMutateReq"} => m.expiry = ExpiryOf(f)

LEMMA ParseFrame ==
    ASSUME NEW f, ProtocolFrame(f), NEW raw \in Str, Prefix(Layout(f), raw)
    PROVE  AsSent(Parse(raw), f) /\ Parse(raw).class = Class(raw)
<1> DEFINE hdr == HDR_GET(raw)
           class == Class(raw)
           extra == Bytes(raw, Hdr, hdr.extra_length)
           before == hdr.extra_length + hdr.key_length
           flags == IF HasFlags(class) THEN Word(extra, FirstWord(class)) ELSE Unknown
           expiry == IF HasExpiry(class) THEN Word(extra, FirstWord(class) + 1) ELSE Unknown
           value == IF HasFlags(class)
                    THEN Bytes(raw, Hdr + before, hdr.body_length - before) ELSE <<>>
<1>1. Prefix(Header(f), raw)
  BY LayoutPieces, Zenon
<1>2. /\ hdr.op = f.op /\ hdr.key_length = Len(f.key) /\ hdr.extra_length = Len(f.extra)
      /\ hdr.vb = f.vb /\ hdr.body_length = Body(f) /\ hdr.opaque = f.opaque
      /\ hdr.cas = f.cas
  BY <1>1, HeaderRead
<1>3. Parse(raw) =
        [class |-> class, op |-> hdr.op, vb |-> hdr.vb, opaque |-> hdr.opaque,
         cas |-> hdr.cas, key |-> Bytes(raw, Hdr + hdr.extra_length, hdr.key_length),
         flags |-> flags, expiry |-> expiry, value |-> value]
  BY Zenon DEF Parse
<1>4. /\ Parse(raw).class = class /\ Parse(raw).op = hdr.op /\ Parse(raw).vb = hdr.vb
      /\ Parse(raw).opaque = hdr.opaque /\ Parse(raw).cas = hdr.cas
      /\ Parse(raw).key = Bytes(raw, Hdr + hdr.extra_length, hdr.key_length)
      /\ Parse(raw).flags = flags /\ Parse(raw).expiry = expiry /\ Parse(raw).value = value
  <2> HIDE DEF hdr, class, flags, expiry, value
  <2> QED BY <1>3
<1>5. /\ extra = f.extra /\ Bytes(raw, Hdr + Len(f.extra), Len(f.key)) = f.key
      /\ Bytes(raw, Hdr + Len(f.extra) + Len(f.key), Len(f.value)) = f.value
  BY <1>2, LayoutPieces, Zenon DEF Hdr
<1>6. Hdr + before = Hdr + Len(f.extra) + Len(f.key) /\ hdr.body_length - before = Len(f.value)
  <2>1. \A a, b \in Nat : 24 + (a + b) = 24 + a + b
    OBVIOUS
  <2>2. Len(f.extra) \in Nat /\ Len(f.key) \in Nat /\ Len(f.value) \in Nat
    BY FrameFields, Zenon
  <2>3. before = Len(f.extra) + Len(f.key)
    BY <1>2, Zenon
  <2>4. hdr.body_length = Len(f.extra) + Len(f.key) + Len(f.value)
    BY <1>2, Zenon DEF Body
  <2> HIDE DEF before, hdr
  <2>5. 24 + before = 24 + Len(f.extra) + Len(f.key)
    BY <2>1, <2>2, <2>3, Zenon
  <2>6. hdr.body_length - before = Len(f.value)
    <3>1. (Len(f.extra) + Len(f.key) + Len(f.value)) - (Len(f.extra) + Len(f.key)) = Len(f.value)
      <4> DEFINE a == Len(f.extra)
                 b == Len(f.key)
                 c == Len(f.value)
      <4>1. a \in Nat /\ b \in Nat /\ c \in Nat
        BY <2>2, Zenon
      <4> HIDE DEF a, b, c
      <4>2. (a + b + c) - (a + b) = c
        BY <4>1
      <4> QED BY <4>2, Zenon DEF a, b, c
    <3> QED BY <2>3, <2>4, <3>1, Zenon
  <2> QED BY <2>5, <2>6, Zenon DEF Hdr
<1>7. HasFlags(class) => value = f.value
  BY <1>5, <1>6, Zenon
<1> HIDE DEF hdr, class, extra, before, value
<1>8. f.extra \in Str
  BY FrameFields, Zenon
<1>9. /\ class = "TapMutateReq" => flags = FlagsOf(f) /\ expiry = ExpiryOf(f)
  <2> SUFFICES ASSUME class = "TapMutateReq"
               PROVE  flags = FlagsOf(f) /\ expiry = ExpiryOf(f)
    BY Zenon
  <2>0. f.magic = 128 /\ f.op = OpCode.TAP_MUTATE
    BY <1>1, ClassCases, Zenon DEF class
  <2>1. f.op = OpCode.TAP_MUTATE /\ Len(f.extra) = 16
    BY <2>0, Zenon DEF ProtocolFrame
  <2>2. Word(f.extra, 2) = Bytes(f.extra, 8, 4) /\ Word(f.extra, 2 + 1) = Bytes(f.extra, 12, 4)
    <3>1. 16 <= Len(f.extra)
      BY <2>1
    <3> QED BY <1>8, <3>1, Words, Zenon
  <2> QED
    BY <1>5, <2>1, <2>2, Zenon
    DEF HasFlags, HasExpiry, FirstWord, FlagsOf, ExpiryOf, flags, expiry
<1>10. class = "SetAddReplaceReq" => flags = FlagsOf(f) /\ expiry = ExpiryOf(f)
  <2> SUFFICES ASSUME class = "SetAddReplaceReq"
               PROVE  flags = FlagsOf(f) /\ expiry = ExpiryOf(f)
    BY Zenon
  <2>0. f.magic = 128 /\ f.op \in Stores
    BY <1>1, ClassCases, Zenon DEF class
  <2>1. f.op \in Stores /\ Len(f.extra) = 8
    BY <2>0, Zenon DEF ProtocolFrame
  <2>2. Word(f.extra, 0) = Bytes(f.extra, 0, 4) /\ Word(f.extra, 0 + 1) = Bytes(f.extra, 4, 4)
    <3>1. 4 <= Len(f.extra) /\ 8 <= Len(f.extra)
      BY <2>1
    <3> QED BY <1>8, <3>1, Words, Zenon
  <2>3. f.op # OpCode.TAP_MUTATE
    BY <2>1, OpCodes
  <2>4. f.extra # <<>>
    BY <2>1, EmptyLen, Zenon
  <2>5. "SetAddReplaceReq" # "TapMutateReq"
    OBVIOUS
  <2> QED
    BY <1>5, <2>2, <2>3, <2>4, <2>5, Zenon
    DEF HasFlags, HasExpiry, FirstWord, FlagsOf, ExpiryOf, flags, expiry
<1>11. class = "GetRsp" => flags = FlagsOf(f)
  <2> SUFFICES ASSUME class = "GetRsp" PROVE flags = FlagsOf(f)
    BY Zenon
  <2>0. f.magic = 129 /\ f.op = OpCode.GET
    BY <1>1, ClassCases, Zenon DEF class
  <2>1. f.op = OpCode.GET /\ Len(f.extra) \in {0, 4}
    BY <2>0, Zenon DEF ProtocolFrame
  <2>3. f.op # OpCode.TAP_MUTATE
    BY <2>1, OpCodes
  <2>4. "GetRsp" # "TapMutateReq"
    OBVIOUS
  <2>5. flags = Word(f.extra, 0)
    BY <1>5, <2>4, Zenon DEF HasFlags, FirstWord, flags
  <2>6. CASE Len(f.extra) = 0
    <3>1. f.extra = <<>>
      BY <1>8, <2>6 DEF Str
    <3> QED BY <1>8, <2>3, <2>5, <2>6, <3>1, Words, Zenon DEF FlagsOf
  <2>7. CASE Len(f.extra) = 4
    <3>1. f.extra # <<>> /\ 4 <= Len(f.extra)
      BY <2>7, EmptyLen, Zenon
    <3> QED BY <1>8, <2>3, <2>5, <3>1, Words, Zenon DEF FlagsOf
  <2> QED BY <2>1, <2>6, <2>7, Zenon
<1>12. class \in {"GetRsp", "SetAddReplaceReq", "TapMutateReq"} =>
          value = f.value /\ flags = FlagsOf(f)
  BY <1>7, <1>9, <1>10, <1>11, Zenon DEF HasFlags
<1>13. class \in {"SetAddReplaceReq", "TapMutateReq"} => expiry = ExpiryOf(f)
  BY <1>9, <1>10, Zenon
<1>14. Parse(raw).key = f.key
  BY <1>2, <1>4, <1>5, Zenon
<1> HIDE DEF flags, expiry
<1> QED BY <1>2, <1>4, <1>12, <1>13, <1>14, Zenon DEF AsSent, class

-----------------------------------------------------------------------------
(* to_wire: the bytes of the messages the code makes.                      *)

LEMMA WriteFields ==
    /\ \A v \in Field(2) \cup Field(4) \cup Field(8) : write(v) = v
    /\ Zero(2) \in Field(2) /\ Zero(4) \in Field(4) /\ Zero(8) \in Field(8)
<1>1. \A v \in Field(2) \cup Field(4) \cup Field(8) : v \in Seq(Byte)
  BY FieldLen, Zenon
<1>2. 0 \in Byte
  BY DEF Byte, Base
<1>3. \A w : Zero(w) \in Field(w)
  BY <1>2, Zenon DEF Zero, Field
<1> QED BY <1>1, <1>3, WriteKeeps, Zenon

(* The bytes of a message or a frame, of its parts.                        *)
Assembled(magic, op, vb, opaque, cas, extra, key, value) ==
    <<magic, op>> \o Digits(Len(key), 2) \o <<Len(extra), 0>> \o vb
        \o Digits(Len(extra) + Len(key) + Len(value), 4)
        \o opaque \o cas \o extra \o key \o value

SameFields(m, g) ==
    /\ m.vb \in Field(2) /\ m.opaque \in Field(4) /\ m.cas \in Field(8)
    /\ g.magic = IF is_request(m) THEN 128 ELSE 129
    /\ g.op = m.op /\ g.vb = m.vb /\ g.opaque = m.opaque /\ g.cas = m.cas
    /\ g.extra = generate_extra(m) /\ g.key = m.key /\ g.value = m.value

(* A message has the bytes of the frame that has its fields.               *)
LEMMA ToWire ==
    ASSUME NEW m, NEW g, SameFields(m, g)
    PROVE  to_wire(m) = Layout(g)
<1> DEFINE magic == IF is_request(m) THEN 128 ELSE 129
           extra == generate_extra(m)
           keylen == Digits(Len(m.key), 2)
           body == Digits(Len(extra) + Len(m.key) + Len(m.value), 4)
<1>1. write(m.vb) = m.vb /\ write(m.opaque) = m.opaque /\ write(m.cas) = m.cas
  <2>1. m.vb \in Field(2) /\ m.opaque \in Field(4) /\ m.cas \in Field(8)
    BY Zenon DEF SameFields
  <2> QED BY <2>1, WriteFields, Zenon
<1>2. write(keylen) = keylen /\ write(body) = body
  BY DigitsField, Zenon
<1>3. to_wire(m) =
        <<magic, m.op>> \o write(keylen) \o <<Len(extra), 0>> \o write(m.vb) \o write(body)
            \o write(m.opaque) \o write(m.cas) \o extra \o m.key \o m.value
  BY Zenon DEF to_wire
<1> HIDE DEF magic, extra, keylen, body
<1>4. to_wire(m) =
        <<magic, m.op>> \o keylen \o <<Len(extra), 0>> \o m.vb \o body
            \o m.opaque \o m.cas \o extra \o m.key \o m.value
  BY <1>1, <1>2, <1>3, Zenon
<1>5. to_wire(m) = Assembled(magic, m.op, m.vb, m.opaque, m.cas, extra, m.key, m.value)
  BY <1>4, Zenon DEF Assembled, keylen, body
<1>6. Layout(g) = Assembled(g.magic, g.op, g.vb, g.opaque, g.cas, g.extra, g.key, g.value)
  BY Zenon DEF Layout, Assembled
<1>7. /\ g.magic = magic /\ g.op = m.op /\ g.vb = m.vb /\ g.opaque = m.opaque
      /\ g.cas = m.cas /\ g.extra = extra /\ g.key = m.key /\ g.value = m.value
  BY Zenon DEF SameFields, magic, extra
<1> QED BY <1>5, <1>6, <1>7, Zenon

(* The requests that open a connection.                                    *)
LEMMA ConnectBytes ==
    ASSUME NEW buckets \in BucketLists
    PROVE  to_wire(TapConnectReq(buckets)) = Layout(ConnectFrame(buckets))
<1> DEFINE m == TapConnectReq(buckets)
           g == ConnectFrame(buckets)
<1>1. buckets \in Seq(Field(2))
  BY BucketsAssumption, Zenon
<1>2. [i \in DOMAIN buckets |-> write(buckets[i])] = buckets
  <2>1. \A i \in DOMAIN buckets : buckets[i] \in Field(2)
    BY <1>1
  <2>2. \A i \in DOMAIN buckets : write(buckets[i]) = buckets[i]
    BY <2>1, WriteFields, Zenon
  <2> QED BY <1>1, <2>2
<1>3. write(Digits(Len(buckets), 2)) = Digits(Len(buckets), 2)
  BY DigitsField, Zenon
<1> DEFINE v == IF buckets = <<>> THEN <<>> ELSE Digits(Len(buckets), 2) \o Join(buckets)
           x == Digits(IF buckets = <<>> THEN 2 ELSE 6, 4)
<1>4. /\ m.class = "TapConnectReq" /\ m.op = OpCode.TAP_CONNECT /\ m.key = <<>>
      /\ m.vb = Zero(2) /\ m.opaque = Zero(4) /\ m.cas = Zero(8)
      /\ m.flags = Digits(IF buckets = <<>> THEN 2 ELSE 2 + 4, 4)
      /\ m.value = IF buckets = <<>> THEN <<>>
                   ELSE write(Digits(Len(buckets), 2))
                           \o Join([i \in DOMAIN buckets |-> write(buckets[i])])
  BY DEF TapConnectReq, Message
<1>5. /\ g.magic = 128 /\ g.op = OpCode.TAP_CONNECT /\ g.vb = Zero(2) /\ g.opaque = Zero(4)
      /\ g.cas = Zero(8) /\ g.key = <<>> /\ g.extra = x /\ g.value = v
  BY DEF ConnectFrame, NoFrame
<1> HIDE DEF m, g
<1>6. m.value = v
  BY <1>2, <1>3, <1>4, Zenon
<1>7. generate_extra(m) = x
  <2>1. m.flags = x
    BY <1>4
  <2>2. write(x) = x
    BY DigitsField, Zenon
  <2>3. generate_extra(m) = write(m.flags)
    BY <1>4 DEF generate_extra
  <2> QED BY <2>1, <2>2, <2>3, Zenon
<1>8. is_request(m)
  BY <1>4, Zenon DEF is_request
<1> HIDE DEF v, x
<1>9. m.vb \in Field(2) /\ m.opaque \in Field(4) /\ m.cas \in Field(8)
  BY <1>4, WriteFields, Zenon
<1>10. /\ g.op = m.op /\ g.vb = m.vb /\ g.opaque = m.opaque /\ g.cas = m.cas /\ g.key = m.key
  BY <1>4, <1>5, Zenon
<1>11. /\ g.magic = (IF is_request(m) THEN 128 ELSE 129) /\ g.extra = generate_extra(m)
       /\ g.value = m.value
  BY <1>5, <1>6, <1>7, <1>8, Zenon
<1>12. SameFields(m, g)
  BY <1>9, <1>10, <1>11, Zenon DEF SameFields
<1> QED BY <1>12, ToWire, Zenon DEF m, g

LEMMA TagFields ==
    Tag.key = <<97, 115>> /\ Tag.vb = <<0, 3>> /\ Tag.value = <<49>> /\ Tag.vb \in Field(2)
<1>1. Tag.key = <<97, 115>> /\ Tag.vb = <<0, 3>> /\ Tag.value = <<49>>
  BY DEF Tag
<1>2. <<0, 3>> \in Field(2)
  BY DEF Field, Byte, Base
<1> QED BY <1>1, <1>2, Zenon

LEMMA TagGetDeleteBytes ==
    /\ to_wire(GetReq(Tag.key)) = Layout(TagFrame(OpCode.GET))
    /\ to_wire(DeleteReq(Tag.key)) = Layout(TagFrame(OpCode.DELETE))
<1>1. ASSUME NEW class \in {"GetReq", "DeleteReq"}, NEW op,
             NEW m, m = Message(class, op, Tag.key, Zero(2), Zero(4), Zero(8))
      PROVE  to_wire(m) = Layout(TagFrame(op))
  <2> DEFINE g == TagFrame(op)
  <2>1. /\ m.class = class /\ m.op = op /\ m.key = Tag.key /\ m.vb = Zero(2)
        /\ m.opaque = Zero(4) /\ m.cas = Zero(8) /\ m.value = <<>>
    BY <1>1 DEF Message
  <2>2. /\ g.magic = 128 /\ g.op = op /\ g.key = Tag.key /\ g.vb = Zero(2)
        /\ g.opaque = Zero(4) /\ g.cas = Zero(8) /\ g.value = <<>> /\ g.extra = <<>>
    BY DEF TagFrame, NoFrame
  <2> HIDE DEF g
  <2>3. is_request(m)
    BY <2>1, Zenon DEF is_request
  <2>4. generate_extra(m) = <<>>
    BY <2>1 DEF generate_extra
  <2>5. m.vb \in Field(2) /\ m.opaque \in Field(4) /\ m.cas \in Field(8)
    BY <2>1, WriteFields, Zenon
  <2>6. /\ g.magic = IF is_request(m) THEN 128 ELSE 129
        /\ g.op = m.op /\ g.vb = m.vb /\ g.opaque = m.opaque /\ g.cas = m.cas
        /\ g.extra = generate_extra(m) /\ g.key = m.key /\ g.value = m.value
    BY <2>1, <2>2, <2>3, <2>4
  <2>7. SameFields(m, g)
    BY <2>5, <2>6, Zenon DEF SameFields
  <2> QED BY <2>7, ToWire, Zenon DEF g
<1> QED BY <1>1, Zenon DEF GetReq, DeleteReq

(* The frame of a SET, ADD or REPLACE.                                     *)
StoreFrame(g, op, key, vb, value, cas, flags, expiry) ==
    /\ vb \in Field(2) /\ cas \in Field(8)
    /\ g.magic = 128 /\ g.op = op /\ g.key = key /\ g.vb = vb /\ g.opaque = Zero(4)
    /\ g.cas = cas /\ g.value = value /\ g.extra = write(flags) \o write(expiry)

LEMMA StoreBytes ==
    ASSUME NEW g, NEW op, NEW key, NEW vb, NEW value, NEW cas, NEW flags, NEW expiry,
           StoreFrame(g, op, key, vb, value, cas, flags, expiry)
    PROVE  to_wire(SetAddReplaceReq(op, key, vb, value, cas, flags, expiry)) = Layout(g)
<1> DEFINE m == SetAddReplaceReq(op, key, vb, value, cas, flags, expiry)
<1>1. /\ m.class = "SetAddReplaceReq" /\ m.op = op /\ m.key = key /\ m.vb = vb
      /\ m.opaque = Zero(4) /\ m.cas = cas /\ m.value = value /\ m.flags = flags
      /\ m.expiry = expiry
  BY DEF SetAddReplaceReq, Message
<1> HIDE DEF m
<1>2. is_request(m)
  BY <1>1, Zenon DEF is_request
<1>3. generate_extra(m) = write(flags) \o write(expiry)
  BY <1>1 DEF generate_extra
<1>4. m.vb \in Field(2) /\ m.opaque \in Field(4) /\ m.cas \in Field(8)
  <2>1. vb \in Field(2) /\ cas \in Field(8) /\ Zero(4) \in Field(4)
    BY WriteFields, Zenon DEF StoreFrame
  <2> QED BY <1>1, <2>1, Zenon
<1>5. g.op = m.op /\ g.key = m.key /\ g.vb = m.vb /\ g.opaque = m.opaque
  BY <1>1, Zenon DEF StoreFrame
<1>6. g.cas = m.cas /\ g.value = m.value
  BY <1>1, Zenon DEF StoreFrame
<1>7. g.magic = (IF is_request(m) THEN 128 ELSE 129) /\ g.extra = generate_extra(m)
  BY <1>2, <1>3, Zenon DEF StoreFrame
<1>8. SameFields(m, g)
  BY <1>4, <1>5, <1>6, <1>7, Zenon DEF SameFields
<1> QED BY <1>8, ToWire, Zenon DEF m

LEMMA ZeroPairs == Zero(4) \o Zero(4) = Zero(8)
BY DEF Zero

LEMMA TagSetBytes ==
    to_wire(SetAddReplaceReq(OpCode.SET, Tag.key, Tag.vb, Tag.value, Zero(8), Zero(4), Zero(4)))
        = Layout([TagFrame(OpCode.SET) EXCEPT !.vb = Tag.vb, !.extra = Zero(8),
                                              !.value = Tag.value])
<1> DEFINE g == [TagFrame(OpCode.SET) EXCEPT !.vb = Tag.vb, !.extra = Zero(8),
                                             !.value = Tag.value]
<1>1. /\ g.magic = 128 /\ g.op = OpCode.SET /\ g.key = Tag.key /\ g.vb = Tag.vb
      /\ g.opaque = Zero(4) /\ g.cas = Zero(8) /\ g.value = Tag.value /\ g.extra = Zero(8)
  BY DEF TagFrame, NoFrame
<1> HIDE DEF g
<1>2. Tag.vb \in Field(2) /\ Zero(8) \in Field(8) /\ Zero(8) = write(Zero(4)) \o write(Zero(4))
  BY WriteFields, TagFields, ZeroPairs, Zenon
<1>3. StoreFrame(g, OpCode.SET, Tag.key, Tag.vb, Tag.value, Zero(8), Zero(4), Zero(4))
  BY <1>1, <1>2, Zenon DEF StoreFrame
<1>4. to_wire(SetAddReplaceReq(OpCode.SET, Tag.key, Tag.vb, Tag.value, Zero(8), Zero(4), Zero(4)))
          = Layout(g)
  BY <1>3, StoreBytes, SMT
<1> QED BY <1>4, Zenon DEF g

(* What a connection begins with is the request of the protocol.           *)
LEMMA RequestBytes ==
    ASSUME NEW m \in Requests
    PROVE  to_wire(m) = Layout(RequestFrame(m))
<1>1. ASSUME NEW b \in BucketLists, m = TapConnectReq(b)
      PROVE  to_wire(m) = Layout(RequestFrame(m))
  <2> DEFINE c == CHOOSE buckets \in BucketLists : m = TapConnectReq(buckets)
  <2>1. c \in BucketLists /\ m = TapConnectReq(c)
    BY <1>1, Zenon
  <2>2. m.op = OpCode.TAP_CONNECT
    <3>1. ASSUME NEW x, NEW y
          PROVE  [Message("TapConnectReq", OpCode.TAP_CONNECT, <<>>, Zero(2), Zero(4), Zero(8))
                     EXCEPT !.flags = x, !.value = y].op = OpCode.TAP_CONNECT
      BY DEF Message
    <3> QED BY <1>1, <3>1, Zenon DEF TapConnectReq
  <2>3. RequestFrame(m) = ConnectFrame(c)
    <3>1. m.op # OpCode.SET /\ m.op \notin {OpCode.GET, OpCode.DELETE}
      BY <2>2, OpCodes
    <3> QED BY <3>1 DEF RequestFrame
  <2> QED BY <2>1, <2>3, ConnectBytes, Zenon
<1>2. ASSUME m = GetReq(Tag.key) \/ m = DeleteReq(Tag.key)
      PROVE  to_wire(m) = Layout(RequestFrame(m))
  <2>1. /\ m = GetReq(Tag.key) => m.op = OpCode.GET
        /\ m = DeleteReq(Tag.key) => m.op = OpCode.DELETE
    BY DEF GetReq, DeleteReq, Message
  <2>2. m.op \in {OpCode.GET, OpCode.DELETE} => RequestFrame(m) = TagFrame(m.op)
    BY OpCodes DEF RequestFrame
  <2> QED BY <1>2, <2>1, <2>2, TagGetDeleteBytes, Zenon
<1>3. ASSUME m = SetAddReplaceReq(OpCode.SET, Tag.key, Tag.vb, Tag.value, Zero(8),
                                  Zero(4), Zero(4))
      PROVE  to_wire(m) = Layout(RequestFrame(m))
  <2>1. m.op = OpCode.SET
    BY <1>3 DEF SetAddReplaceReq, Message
  <2>2. RequestFrame(m) = [TagFrame(m.op) EXCEPT !.vb = Tag.vb, !.extra = Zero(8),
                                                 !.value = Tag.value]
    BY <2>1, OpCodes DEF RequestFrame
  <2> QED BY <1>3, <2>1, <2>2, TagSetBytes, Zenon
<1> QED BY <1>1, <1>2, <1>3, Zenon DEF Requests

-----------------------------------------------------------------------------
(* The answers to a client of the proxy.                                   *)

LEMMA ResultFields ==
    ASSUME NEW r \in Results
    PROVE  /\ r.status \in Field(2) /\ r.cas \in Field(8) /\ r.value \in Str
           /\ r.flags \in Field(4) /\ r.vbucket \in Field(2)
           /\ <<0, r.status[2]>> = r.status /\ Fits(4 + Len(r.value))
<1>1. /\ r \in [status : Field(2), cas : Field(8), value : Seq(Byte), flags : Field(4),
                vbucket : Field(2)]
      /\ r.status[1] = 0 /\ Fits(4 + Len(r.value))
  BY ResultsAssumption, Zenon
<1>2. /\ r.status \in Field(2) /\ r.cas \in Field(8) /\ r.value \in Str
      /\ r.flags \in Field(4) /\ r.vbucket \in Field(2)
  BY <1>1 DEF Str
<1>3. ASSUME NEW s \in Field(2), s[1] = 0 PROVE <<0, s[2]>> = s
  BY <1>3 DEF Field
<1> QED BY <1>1, <1>2, <1>3, Zenon

LEMMA ReferenceFields ==
    ASSUME NEW f, NEW r, f.op # OpCode.TAP_MUTATE
    PROVE  LET g == Reference(f, r)
               get == f.op \in {OpCode.GET, OpCode.GETK}
               version == f.op = OpCode.VERSION
           IN  /\ g.magic = 129 /\ g.op = f.op /\ g.opaque = f.opaque
               /\ g.vb = IF version THEN NO_ERROR ELSE r.status
               /\ g.cas = IF get THEN r.cas ELSE Zero(8)
               /\ g.extra = IF get /\ r.status = NO_ERROR THEN Zero(4) ELSE <<>>
               /\ g.key = IF f.op = OpCode.GETK THEN f.key ELSE <<>>
               /\ g.value = IF get THEN r.value ELSE IF version THEN Version ELSE <<>>
<1> DEFINE get == f.op \in {OpCode.GET, OpCode.GETK}
           version == f.op = OpCode.VERSION
           vb == IF version THEN NO_ERROR ELSE r.status
           cas == IF get THEN r.cas ELSE Zero(8)
           extra == IF get /\ r.status = NO_ERROR THEN Zero(4) ELSE <<>>
           key == IF f.op = OpCode.GETK THEN f.key ELSE <<>>
           value == IF get THEN r.value ELSE IF version THEN Version ELSE <<>>
<1>1. Reference(f, r) =
        [NoFrame EXCEPT !.magic = 129, !.op = f.op, !.opaque = f.opaque, !.vb = vb,
            !.cas = cas, !.extra = extra, !.key = key, !.value = value]
  BY Zenon DEF Reference
<1> HIDE DEF vb, cas, extra, key, value
<1>2. /\ Reference(f, r).magic = 129 /\ Reference(f, r).op = f.op
      /\ Reference(f, r).opaque = f.opaque /\ Reference(f, r).vb = vb
      /\ Reference(f, r).cas = cas /\ Reference(f, r).extra = extra
      /\ Reference(f, r).key = key /\ Reference(f, r).value = value
  BY <1>1 DEF NoFrame
<1> QED BY <1>2, Zenon DEF vb, cas, extra, key, value

LEMMA GetAnswer ==
    ASSUME NEW f, ProtocolFrame(f), f.magic = 128, f.op \in {OpCode.GET, OpCode.GETK},
           NEW q, q.op = f.op, q.opaque = f.opaque, q.key = f.key, NEW r \in Results
    PROVE  to_wire(GetRsp(r.status, q.opaque, r.cas, r.value, Zero(4),
                          IF response_needs_key(q) THEN q.key ELSE <<>>))
               = Layout(Reference(f, r))
<1> DEFINE key == IF f.op = OpCode.GETK THEN f.key ELSE <<>>
           m == GetRsp(r.status, f.opaque, r.cas, r.value, Zero(4), key)
           g == Reference(f, r)
<1>1. key = IF response_needs_key(q) THEN q.key ELSE <<>>
  BY Zenon DEF response_needs_key
<1>2. f.op = IF key = <<>> THEN OpCode.GET ELSE OpCode.GETK
  <2>1. f.op = OpCode.GETK => f.key # <<>>
    BY Zenon DEF ProtocolFrame
  <2> QED BY <2>1, Zenon
<1>3. f.opaque \in Field(4)
  BY DEF ProtocolFrame
<1>4. r.status \in Field(2) /\ r.cas \in Field(8)
  BY ResultFields, Zenon
<1>5. /\ g.magic = 129 /\ g.op = f.op /\ g.opaque = f.opaque /\ g.vb = r.status
      /\ g.cas = r.cas /\ g.extra = IF r.status = NO_ERROR THEN Zero(4) ELSE <<>>
      /\ g.key = key /\ g.value = r.value
  <2>1. f.op # OpCode.TAP_MUTATE /\ f.op # OpCode.VERSION
    BY OpCodes
  <2> HIDE DEF g
  <2> QED BY <2>1, ReferenceFields, SMT DEF g
<1> HIDE DEF key, g
<1>6. /\ m.class = "GetRsp" /\ m.op = IF key = <<>> THEN OpCode.GET ELSE OpCode.GETK
      /\ m.key = key /\ m.vb = r.status /\ m.opaque = f.opaque /\ m.cas = r.cas
      /\ m.value = r.value /\ m.flags = Zero(4)
  BY DEF GetRsp, Message
<1> HIDE DEF m
<1>7. ~is_request(m)
  BY <1>6 DEF is_request
<1>8. generate_extra(m) = IF r.status = NO_ERROR THEN Zero(4) ELSE <<>>
  <2>1. generate_extra(m) = IF r.status = NO_ERROR THEN write(Zero(4)) ELSE <<>>
    BY <1>6 DEF generate_extra
  <2> QED BY <2>1, WriteFields, Zenon
<1>9. m.vb \in Field(2) /\ m.opaque \in Field(4) /\ m.cas \in Field(8)
  BY <1>3, <1>4, <1>6, Zenon
<1>10. /\ g.magic = IF is_request(m) THEN 128 ELSE 129
       /\ g.op = m.op /\ g.vb = m.vb /\ g.opaque = m.opaque /\ g.cas = m.cas
       /\ g.extra = generate_extra(m) /\ g.key = m.key /\ g.value = m.value
  BY <1>2, <1>5, <1>6, <1>7, <1>8
<1>11. SameFields(m, g)
  BY <1>9, <1>10, Zenon DEF SameFields
<1>12. to_wire(m) = Layout(g)
  BY <1>11, ToWire, Zenon
<1> QED BY <1>1, <1>12, Zenon DEF m, g

(* The answers that have neither key nor extras.                           *)
PlainRsp(m, op, status, opaque, value) ==
    /\ m.class \in {"SetAddReplaceRsp", "DeleteRsp", "VersionRsp"} /\ m.op = op
    /\ m.opaque = opaque /\ m.cas = Zero(8) /\ m.key = <<>> /\ m.vb = status /\ m.value = value

LEMMA PlainFields ==
    /\ \A op, s, opaque :
          PlainRsp(SetAddReplaceRsp(op, s, opaque), op, <<0, s[2]>>, opaque, <<>>)
    /\ \A s, opaque : PlainRsp(DeleteRsp(s, opaque), OpCode.DELETE, <<0, s[2]>>, opaque, <<>>)
    /\ \A s, opaque, version :
          PlainRsp(VersionRsp(s, opaque, version), OpCode.VERSION, s, opaque, version)
<1>1. ASSUME NEW op, NEW s, NEW opaque
      PROVE  PlainRsp(SetAddReplaceRsp(op, s, opaque), op, <<0, s[2]>>, opaque, <<>>)
  BY DEF PlainRsp, SetAddReplaceRsp, Message
<1>2. ASSUME NEW s, NEW opaque
      PROVE  PlainRsp(DeleteRsp(s, opaque), OpCode.DELETE, <<0, s[2]>>, opaque, <<>>)
  BY DEF PlainRsp, DeleteRsp, Message
<1>3. ASSUME NEW s, NEW opaque, NEW version
      PROVE  PlainRsp(VersionRsp(s, opaque, version), OpCode.VERSION, s, opaque, version)
  BY DEF PlainRsp, VersionRsp, Message
<1> QED BY <1>1, <1>2, <1>3, Zenon

PlainFrame(g, op, status, opaque, value) ==
    /\ g.magic = 129 /\ g.op = op /\ g.opaque = opaque /\ g.vb = status
    /\ g.cas = Zero(8) /\ g.extra = <<>> /\ g.key = <<>> /\ g.value = value

LEMMA PlainReference ==
    ASSUME NEW f, NEW r, f.op # OpCode.TAP_MUTATE, f.op \notin {OpCode.GET, OpCode.GETK},
           f.op # OpCode.GETK
    PROVE  PlainFrame(Reference(f, r), f.op,
                      IF f.op = OpCode.VERSION THEN NO_ERROR ELSE r.status, f.opaque,
                      IF f.op = OpCode.VERSION THEN Version ELSE <<>>)
<1> DEFINE g == Reference(f, r)
           get == f.op \in {OpCode.GET, OpCode.GETK}
           version == f.op = OpCode.VERSION
<1>1. /\ g.magic = 129 /\ g.op = f.op /\ g.opaque = f.opaque
      /\ g.vb = IF version THEN NO_ERROR ELSE r.status
      /\ g.cas = IF get THEN r.cas ELSE Zero(8)
      /\ g.extra = IF get /\ r.status = NO_ERROR THEN Zero(4) ELSE <<>>
      /\ g.key = IF f.op = OpCode.GETK THEN f.key ELSE <<>>
      /\ g.value = IF get THEN r.value ELSE IF version THEN Version ELSE <<>>
  BY ReferenceFields, Zenon
<1>2. ~get /\ f.op # OpCode.GETK
  BY Zenon
<1> HIDE DEF g, get
<1>3. g.cas = Zero(8) /\ g.extra = <<>>
  BY <1>1, <1>2, Zenon
<1>4. g.key = <<>> /\ g.value = IF version THEN Version ELSE <<>>
  BY <1>1, <1>2, Zenon
<1> QED BY <1>1, <1>3, <1>4, Zenon DEF g, PlainFrame

LEMMA PlainAnswer ==
    ASSUME NEW f, ProtocolFrame(f),
           f.op \notin {OpCode.GET, OpCode.GETK, OpCode.TAP_MUTATE}, NEW r \in Results,
           NEW m,
           PlainRsp(m, f.op, IF f.op = OpCode.VERSION THEN NO_ERROR ELSE r.status, f.opaque,
                    IF f.op = OpCode.VERSION THEN Version ELSE <<>>)
    PROVE  to_wire(m) = Layout(Reference(f, r))
<1> DEFINE g == Reference(f, r)
           status == IF f.op = OpCode.VERSION THEN NO_ERROR ELSE r.status
           value == IF f.op = OpCode.VERSION THEN Version ELSE <<>>
<1>0. /\ m.class \in {"SetAddReplaceRsp", "DeleteRsp", "VersionRsp"} /\ m.op = f.op
      /\ m.opaque = f.opaque /\ m.cas = Zero(8) /\ m.key = <<>> /\ m.vb = status
      /\ m.value = value
  BY Zenon DEF PlainRsp
<1>1. /\ g.magic = 129 /\ g.op = m.op /\ g.opaque = m.opaque /\ g.vb = m.vb
      /\ g.cas = m.cas /\ g.extra = <<>> /\ g.key = m.key /\ g.value = m.value
  <2>1. f.op # OpCode.TAP_MUTATE /\ f.op \notin {OpCode.GET, OpCode.GETK}
        /\ f.op # OpCode.GETK
    BY Zenon
  <2>2. PlainFrame(g, f.op, status, f.opaque, value)
    BY <2>1, PlainReference, Zenon
  <2> HIDE DEF g, status, value
  <2> QED BY <1>0, <2>2, Zenon DEF PlainFrame
<1> HIDE DEF g
<1>2. ~is_request(m) /\ generate_extra(m) = <<>>
  BY <1>0 DEF is_request, generate_extra
<1>3. m.vb \in Field(2) /\ m.opaque \in Field(4) /\ m.cas \in Field(8)
  <2>1. r.status \in Field(2)
    BY ResultFields, Zenon
  <2>2. NO_ERROR \in Field(2)
    <3>1. 0 \in Nat
      OBVIOUS
    <3> QED BY <3>1, DigitsField, Zenon DEF NO_ERROR
  <2>3. f.opaque \in Field(4)
    BY DEF ProtocolFrame
  <2> QED BY <1>0, <2>1, <2>2, <2>3, WriteFields, Zenon
<1>4. g.magic = (IF is_request(m) THEN 128 ELSE 129) /\ g.extra = generate_extra(m)
  BY <1>1, <1>2, Zenon
<1>5. SameFields(m, g)
  BY <1>1, <1>3, <1>4, Zenon DEF SameFields
<1> QED BY <1>5, ToWire, Zenon DEF g

-----------------------------------------------------------------------------
(* The record of a mutation, and the answer of the local memcached to the  *)
(* GET of its key.                                                         *)

LEMMA FewerFit == \A n \in Nat : Fits(4 + n) => Fits(n)
BY DEF Fits, Base

LEMMA Statuses == NO_ERROR # KEY_NOT_FOUND
<1>1. NO_ERROR[2] = 0 /\ KEY_NOT_FOUND[2] = 1
  BY DEF NO_ERROR, KEY_NOT_FOUND, Digits, Weight, Base
<1> QED BY <1>1

LocalFrame(r) ==
    [NoFrame EXCEPT !.magic = 129, !.op = OpCode.GET, !.vb = r.status, !.cas = r.cas,
        !.value = r.value, !.extra = IF r.status = NO_ERROR THEN r.flags ELSE <<>>]

LEMMA LocalFrameFields ==
    ASSUME NEW r \in Results
    PROVE  /\ ProtocolFrame(LocalFrame(r)) /\ LocalFrame(r).vb = r.status
           /\ LocalFrame(r).cas = r.cas /\ LocalFrame(r).op = OpCode.GET
           /\ LocalFrame(r).magic = 129
           /\ LocalFrame(r).extra = IF r.status = NO_ERROR THEN r.flags ELSE <<>>
<1> DEFINE g == LocalFrame(r)
           extra == IF r.status = NO_ERROR THEN r.flags ELSE <<>>
<1>1. /\ r.status \in Field(2) /\ r.cas \in Field(8) /\ r.value \in Str
      /\ r.flags \in Field(4) /\ Fits(4 + Len(r.value))
  BY ResultFields, Zenon
<1>2. extra \in Str /\ Len(extra) \in {0, 4}
  <2>1. r.flags \in Str /\ Len(r.flags) = 4
    BY <1>1, FieldLen, Zenon DEF Str
  <2>2. <<>> \in Str /\ Len(<<>>) = 0
    BY DEF Str
  <2> QED BY <2>1, <2>2, Zenon
<1> HIDE DEF extra
<1>3. g = [magic |-> 129, op |-> OpCode.GET, vb |-> r.status, opaque |-> Zero(4), cas |-> r.cas,
           extra |-> extra, key |-> <<>>, value |-> r.value]
  <2>1. g = [NoFrame EXCEPT !.magic = 129, !.op = OpCode.GET, !.vb = r.status, !.cas = r.cas,
                !.value = r.value, !.extra = extra]
    BY Zenon DEF LocalFrame, extra
  <2> HIDE DEF g
  <2> QED BY <2>1, Zenon DEF NoFrame
<1> HIDE DEF g
<1>4. /\ g.magic = 129 /\ g.op = OpCode.GET /\ g.vb = r.status /\ g.cas = r.cas
      /\ g.extra = extra /\ g.key = <<>> /\ g.value = r.value
  BY <1>3
<1>5. g \in [magic : {128, 129}, op : Byte, vb : Field(2), opaque : Field(4),
            cas : Field(8), extra : Seq(Byte), key : Seq(Byte), value : Seq(Byte)]
  <2>1. OpCode.GET \in Byte
    BY OpCodes DEF Byte, Base
  <2>2. Zero(4) \in Field(4)
    BY WriteFields, Zenon
  <2> QED BY <1>1, <1>2, <1>3, <2>1, <2>2, SMT DEF Str
<1>6. Len(g.extra) < Base /\ Len(g.key) < Base * Base
  <2>1. Len(g.key) = 0 /\ Len(g.extra) \in {0, 4}
    BY <1>2, <1>4, EmptyLen, Zenon
  <2> QED BY <2>1 DEF Base
<1>7. Fits(Len(g.extra) + Len(g.key) + Len(g.value))
  <2>1. Len(r.value) \in Nat
    BY <1>1 DEF Str
  <2>2. Fits(Len(r.value))
    BY <1>1, <2>1, FewerFit, Zenon
  <2>3. \/ Len(g.extra) + Len(g.key) + Len(g.value) = Len(r.value)
        \/ Len(g.extra) + Len(g.key) + Len(g.value) = 4 + Len(r.value)
    <3>1. Len(g.key) = 0 /\ Len(g.extra) \in {0, 4} /\ Len(g.value) = Len(r.value)
      BY <1>2, <1>4, EmptyLen, Zenon
    <3> DEFINE a == Len(g.extra)
               b == Len(g.key)
               n == Len(g.value)
    <3>2. n \in Nat /\ b = 0 /\ a \in {0, 4}
      BY <2>1, <3>1, Zenon
    <3> HIDE DEF a, b, n
    <3>3. a + b + n = n \/ a + b + n = 4 + n
      BY <3>2
    <3> QED BY <3>1, <3>3, Zenon DEF a, b, n
  <2> QED BY <1>1, <2>2, <2>3, Zenon
<1>8. ProtocolFrame(g)
  <2>1. g.magic # 128
    BY <1>4
  <2> QED BY <1>2, <1>4, <1>5, <1>6, <1>7, <2>1, Zenon DEF ProtocolFrame
<1> QED BY <1>4, <1>8, Zenon DEF g, extra

(* What the code sees of that answer.                                      *)
LEMMA LocalAnswerFields ==
    ASSUME NEW r \in Results
    PROVE  /\ LocalAnswer(r).vb = r.status /\ LocalAnswer(r).cas = r.cas
           /\ r.status = NO_ERROR => LocalAnswer(r).flags = r.flags
<1> DEFINE g == LocalFrame(r)
           raw == Layout(g)
<1>1. /\ ProtocolFrame(g) /\ g.vb = r.status /\ g.cas = r.cas /\ g.op = OpCode.GET
      /\ g.magic = 129 /\ g.extra = IF r.status = NO_ERROR THEN r.flags ELSE <<>>
  BY LocalFrameFields, Zenon
<1>2. LocalAnswer(r) = Parse(raw)
  BY Zenon DEF LocalAnswer, LocalFrame
<1> HIDE DEF g
<1>3. raw \in Str
  BY <1>1, LayoutPieces, Zenon
<1>4. Prefix(raw, raw)
  <2>1. <<>> \in Str /\ raw = raw \o <<>>
    BY <1>3 DEF Str
  <2> QED BY <2>1, Zenon DEF Prefix
<1>5. AsSent(Parse(raw), g) /\ Parse(raw).class = Class(raw)
  BY <1>1, <1>3, <1>4, ParseFrame, Zenon
<1>6. Class(raw) = "GetRsp"
  <2>1. Prefix(Header(g), raw)
    BY <1>1, <1>4, LayoutPieces, Zenon
  <2>2. raw[1] = g.magic /\ HDR_GET(raw).op = g.op
    BY <1>1, <1>3, <2>1, HeaderRead, SMT
  <2> HIDE DEF raw
  <2>3. raw[1] = 129 /\ HDR_GET(raw).op = OpCode.GET
    BY <1>1, <2>2, Zenon
  <2>5. OpCode.GET \notin {OpCode.ADD, OpCode.REPLACE}
    BY OpCodes
  <2> QED BY <2>3, <2>5, SMT DEF Class
<1> HIDE DEF raw
<1>7. Parse(raw).vb = g.vb /\ Parse(raw).cas = g.cas /\ Parse(raw).flags = FlagsOf(g)
  BY <1>5, <1>6, Zenon DEF AsSent
<1>8. r.status = NO_ERROR => FlagsOf(g) = r.flags
  <2> SUFFICES ASSUME r.status = NO_ERROR PROVE FlagsOf(g) = r.flags
    BY Zenon
  <2>1. r.flags \in Str /\ Len(r.flags) = 4
    BY ResultFields, FieldLen, Zenon DEF Str
  <2>2. r.flags # <<>> /\ g.op # OpCode.TAP_MUTATE
    <3>1. r.flags # <<>>
      BY <2>1, EmptyLen, Zenon
    <3>2. OpCode.GET # OpCode.TAP_MUTATE
      BY OpCodes
    <3> QED BY <1>1, <3>1, <3>2, Zenon
  <2>3. Bytes(r.flags, 0, 4) = r.flags
    BY <2>1 DEF Bytes, Str
  <2> QED BY <1>1, <2>2, <2>3, Zenon DEF FlagsOf
<1> QED BY <1>1, <1>2, <1>7, <1>8, Zenon

(* The flags and the expiry are one piece of the extras of a mutation.     *)
LEMMA MutationExtras ==
    ASSUME NEW e \in Str, Len(e) = 16
    PROVE  write(Bytes(e, 8, 4)) \o write(Bytes(e, 12, 4)) = Bytes(e, 8, 8)
<1> DEFINE a == Bytes(e, 8, 4)
           b == Bytes(e, 12, 4)
           c == Bytes(e, 8, 8)
           x == a \o b
<1>0. /\ 8 \in Nat /\ 4 \in Nat /\ 12 \in Nat
      /\ 8 + 4 <= Len(e) /\ 12 + 4 <= Len(e) /\ 8 + 8 <= Len(e)
  OBVIOUS
<1>1. /\ a \in Str /\ Len(a) = 4 /\ \A i \in 1..4 : a[i] = e[8 + i]
      /\ b \in Str /\ Len(b) = 4 /\ \A i \in 1..4 : b[i] = e[12 + i]
      /\ c \in Str /\ Len(c) = 8 /\ \A i \in 1..8 : c[i] = e[8 + i]
  <2>0. \A first, w \in Nat : first + w <= Len(e) =>
            /\ Bytes(e, first, w) \in Str /\ Len(Bytes(e, first, w)) = w
            /\ \A i \in 1..w : Bytes(e, first, w)[i] = e[first + i]
    BY StrPieces, Zenon
  <2>1. a \in Str /\ Len(a) = 4 /\ \A i \in 1..4 : a[i] = e[8 + i]
    BY <1>0, <2>0, Zenon
  <2>2. b \in Str /\ Len(b) = 4 /\ \A i \in 1..4 : b[i] = e[12 + i]
    BY <1>0, <2>0, Zenon
  <2>3. c \in Str /\ Len(c) = 8 /\ \A i \in 1..8 : c[i] = e[8 + i]
    BY <1>0, <2>0, Zenon
  <2> QED BY <2>1, <2>2, <2>3, Zenon
<1> HIDE DEF a, b, c
<1>2. write(a) = a /\ write(b) = b
  BY <1>1, WriteKeeps, Zenon DEF Str
<1>3. /\ x \in Str /\ Len(x) = Len(a) + Len(b)
      /\ \A i \in 1..Len(a) : x[i] = a[i]
      /\ \A i \in 1..Len(b) : x[Len(a) + i] = b[i]
  <2>1. a \in Str /\ b \in Str
    BY <1>1, Zenon
  <2>2. \A s, u \in Str :
          /\ s \o u \in Str /\ Len(s \o u) = Len(s) + Len(u)
          /\ \A i \in 1..Len(s) : (s \o u)[i] = s[i]
          /\ \A i \in 1..Len(u) : (s \o u)[Len(s) + i] = u[i]
    BY Concat, ZenonT(30)
  <2> QED BY <2>1, <2>2, Zenon
<1> HIDE DEF x
<1>4. Len(x) = Len(c)
  BY <1>1, <1>3
<1>5. ASSUME NEW i \in 1..Len(x) PROVE x[i] = c[i]
  <2>1. CASE i \in 1..4
    BY <1>1, <1>3, <1>4, <2>1
  <2>2. CASE i \notin 1..4
    <3>1. i - 4 \in 1..4 /\ i = 4 + (i - 4) /\ i \in 1..8 /\ 12 + (i - 4) = 8 + i
      BY <1>1, <1>4, <2>2
    <3>2. x[4 + (i - 4)] = b[i - 4] /\ b[i - 4] = e[12 + (i - 4)] /\ c[i] = e[8 + i]
      BY <1>1, <1>3, <3>1, Zenon
    <3> QED BY <3>1, <3>2, Zenon
  <2> QED BY <2>1, <2>2, Zenon
<1>6. x = c
  BY <1>1, <1>3, <1>4, <1>5, Equal, Zenon
<1> QED BY <1>2, <1>6, Zenon DEF x, a, b, c

(* The ADD or REPLACE of a mutation.                                       *)
MutationFrame(g, f, r) ==
    /\ g.magic = 128 /\ g.opaque = Zero(4) /\ g.vb = r.vbucket
    /\ g.extra = Bytes(f.extra, 8, 8) /\ g.key = f.key /\ g.value = f.value
    /\ g.op = IF r.status = KEY_NOT_FOUND THEN OpCode.ADD
              ELSE IF Earlier(r.flags, Bytes(f.extra, 8, 4)) THEN OpCode.REPLACE
              ELSE f.op
    /\ g.cas = IF r.status = NO_ERROR THEN r.cas ELSE Zero(8)

LEMMA MutationFields ==
    ASSUME NEW f, NEW r, f.op = OpCode.TAP_MUTATE
    PROVE  MutationFrame(Reference(f, r), f, r)
<1> DEFINE op == IF r.status = KEY_NOT_FOUND THEN OpCode.ADD
                 ELSE IF Earlier(r.flags, Bytes(f.extra, 8, 4)) THEN OpCode.REPLACE
                 ELSE f.op
           cas == IF r.status = NO_ERROR THEN r.cas ELSE Zero(8)
           g == Reference(f, r)
<1>1. g = [NoFrame EXCEPT !.magic = 128, !.op = op, !.vb = r.vbucket, !.cas = cas,
              !.extra = Bytes(f.extra, 8, 8), !.key = f.key, !.value = f.value]
  BY Zenon DEF Reference
<1> HIDE DEF op, cas, g
<1>2. /\ g.magic = 128 /\ g.opaque = Zero(4) /\ g.op = op /\ g.vb = r.vbucket /\ g.cas = cas
      /\ g.extra = Bytes(f.extra, 8, 8) /\ g.key = f.key /\ g.value = f.value
  BY <1>1 DEF NoFrame
<1>3. MutationFrame(g, f, r)
  BY <1>2, Zenon DEF op, cas, MutationFrame
<1> QED BY <1>3, Zenon DEF g

Added(f, r) ==
    to_wire(SetAddReplaceReq(OpCode.ADD, f.key, r.vbucket, f.value, Zero(8),
                             Bytes(f.extra, 8, 4), Bytes(f.extra, 12, 4)))

Replaced(f, r) ==
    to_wire(SetAddReplaceReq(OpCode.REPLACE, f.key, r.vbucket, f.value, r.cas,
                             Bytes(f.extra, 8, 4), Bytes(f.extra, 12, 4)))

LEMMA MutationStores ==
    ASSUME NEW f, ProtocolFrame(f), f.magic = 128, f.op = OpCode.TAP_MUTATE, NEW r \in Results
    PROVE  /\ r.status = KEY_NOT_FOUND => Added(f, r) = Layout(Reference(f, r))
           /\ r.status = NO_ERROR /\ Earlier(r.flags, Bytes(f.extra, 8, 4)) =>
                  Replaced(f, r) = Layout(Reference(f, r))
<1> DEFINE g == Reference(f, r)
           flags == Bytes(f.extra, 8, 4)
           expiry == Bytes(f.extra, 12, 4)
<1>0. MutationFrame(g, f, r) /\ r.vbucket \in Field(2) /\ r.cas \in Field(8)
  BY MutationFields, ResultFields, Zenon
<1>1. /\ g.magic = 128 /\ g.opaque = Zero(4) /\ g.vb = r.vbucket
      /\ g.extra = write(flags) \o write(expiry) /\ g.key = f.key /\ g.value = f.value
  <2>1. f.extra \in Str
    BY FrameFields, Zenon
  <2>2. Len(f.extra) = 16
    BY Zenon DEF ProtocolFrame
  <2>3. write(flags) \o write(expiry) = Bytes(f.extra, 8, 8)
    BY <2>1, <2>2, MutationExtras, Zenon
  <2> HIDE DEF g, flags, expiry
  <2> QED BY <1>0, <2>3, Zenon DEF MutationFrame
<1>2. Zero(8) \in Field(8)
  BY WriteFields, Zenon
<1> HIDE DEF g
<1>4. r.status = KEY_NOT_FOUND => g.op = OpCode.ADD /\ g.cas = Zero(8)
  BY <1>0, Statuses, Zenon DEF MutationFrame
<1>5. r.status = NO_ERROR /\ Earlier(r.flags, flags) => g.op = OpCode.REPLACE /\ g.cas = r.cas
  BY <1>0, Statuses, Zenon DEF MutationFrame
<1> HIDE DEF flags, expiry
<1>3. ASSUME NEW op, NEW cas \in Field(8), g.op = op, g.cas = cas
      PROVE  to_wire(SetAddReplaceReq(op, f.key, r.vbucket, f.value, cas, flags, expiry))
                 = Layout(g)
  <2>1. StoreFrame(g, op, f.key, r.vbucket, f.value, cas, flags, expiry)
    BY <1>0, <1>1, <1>3, Zenon DEF StoreFrame
  <2> QED BY <2>1, StoreBytes, SMT
<1>6. ASSUME r.status = KEY_NOT_FOUND PROVE Added(f, r) = Layout(g)
  <2>1. g.op = OpCode.ADD /\ g.cas = Zero(8)
    BY <1>4, <1>6, Zenon
  <2>2. to_wire(SetAddReplaceReq(OpCode.ADD, f.key, r.vbucket, f.value, Zero(8), flags, expiry))
            = Layout(g)
    BY <1>2, <1>3, <2>1, ZenonT(30)
  <2> QED BY <2>2, Zenon DEF Added, flags, expiry
<1>7. ASSUME r.status = NO_ERROR, Earlier(r.flags, flags) PROVE Replaced(f, r) = Layout(g)
  <2>1. g.op = OpCode.REPLACE /\ g.cas = r.cas
    BY <1>5, <1>7, Zenon
  <2>2. to_wire(SetAddReplaceReq(OpCode.REPLACE, f.key, r.vbucket, f.value, r.cas, flags, expiry))
            = Layout(g)
    BY <1>0, <1>3, <2>1, ZenonT(30)
  <2> QED BY <2>2, Zenon DEF Replaced, flags, expiry
<1> QED BY <1>6, <1>7, Zenon DEF g, flags

LEMMA MutationAnswer ==
    ASSUME NEW f, ProtocolFrame(f), f.magic = 128, f.op = OpCode.TAP_MUTATE,
           NEW q, q.key = f.key, q.value = f.value, q.flags = FlagsOf(f),
           q.expiry = ExpiryOf(f), NEW r \in Results,
           NEW m \in AddOrReplace(q, LocalAnswer(r), r.vbucket)
    PROVE  to_wire(m) = Layout(Reference(f, r))
<1> DEFINE flags == Bytes(f.extra, 8, 4)
           expiry == Bytes(f.extra, 12, 4)
<1>1. /\ LocalAnswer(r).vb = r.status /\ LocalAnswer(r).cas = r.cas
      /\ r.status = NO_ERROR => LocalAnswer(r).flags = r.flags
  BY LocalAnswerFields, Zenon
<1>2. q.flags = flags /\ q.expiry = expiry
  BY Zenon DEF FlagsOf, ExpiryOf
<1>3. /\ r.status = KEY_NOT_FOUND => Added(f, r) = Layout(Reference(f, r))
      /\ r.status = NO_ERROR /\ Earlier(r.flags, flags) =>
             Replaced(f, r) = Layout(Reference(f, r))
  BY MutationStores, Zenon
<1> HIDE DEF flags, expiry
<1>4. CASE r.status = KEY_NOT_FOUND
  <2>1. m = SetAddReplaceReq(OpCode.ADD, q.key, r.vbucket, q.value, Zero(8), q.flags, q.expiry)
    BY <1>1, <1>4, Zenon DEF AddOrReplace
  <2>2. m = SetAddReplaceReq(OpCode.ADD, f.key, r.vbucket, f.value, Zero(8), flags, expiry)
    BY <1>2, <2>1, Zenon
  <2>3. to_wire(m) = Added(f, r)
    BY <2>2, Zenon DEF Added, flags, expiry
  <2> QED BY <1>3, <1>4, <2>3, Zenon
<1>5. CASE r.status # KEY_NOT_FOUND
  <2>1. /\ r.status = NO_ERROR /\ Earlier(r.flags, q.flags)
        /\ m = SetAddReplaceReq(OpCode.REPLACE, q.key, r.vbucket, q.value, r.cas,
                                q.flags, q.expiry)
    BY <1>1, <1>5, Zenon DEF AddOrReplace
  <2>2. m = SetAddReplaceReq(OpCode.REPLACE, f.key, r.vbucket, f.value, r.cas, flags, expiry)
    BY <1>2, <2>1, Zenon
  <2>3. to_wire(m) = Replaced(f, r)
    BY <2>2, Zenon DEF Replaced, flags, expiry
  <2>4. Earlier(r.flags, flags)
    BY <1>2, <2>1, Zenon
  <2> QED BY <1>3, <2>1, <2>3, <2>4, Zenon
<1> QED BY <1>4, <1>5, Zenon

(* What is sent for a message is what the protocol has for its frame.      *)
LEMMA AnswerBytes ==
    ASSUME NEW f, ProtocolFrame(f), NEW raw \in Str, Prefix(Layout(f), raw), NEW r \in Results,
           NEW m \in Answers(Parse(raw), r)
    PROVE  to_wire(m) = Layout(Reference(f, r))
<1> DEFINE q == Parse(raw)
<1>1. AsSent(q, f) /\ q.class = Class(raw)
  BY ParseFrame, Zenon
<1>2. Prefix(Header(f), raw)
  BY LayoutPieces, Zenon
<1>3. ClassOf(q.class, f)
  BY <1>1, <1>2, ClassFits, Zenon
<1>4. q.op = f.op /\ q.key = f.key /\ q.opaque = f.opaque
  BY <1>1, Zenon DEF AsSent
<1> HIDE DEF q
<1>5. CASE q.class = "GetReq"
  <2>1. m = GetRsp(r.status, q.opaque, r.cas, r.value, Zero(4),
                   IF response_needs_key(q) THEN q.key ELSE <<>>)
    BY <1>5 DEF Answers, q
  <2>2. f.magic = 128 /\ f.op \in {OpCode.GET, OpCode.GETK}
    BY <1>3, <1>5, Zenon DEF ClassOf
  <2> QED BY <1>4, <2>1, <2>2, GetAnswer, Zenon
<1>6. CASE q.class = "SetAddReplaceReq"
  <2>1. m = SetAddReplaceRsp(q.op, r.status, q.opaque)
    BY <1>6 DEF Answers, q
  <2>2. f.op \in Stores
    BY <1>3, <1>6, Zenon DEF ClassOf
  <2>3. f.op \notin {OpCode.GET, OpCode.GETK, OpCode.TAP_MUTATE} /\ f.op # OpCode.VERSION
    BY <2>2, OpCodes
  <2>4. PlainRsp(m, f.op, r.status, f.opaque, <<>>)
    <3>1. PlainRsp(m, q.op, <<0, r.status[2]>>, q.opaque, <<>>)
      BY <2>1, PlainFields, Zenon
    <3>2. <<0, r.status[2]>> = r.status
      BY ResultFields, Zenon
    <3> QED BY <1>4, <3>1, <3>2, Zenon
  <2> QED BY <2>3, <2>4, PlainAnswer, Zenon
<1>7. CASE q.class = "DeleteReq"
  <2>1. m = DeleteRsp(r.status, q.opaque)
    BY <1>7 DEF Answers, q
  <2>2. f.op = OpCode.DELETE
    BY <1>3, <1>7, Zenon DEF ClassOf
  <2>3. f.op \notin {OpCode.GET, OpCode.GETK, OpCode.TAP_MUTATE} /\ f.op # OpCode.VERSION
    BY <2>2, OpCodes
  <2>4. PlainRsp(m, f.op, r.status, f.opaque, <<>>)
    <3>1. PlainRsp(m, OpCode.DELETE, <<0, r.status[2]>>, q.opaque, <<>>)
      BY <2>1, PlainFields, Zenon
    <3>2. <<0, r.status[2]>> = r.status
      BY ResultFields, Zenon
    <3> QED BY <1>4, <2>2, <3>1, <3>2, Zenon
  <2> QED BY <2>3, <2>4, PlainAnswer, Zenon
<1>8. CASE q.class = "VersionReq"
  <2>1. m = VersionRsp(NO_ERROR, q.opaque, Version)
    BY <1>8 DEF Answers, q
  <2>2. f.op = OpCode.VERSION
    BY <1>3, <1>8, Zenon DEF ClassOf
  <2>3. f.op \notin {OpCode.GET, OpCode.GETK, OpCode.TAP_MUTATE}
    BY <2>2, OpCodes
  <2>4. PlainRsp(m, f.op, NO_ERROR, f.opaque, Version)
    <3>1. PlainRsp(m, OpCode.VERSION, NO_ERROR, q.opaque, Version)
      BY <2>1, PlainFields, Zenon
    <3> QED BY <1>4, <2>2, <3>1, Zenon
  <2> QED BY <2>2, <2>3, <2>4, PlainAnswer, Zenon
<1>9. CASE q.class = "TapMutateReq"
  <2>1. m \in AddOrReplace(q, LocalAnswer(r), r.vbucket)
    BY <1>9 DEF Answers, q
  <2>2. q.value = f.value /\ q.flags = FlagsOf(f) /\ q.expiry = ExpiryOf(f)
    BY <1>1, <1>9, Zenon DEF AsSent
  <2>3. f.magic = 128 /\ f.op = OpCode.TAP_MUTATE
    BY <1>3, <1>9, Zenon DEF ClassOf
  <2> QED BY <1>4, <2>1, <2>2, <2>3, MutationAnswer, Zenon
<1>10. q.class \in {"GetReq", "SetAddReplaceReq", "DeleteReq", "VersionReq", "TapMutateReq"}
  BY DEF Answers, q
<1> QED BY <1>5, <1>6, <1>7, <1>8, <1>9, <1>10, Zenon

-----------------------------------------------------------------------------
(* Connection::recv: a message is taken from the buffer when, and only     *)
(* when, all of its bytes are there.                                       *)

LEMMA Complete ==
    ASSUME NEW f, ProtocolFrame(f), NEW b \in Str, NEW w \in Str,
           Prefix(Layout(f), b \o w), is_msg_complete(b)
    PROVE  Prefix(Layout(f), b) /\ b = Layout(f) \o Trim(b) /\ Trim(b) \in Str
<1>1. Prefix(Header(f), b \o w)
  BY LayoutPieces, Zenon
<1>2. Header(f) \in Str /\ Len(Header(f)) = 24
  BY HeaderPieces, Zenon
<1>3. 24 <= Len(b)
  BY Concat DEF is_msg_complete, Hdr
<1>4. Prefix(Header(f), b)
  BY <1>1, <1>2, <1>3, PrefixOfFirst, Zenon
<1>5. HDR_GET(b).body_length = Body(f)
  BY <1>4, HeaderRead
<1>6. Layout(f) \in Str /\ Len(Layout(f)) = 24 + Body(f)
  BY LayoutPieces, Zenon
<1>7. Len(Layout(f)) <= Len(b)
  <2>1. Len(b) \in Nat /\ Body(f) \in Nat
    BY Concat, FrameFields, Zenon
  <2>2. Len(b) >= 24 + Body(f)
    BY <1>5, Zenon DEF is_msg_complete, Hdr
  <2> QED BY <1>6, <2>1, <2>2
<1>8. Trim(b) = SubSeq(b, Len(Layout(f)) + 1, Len(b))
  BY <1>5, <1>6, Zenon DEF Trim, Hdr
<1>9. LET c == SubSeq(b, Len(Layout(f)) + 1, Len(b)) IN
      Prefix(Layout(f), b) /\ b = Layout(f) \o c /\ c \in Str
  <2>1. Layout(f) \in Str
    BY <1>6, Zenon
  <2> QED BY <1>7, <2>1, PrefixOfFirst, Zenon
<1> QED BY <1>8, <1>9, Zenon

LEMMA Cancel ==
    ASSUME NEW a \in Str, NEW b \in Str, NEW c \in Str, a \o b = a \o c
    PROVE  b = c
<1>1. /\ Len(a \o b) = Len(a) + Len(b) /\ Len(a) \in Nat /\ Len(b) \in Nat
      /\ \A i \in 1..Len(b) : (a \o b)[Len(a) + i] = b[i]
  BY Concat, Zenon
<1>2. /\ Len(a \o c) = Len(a) + Len(c) /\ Len(c) \in Nat
      /\ \A i \in 1..Len(c) : (a \o c)[Len(a) + i] = c[i]
  BY Concat, Zenon
<1>3. Len(a) + Len(b) = Len(a) + Len(c)
  BY <1>1, <1>2, Zenon
<1>4. Len(b) = Len(c)
  BY <1>1, <1>2, <1>3, SMT
<1>5. \A i \in 1..Len(b) : b[i] = c[i]
  BY <1>1, <1>2, <1>4, Zenon
<1> QED BY <1>4, <1>5, Equal, Zenon

-----------------------------------------------------------------------------
(***************************************************************************)
(* The inductive invariant.  rest[i] is what is still to come after the    *)
(* i-th frame; what is in the buffer and on the wire is what follows the   *)
(* frames handled, so the buffer begins with the next one.                 *)
(***************************************************************************)
Stream(s, h, b, w) ==
    \E rest \in [Nat -> Str] :
        /\ rest[h] = b \o w /\ rest[Len(s)] = <<>>
        /\ \A i \in h..(Len(s) - 1) : rest[i] = Layout(s[i + 1]) \o rest[i + 1]

Inv ==
    /\ sent \in Seq(Frames) /\ handled \in 0..Len(sent)
    /\ buffer \in Str /\ wire \in Str
    /\ Stream(sent, handled, buffer, wire)
    /\ handled > 0 => AsSent(msg, sent[handled])
    /\ out = Layout(expected)

LEMMA EmptyStream == Stream(<<>>, 0, <<>>, <<>>) /\ <<>> \in Str
<1> DEFINE rest == [i \in Nat |-> <<>>]
<1>1. <<>> \in Str /\ <<>> \o <<>> = <<>>
  BY DEF Str
<1>2. rest \in [Nat -> Str]
  BY <1>1, Zenon
<1>3. rest[0] = <<>> /\ rest[Len(<<>>)] = <<>> /\ \A i \in 0..(Len(<<>>) - 1) : FALSE
  OBVIOUS
<1> HIDE DEF rest
<1> QED BY <1>1, <1>2, <1>3, Zenon DEF Stream

(* A frame sent goes to the end.                                           *)
LEMMA StreamSends ==
    ASSUME NEW s \in Seq(Frames), NEW h \in 0..Len(s), NEW b \in Str, NEW w \in Str,
           NEW f \in Frames, Stream(s, h, b, w)
    PROVE  /\ Stream(Append(s, f), h, b, w \o Layout(f)) /\ w \o Layout(f) \in Str
           /\ Append(s, f) \in Seq(Frames) /\ h \in 0..Len(Append(s, f))
           /\ h > 0 => Append(s, f)[h] = s[h]
<1> DEFINE t == Append(s, f)
           d == Layout(f)
           n == Len(s)
<1>0. Layout(f) \in Str
  BY FramesAssumption, LayoutPieces, Zenon
<1>1. /\ t \in Seq(Frames) /\ Len(t) = n + 1 /\ n \in Nat /\ t[n + 1] = f
      /\ \A i \in 1..n : t[i] = s[i]
  OBVIOUS
<1>2. PICK rest \in [Nat -> Str] :
          /\ rest[h] = b \o w /\ rest[n] = <<>>
          /\ \A i \in h..(n - 1) : rest[i] = Layout(s[i + 1]) \o rest[i + 1]
  BY Zenon DEF Stream
<1> DEFINE more == [i \in Nat |-> IF i = n + 1 THEN <<>> ELSE rest[i] \o d]
<1>3. \A i \in Nat : rest[i] \in Str /\ rest[i] \o d \in Str
  BY <1>0, <1>2, Concat, Zenon
<1>4. <<>> \in Str /\ <<>> \o d = d /\ d \o <<>> = d
  BY <1>0 DEF Str
<1> HIDE DEF d, t, n
<1>5. more \in [Nat -> Str]
  BY <1>3, <1>4, Zenon
<1>6. \A i \in Nat : more[i] = IF i = n + 1 THEN <<>> ELSE rest[i] \o d
  BY Zenon
<1> HIDE DEF more
<1>7. /\ h \in Nat /\ h # n + 1 /\ n # n + 1 /\ n + 1 \in Nat /\ h \in 0..(n + 1)
      /\ h > 0 => h \in 1..n
  BY <1>1 DEF n
<1>8. more[h] = b \o (w \o d)
  <2>1. more[h] = (b \o w) \o d
    BY <1>2, <1>6, <1>7, Zenon
  <2>2. (b \o w) \o d = b \o (w \o d)
    BY <1>0, Associative, Zenon DEF d
  <2> QED BY <2>1, <2>2, Zenon
<1>9. more[n + 1] = <<>>
  BY <1>6, <1>7, Zenon
<1>10. ASSUME NEW i \in h..((n + 1) - 1) PROVE more[i] = Layout(t[i + 1]) \o more[i + 1]
  <2>0. i \in Nat /\ i + 1 \in Nat /\ i # n + 1 /\ (i # n => i \in h..(n - 1) /\ i + 1 \in 1..n)
        /\ (i # n => i + 1 # n + 1)
    BY <1>1, <1>7, SMT
  <2>1. more[i] = rest[i] \o d
    BY <1>6, <2>0, Zenon
  <2>2. CASE i = n
    <3>1. more[i] = d
      BY <1>2, <1>4, <2>1, <2>2, Zenon
    <3>2. t[i + 1] = f /\ more[i + 1] = <<>>
      BY <1>1, <1>9, <2>2, Zenon
    <3> QED BY <1>4, <3>1, <3>2, Zenon DEF d
  <2>3. CASE i # n
    <3>1. rest[i] = Layout(s[i + 1]) \o rest[i + 1] /\ t[i + 1] = s[i + 1]
      BY <1>1, <1>2, <2>0, <2>3, Zenon
    <3>2. more[i + 1] = rest[i + 1] \o d
      BY <1>6, <2>0, <2>3, Zenon
    <3>3. s[i + 1] \in Frames
      BY <2>0, <2>3 DEF n
    <3>4. Layout(s[i + 1]) \in Str
      BY <3>3, FramesAssumption, LayoutPieces, Zenon
    <3>5. rest[i + 1] \in Str /\ d \in Str
      BY <1>0, <1>3, <2>0, Zenon DEF d
    <3>6. (Layout(s[i + 1]) \o rest[i + 1]) \o d = Layout(s[i + 1]) \o (rest[i + 1] \o d)
      BY <3>4, <3>5, Associative, Zenon
    <3> QED BY <2>1, <3>1, <3>2, <3>6, Zenon
  <2> QED BY <2>2, <2>3, Zenon
<1>11. Stream(t, h, b, w \o d)
  BY <1>1, <1>5, <1>8, <1>9, <1>10, Zenon DEF Stream
<1>12. w \o d \in Str
  BY <1>0, Concat, Zenon DEF d
<1>13. h > 0 => t[h] = s[h]
  BY <1>1, <1>7, Zenon
<1>14. t \in Seq(Frames) /\ h \in 0..Len(t)
  BY <1>1, <1>7, Zenon
<1> QED BY <1>11, <1>12, <1>13, <1>14, Zenon DEF t, d

(* Bytes received are moved from the wire to the buffer.                   *)
LEMMA StreamReceives ==
    ASSUME NEW s, NEW h, NEW b \in Str, NEW w \in Str, NEW n \in DOMAIN w,
           Stream(s, h, b, w)
    PROVE  /\ Stream(s, h, b \o SubSeq(w, 1, n), SubSeq(w, n + 1, Len(w)))
           /\ b \o SubSeq(w, 1, n) \in Str /\ SubSeq(w, n + 1, Len(w)) \in Str
<1> DEFINE x == SubSeq(w, 1, n)
           y == SubSeq(w, n + 1, Len(w))
<1>0. Len(w) \in Nat /\ n \in 1..Len(w) /\ n \in 0..Len(w)
  BY DEF Str
<1>1. x \in Str /\ Len(x) = n /\ \A i \in 1..n : x[i] = w[i]
  BY <1>0 DEF Str
<1>2. y \in Str /\ Len(y) = Len(w) - n /\ \A i \in 1..Len(y) : y[i] = w[n + i]
  BY <1>0, StrPieces, Zenon
<1> HIDE DEF x, y
<1> DEFINE z == x \o y
<1>3. /\ z \in Str /\ Len(z) = Len(x) + Len(y)
      /\ \A i \in 1..Len(x) : z[i] = x[i]
      /\ \A i \in 1..Len(y) : z[Len(x) + i] = y[i]
  BY <1>1, <1>2, Concat, Zenon
<1> HIDE DEF z
<1>4. Len(z) = Len(w)
  BY <1>0, <1>1, <1>2, <1>3
<1>5. ASSUME NEW i \in 1..Len(z) PROVE z[i] = w[i]
  <2>1. CASE i \in 1..n
    BY <1>1, <1>3, <2>1, Zenon
  <2>2. CASE i \notin 1..n
    <3>1. i - n \in 1..Len(y) /\ i = n + (i - n)
      BY <1>0, <1>2, <1>4, <2>2
    <3>2. z[n + (i - n)] = w[n + (i - n)]
      BY <1>1, <1>2, <1>3, <3>1, Zenon
    <3> QED BY <3>1, <3>2, Zenon
  <2> QED BY <2>1, <2>2, Zenon
<1>6. x \o y = w
  BY <1>3, <1>4, <1>5, Equal, Zenon DEF z
<1>7. (b \o x) \o y = b \o (x \o y)
  BY <1>1, <1>2, Associative, Zenon
<1>8. b \o x \in Str
  BY <1>1, Concat, Zenon
<1>9. b \o w = (b \o x) \o y
  BY <1>6, <1>7, Zenon
<1>10. Stream(s, h, b \o x, y)
  BY <1>9, Zenon DEF Stream
<1> QED BY <1>2, <1>8, <1>10, Zenon DEF x, y

(* The buffer, when a message of it is complete, begins with the next of   *)
(* the frames sent, and the frames after that follow.                      *)
LEMMA StreamHandles ==
    ASSUME NEW s \in Seq(Frames), NEW h \in 0..Len(s), NEW b \in Str, NEW w \in Str,
           Stream(s, h, b, w), is_msg_complete(b)
    PROVE  /\ h + 1 \in 0..Len(s) /\ h + 1 > 0 /\ s[h + 1] \in Frames
           /\ Prefix(Layout(s[h + 1]), b) /\ Trim(b) \in Str
           /\ Stream(s, h + 1, Trim(b), w)
<1> DEFINE n == Len(s)
           f == s[h + 1]
           d == Layout(f)
<1>0. n \in Nat /\ h \in Nat /\ h <= n
  OBVIOUS
<1>1. PICK rest \in [Nat -> Str] :
          /\ rest[h] = b \o w /\ rest[n] = <<>>
          /\ \A i \in h..(n - 1) : rest[i] = Layout(s[i + 1]) \o rest[i + 1]
  BY Zenon DEF Stream
<1>2. h # n
  <2> SUFFICES ASSUME h = n PROVE FALSE
    BY Zenon
  <2>1. b \o w = <<>>
    BY <1>1, Zenon
  <2>2. Len(b \o w) = Len(b) + Len(w) /\ Len(b) \in Nat /\ Len(w) \in Nat
    BY Concat, Zenon
  <2>3. Len(b) + Len(w) = 0
    BY <2>1, <2>2, EmptyLen, Zenon
  <2>4. Len(b) = 0
    BY <2>2, <2>3, SMT
  <2>5. Len(b) >= 24
    BY Zenon DEF is_msg_complete, Hdr
  <2> QED BY <2>4, <2>5
<1>3. h \in h..(n - 1) /\ h + 1 \in 1..n /\ h + 1 \in 0..n /\ h + 1 > 0 /\ h + 1 \in Nat
      /\ \A i \in (h + 1)..(n - 1) : i \in h..(n - 1)
  BY <1>0, <1>2
<1>4. f \in Frames
  BY <1>3
<1>5. ProtocolFrame(f) /\ d \in Str
  BY <1>4, FramesAssumption, LayoutPieces, Zenon
<1> HIDE DEF f
<1>6. b \o w = d \o rest[h + 1] /\ rest[h + 1] \in Str
  BY <1>1, <1>3, Zenon DEF f
<1> HIDE DEF n
<1>7. Prefix(d, b \o w)
  BY <1>6, Zenon DEF Prefix
<1>8. Prefix(d, b) /\ b = d \o Trim(b) /\ Trim(b) \in Str
  BY <1>5, <1>7, Complete, Zenon
<1> HIDE DEF d
<1>9. rest[h + 1] = Trim(b) \o w
  <2>0. (d \o Trim(b)) \o w = d \o (Trim(b) \o w)
    BY <1>5, <1>8, Associative, Zenon
  <2>1. Trim(b) \o w \in Str
    BY <1>8, Concat, Zenon
  <2>2. d \o rest[h + 1] = d \o (Trim(b) \o w)
    BY <1>6, <1>8, <2>0, Zenon
  <2> QED BY <1>5, <1>6, <2>1, <2>2, Cancel, Zenon
<1>10. Stream(s, h + 1, Trim(b), w)
  BY <1>1, <1>3, <1>9, Zenon DEF Stream, n
<1> QED BY <1>3, <1>4, <1>8, <1>10, Zenon DEF f, d, n

(* A new connection: nothing sent, and its request has the protocol's      *)
(* bytes.                                                                  *)
LEMMA Connects ==
    ASSUME NEW m \in Requests
    PROVE  /\ <<>> \in Seq(Frames) /\ 0 \in 0..Len(<<>>) /\ ~(0 > 0)
           /\ <<>> \in Str /\ Stream(<<>>, 0, <<>>, <<>>)
           /\ to_wire(m) = Layout(RequestFrame(m))
<1>1. <<>> \in Seq(Frames) /\ 0 \in 0..Len(<<>>) /\ ~(0 > 0)
  OBVIOUS
<1> QED BY <1>1, EmptyStream, RequestBytes, Zenon

LEMMA InitInv == Init => Inv
<1> SUFFICES ASSUME Init PROVE Inv
  BY Zenon
<1>1. PICK m \in Requests : out = to_wire(m) /\ expected = RequestFrame(m)
  BY Zenon DEF Init
<1>2. sent = <<>> /\ wire = <<>> /\ buffer = <<>> /\ handled = 0
  BY Zenon DEF Init
<1> QED BY <1>1, <1>2, Connects, Zenon DEF Inv

LEMMA NextInv == Inv /\ [Next]_vars => Inv'
<1> SUFFICES ASSUME Inv, [Next]_vars PROVE Inv'
  BY Zenon
<1>0. /\ sent \in Seq(Frames) /\ handled \in 0..Len(sent) /\ buffer \in Str /\ wire \in Str
      /\ Stream(sent, handled, buffer, wire) /\ (handled > 0 => AsSent(msg, sent[handled]))
      /\ out = Layout(expected)
  BY Zenon DEF Inv
<1>1. ASSUME NEW f \in Frames, PeerSends(f) PROVE Inv'
  <2>1. /\ sent' = Append(sent, f) /\ wire' = wire \o Layout(f) /\ buffer' = buffer
        /\ handled' = handled /\ msg' = msg /\ out' = out /\ expected' = expected
    BY <1>1, Zenon DEF PeerSends
  <2>2. /\ Stream(sent', handled, buffer, wire') /\ wire' \in Str /\ sent' \in Seq(Frames)
        /\ handled \in 0..Len(sent') /\ (handled > 0 => sent'[handled] = sent[handled])
    <3>1. /\ Stream(Append(sent, f), handled, buffer, wire \o Layout(f))
          /\ wire \o Layout(f) \in Str /\ Append(sent, f) \in Seq(Frames)
          /\ handled \in 0..Len(Append(sent, f))
          /\ handled > 0 => Append(sent, f)[handled] = sent[handled]
      <4>1. /\ sent \in Seq(Frames) /\ handled \in 0..Len(sent) /\ buffer \in Str /\ wire \in Str
            /\ Stream(sent, handled, buffer, wire)
        BY <1>0, Zenon
      <4> QED BY <4>1, StreamSends, ZenonT(30)
    <3> QED BY <2>1, <3>1, Zenon
  <2> QED BY <1>0, <2>1, <2>2, Zenon DEF Inv
<1>2. ASSUME Receive PROVE Inv'
  <2>1. PICK n \in DOMAIN wire :
            /\ buffer' = buffer \o SubSeq(wire, 1, n)
            /\ wire' = SubSeq(wire, n + 1, Len(wire))
    BY <1>2, Zenon DEF Receive
  <2>2. sent' = sent /\ handled' = handled /\ msg' = msg /\ out' = out /\ expected' = expected
    BY <1>2, Zenon DEF Receive
  <2>3. Stream(sent, handled, buffer', wire') /\ buffer' \in Str /\ wire' \in Str
    BY <1>0, <2>1, StreamReceives, Zenon
  <2> QED BY <1>0, <2>2, <2>3, Zenon DEF Inv
<1>3. ASSUME Handle PROVE Inv'
  <2> DEFINE f == sent[handled + 1]
  <2>1. /\ is_msg_complete(buffer) /\ msg' = Parse(buffer) /\ buffer' = Trim(buffer)
        /\ handled' = handled + 1 /\ sent' = sent /\ wire' = wire
    BY <1>3, Zenon DEF Handle, from_wire
  <2>2. /\ handled' \in 0..Len(sent) /\ f \in Frames /\ Prefix(Layout(f), buffer)
        /\ buffer' \in Str /\ Stream(sent, handled', buffer', wire)
    BY <1>0, <2>1, StreamHandles, Zenon
  <2>3. ProtocolFrame(f)
    BY <2>2, FramesAssumption, Zenon
  <2>4. sent'[handled'] = f
    BY <2>1, Zenon
  <2>5. PICK r \in Results :
            \/ Answers(msg', r) = {} /\ out' = out /\ expected' = expected
            \/ \E m \in Answers(msg', r) : out' = to_wire(m) /\ expected' = Reference(f, r)
    BY <1>3, Zenon DEF Handle
  <2> HIDE DEF f
  <2>6. AsSent(msg', f)
    BY <1>0, <2>1, <2>2, <2>3, ParseFrame, Zenon
  <2>7. out' = Layout(expected')
    <3>1. ASSUME NEW m \in Answers(Parse(buffer), r) PROVE to_wire(m) = Layout(Reference(f, r))
      BY <1>0, <2>2, <2>3, AnswerBytes, Zenon
    <3> QED BY <1>0, <2>1, <2>5, <3>1, Zenon
  <2> QED BY <1>0, <2>1, <2>2, <2>4, <2>6, <2>7, Zenon DEF Inv
<1>4. ASSUME Reconnect PROVE Inv'
  <2>1. PICK m \in Requests : out' = to_wire(m) /\ expected' = RequestFrame(m)
    BY <1>4, Zenon DEF Reconnect
  <2>2. sent' = <<>> /\ wire' = <<>> /\ buffer' = <<>> /\ handled' = 0
    BY <1>4, Zenon DEF Reconnect
  <2> QED BY <2>1, <2>2, Connects, Zenon DEF Inv
<1>5. ASSUME UNCHANGED vars PROVE Inv'
  BY <1>0, <1>5, SMT DEF Inv, vars
<1> QED BY <1>1, <1>2, <1>3, <1>4, <1>5, Zenon DEF Next

-----------------------------------------------------------------------------
LEMMA InvHolds == Spec => []Inv
BY InitInv, NextInv, PTL DEF Spec

(***************************************************************************)
(* from_wire and recv give the messages that were sent, in their order and *)
(* field by field, whatever the frames, however many there are and in      *)
(* whatever pieces ::recv hands over their bytes.                          *)
(***************************************************************************)
THEOREM AlwaysDecodedAsSent == Spec => []DecodedAsSent
<1>1. Inv => DecodedAsSent
  <2> SUFFICES ASSUME Inv, handled > 0 PROVE DecodedAsSent
    BY Zenon DEF DecodedAsSent
  <2>1. AsSent(msg, sent[handled])
    BY Zenon DEF Inv
  <2>2. handled <= Len(sent)
    BY DEF Inv
  <2> QED BY <2>1, <2>2, Zenon DEF DecodedAsSent, AsSent
<1> QED BY <1>1, InvHolds, PTL

(***************************************************************************)
(* to_wire gives the requests and responses the bytes the protocol has for *)
(* them, whatever the client's request and the backend's result: the 64-bit*)
(* CAS, the lengths, the opaque, the key of a GETK and the flags included. *)
(***************************************************************************)
THEOREM AlwaysSentIsProtocol == Spec => []SentIsProtocol
<1>1. Inv => SentIsProtocol
  BY Zenon DEF Inv, SentIsProtocol
<1> QED BY <1>1, InvHolds, PTL

(***************************************************************************)
(* The ADD or REPLACE that handle_tap_mutate makes of a TAP_MUTATE has the *)
(* key, value, flags and expiry of the record, whatever they are, and a    *)
(* REPLACE the CAS id of the local memcached's answer.                     *)
(***************************************************************************)
THEOREM AlwaysRecordKept == Spec => []RecordKept
<1>1. Inv => RecordKept
  BY Zenon DEF Inv, RecordKept
<1> QED BY <1>1, InvHolds, PTL
=============================================================================
