-------------------------- MODULE WireFormatProofs --------------------------
(***************************************************************************)
(* Every parser of the line protocol reads back what the runner wrote, and *)
(* the four parsers read any line with a whole header alike, for all sizes *)
(* of keys, nonces, associated data, messages, public keys and signatures  *)
(* two bytes can say: hence the invariants of WireFormat, for every choice *)
(* of its constants.                                                       *)
(***************************************************************************)
EXTENDS WireFormat, SequenceTheorems, TLAPS

Seqs == Seq(Byte)

LEMMA PartIs ==
  ASSUME NEW S, NEW s \in Seq(S), NEW m \in Nat \ {0}, NEW n \in Nat, n <= Len(s)
  PROVE  /\ SubSeq(s, m, n) \in Seq(S)
         /\ Len(SubSeq(s, m, n)) = IF m <= n THEN n - m + 1 ELSE 0
         /\ \A i \in 1 .. n - m + 1 : SubSeq(s, m, n)[i] = s[m + i - 1]
<1>1. \A i \in m .. n : s[i] \in S
  OBVIOUS
<1> QED BY <1>1, SubSeqProperties

(* A part of what is left of a string is a part of the string.             *)
LEMMA PartOfRest ==
  ASSUME NEW S, NEW s \in Seq(S), NEW a \in Nat, a <= Len(s),
         NEW b \in Nat, NEW c \in Nat, a + c <= Len(s)
  PROVE  SubSeq(SubSeq(s, a + 1, Len(s)), b + 1, c) = SubSeq(s, a + b + 1, a + c)
<1> DEFINE r == SubSeq(s, a + 1, Len(s))
           x == SubSeq(r, b + 1, c)
           y == SubSeq(s, a + b + 1, a + c)
<1>0. Len(s) \in Nat
  OBVIOUS
<1>1. r \in Seq(S) /\ Len(r) = Len(s) - a /\ \A i \in 1 .. Len(s) - a : r[i] = s[a + i]
  BY <1>0, PartIs
<1> HIDE DEF r
<1>2. /\ x \in Seq(S) /\ Len(x) = IF b + 1 <= c THEN c - b ELSE 0
      /\ \A i \in 1 .. c - b : x[i] = r[b + i]
  BY <1>0, <1>1, PartIs
<1>3. /\ y \in Seq(S) /\ Len(y) = IF b + 1 <= c THEN c - b ELSE 0
      /\ \A i \in 1 .. c - b : y[i] = s[a + b + i]
  BY <1>0, PartIs
<1> HIDE DEF x, y
<1>4. ASSUME NEW i \in 1 .. Len(x) PROVE x[i] = y[i]
  <2>1. i \in 1 .. c - b /\ b + i \in 1 .. Len(s) - a
    BY <1>0, <1>2
  <2>2. x[i] = r[b + i] /\ r[b + i] = s[a + (b + i)] /\ y[i] = s[a + b + i]
    BY <1>1, <1>2, <1>3, <2>1
  <2> QED BY <2>2
<1>5. x = y
  BY <1>2, <1>3, <1>4, SeqEqual
<1> QED BY <1>5 DEF x, y, r

(* What is before and what is behind in a concatenation.                   *)
LEMMA Joined ==
  ASSUME NEW S, NEW l \in Seq(S), NEW r \in Seq(S)
  PROVE  /\ l \o r \in Seq(S) /\ Len(l \o r) = Len(l) + Len(r)
         /\ Len(l) \in Nat /\ Len(r) \in Nat
         /\ \A i \in 1 .. Len(l) : (l \o r)[i] = l[i]
         /\ \A i \in 1 .. Len(r) : (l \o r)[Len(l) + i] = r[i]
BY ConcatProperties

LEMMA PartBefore ==
  ASSUME NEW S, NEW l \in Seq(S), NEW r \in Seq(S), NEW a \in Nat, NEW b \in Nat, b <= Len(l)
  PROVE  SubSeq(l \o r, a + 1, b) = SubSeq(l, a + 1, b)
<1> DEFINE w == l \o r
           x == SubSeq(w, a + 1, b)
           y == SubSeq(l, a + 1, b)
<1>1. /\ w \in Seq(S) /\ Len(w) = Len(l) + Len(r) /\ Len(l) \in Nat /\ Len(r) \in Nat
      /\ \A i \in 1 .. Len(l) : w[i] = l[i]
  BY ConcatProperties
<1> HIDE DEF w
<1>2. /\ x \in Seq(S) /\ Len(x) = IF a + 1 <= b THEN b - a ELSE 0
      /\ \A i \in 1 .. b - a : x[i] = w[a + i]
  BY <1>1, PartIs
<1>3. /\ y \in Seq(S) /\ Len(y) = IF a + 1 <= b THEN b - a ELSE 0
      /\ \A i \in 1 .. b - a : y[i] = l[a + i]
  BY <1>1, PartIs
<1> HIDE DEF x, y
<1>4. ASSUME NEW i \in 1 .. Len(x) PROVE x[i] = y[i]
  <2>1. i \in 1 .. b - a /\ a + i \in 1 .. Len(l)
    BY <1>1, <1>2
  <2> QED BY <1>1, <1>2, <1>3, <2>1
<1>5. x = y
  BY <1>2, <1>3, <1>4, SeqEqual
<1> QED BY <1>5 DEF x, y, w

LEMMA PartBehind ==
  ASSUME NEW S, NEW l \in Seq(S), NEW r \in Seq(S)
  PROVE  SubSeq(l \o r, Len(l) + 1, Len(l) + Len(r)) = r
<1> DEFINE w == l \o r
           x == SubSeq(w, Len(l) + 1, Len(l) + Len(r))
<1>1. /\ w \in Seq(S) /\ Len(w) = Len(l) + Len(r) /\ Len(l) \in Nat /\ Len(r) \in Nat
      /\ \A i \in 1 .. Len(r) : w[Len(l) + i] = r[i]
  BY ConcatProperties
<1> HIDE DEF w
<1>2. /\ x \in Seq(S) /\ Len(x) = Len(r)
      /\ \A i \in 1 .. Len(r) : x[i] = w[Len(l) + i]
  BY <1>1, PartIs
<1> HIDE DEF x
<1>5. x = r
  BY <1>1, <1>2, SeqEqual
<1> QED BY <1>5 DEF x, w

(* Two bytes say the length they were made from.                           *)
LEMMA TwoBytes ==
  ASSUME NEW n \in 0 .. Base * Base - 1
  PROVE  /\ Two(n) \in Seqs /\ Len(Two(n)) = 2
         /\ Two(n)[1] * Base + Two(n)[2] = n
<1>1. Base \in Nat /\ Base > 1
  BY WireConstantsOK DEF WireConstantsOK
<1> DEFINE q == n \div Base
           m == n % Base
<1>2. q \in Int /\ m \in 0 .. Base - 1 /\ n = Base * q + m
  BY <1>1
<1> HIDE DEF q, m
<1>3. q >= 0
  BY <1>1, <1>2
<1>4. q < Base
  <2>1. Base * q < Base * Base
    BY <1>1, <1>2
  <2> QED BY <1>1, <1>2, <2>1
<1>5. q % Base = q
  BY <1>1, <1>2, <1>3, <1>4
<1>6. Two(n) = <<q, m>>
  BY <1>5 DEF Two, q, m
<1>7. <<q, m>> \in Seq(Byte) /\ Len(<<q, m>>) = 2 /\ <<q, m>>[1] = q /\ <<q, m>>[2] = m
  BY <1>1, <1>2, <1>3, <1>4 DEF Byte
<1>8. q * Base + m = n
  BY <1>1, <1>2
<1> QED BY <1>6, <1>7, <1>8 DEF Seqs

-----------------------------------------------------------------------------
(* What a whole header and what is behind it are taken apart into.         *)
AadLen(blob) == AtMost(Num(blob, KEYLEN + NONCELEN), Len(blob) - Need)

Fields(blob) ==
  [key   |-> SubSeq(blob, 1, KEYLEN),
   nonce |-> SubSeq(blob, KEYLEN + 1, KEYLEN + NONCELEN),
   aad   |-> SubSeq(blob, Need + 1, Need + AadLen(blob)),
   msg   |-> SubSeq(blob, Need + AadLen(blob) + 1, Len(blob))]

LEMMA Sizes ==
  /\ Base \in Nat /\ Base > 1 /\ KEYLEN \in Nat /\ KEYLEN > 0
  /\ NONCELEN \in Nat /\ NONCELEN > 0 /\ X25519LEN \in Nat
  /\ Need \in Nat /\ Need = KEYLEN + NONCELEN + 2
BY WireConstantsOK DEF WireConstantsOK, Need

LEMMA AadFits ==
  ASSUME NEW blob \in Seqs, Len(blob) >= Need
  PROVE  /\ AadLen(blob) \in Nat /\ Need + AadLen(blob) <= Len(blob)
         /\ Num(blob, KEYLEN + NONCELEN) \in Nat /\ Len(blob) \in Nat
<1>1. blob \in Seq(Byte) /\ Len(blob) \in Nat
  BY DEF Seqs
<1>2. blob[KEYLEN + NONCELEN + 1] \in Nat /\ blob[KEYLEN + NONCELEN + 1 + 1] \in Nat
  BY <1>1, Sizes DEF Byte
<1>3. Num(blob, KEYLEN + NONCELEN) \in Nat
  BY <1>2, Sizes DEF Num, At
<1> QED BY <1>1, <1>3, Sizes DEF AadLen, AtMost

LEMMA CFields ==
  ASSUME NEW blob \in Seqs, Len(blob) >= Need
  PROVE  CVec(blob) = Fields(blob) /\ JavaVec(blob) = Fields(blob)
<1> DEFINE n == AadLen(blob)
           len == Len(blob)
<1>1. n \in Nat /\ Need + n <= len /\ len \in Nat
  BY AadFits
<1>2. /\ Slice(blob, 0, KEYLEN) = SubSeq(blob, 1, KEYLEN)
      /\ Slice(blob, KEYLEN, NONCELEN) = SubSeq(blob, KEYLEN + 1, KEYLEN + NONCELEN)
  BY Sizes DEF Slice
<1>3. Slice(blob, Need, n) = SubSeq(blob, Need + 1, Need + n)
  BY DEF Slice
<1>4. Slice(blob, Need + n, (len - Need) - n) = SubSeq(blob, Need + n + 1, len)
  <2>1. Need + n + ((len - Need) - n) = len
    BY <1>1, Sizes
  <2> QED BY <2>1 DEF Slice
<1>5. CVec(blob) = [key |-> Slice(blob, 0, KEYLEN), nonce |-> Slice(blob, KEYLEN, NONCELEN),
                    aad |-> Slice(blob, Need, n),
                    msg |-> Slice(blob, Need + n, (len - Need) - n)]
  <2>1. ~ (len < Need)
    BY <1>1, Sizes
  <2> QED BY <2>1, Zenon DEF CVec, AadLen
<1>6. JavaVec(blob) = [key |-> Slice(blob, 0, KEYLEN), nonce |-> Slice(blob, KEYLEN, NONCELEN),
                       aad |-> Slice(blob, Need, n),
                       msg |-> Slice(blob, Need + n, (len - Need) - n)]
  <2>1. ~ (len < Need)
    BY <1>1, Sizes
  <2> QED BY <2>1, Zenon DEF JavaVec, AadLen
<1> QED BY <1>2, <1>3, <1>4, <1>5, <1>6, Zenon DEF Fields

LEMMA GoFields ==
  ASSUME NEW blob \in Seqs, Len(blob) >= Need
  PROVE  GoVec(blob) = Fields(blob)
<1> DEFINE n == AadLen(blob)
           len == Len(blob)
           q == From(blob, KEYLEN + NONCELEN)
           rest == From(blob, Need)
<1>1. n \in Nat /\ Need + n <= len /\ len \in Nat /\ blob \in Seq(Byte)
  BY AadFits DEF Seqs
<1>2. q = SubSeq(blob, KEYLEN + NONCELEN + 1, len) /\ rest = SubSeq(blob, Need + 1, len)
  <2>1. /\ KEYLEN + NONCELEN + (len - (KEYLEN + NONCELEN)) = len
        /\ Need + (len - Need) = len
    BY <1>1, Sizes
  <2> QED BY <2>1 DEF From, Slice
<1>3. /\ q[1] = blob[KEYLEN + NONCELEN + 1] /\ q[2] = blob[KEYLEN + NONCELEN + 1 + 1]
      /\ rest \in Seq(Byte) /\ Len(rest) = len - Need
  <2> HIDE DEF q, rest
  <2>1. KEYLEN + NONCELEN + 1 \in Nat \ {0} /\ Need + 1 \in Nat \ {0}
    BY Sizes
  <2>2. \A i \in 1 .. len - (KEYLEN + NONCELEN + 1) + 1 : q[i] = blob[KEYLEN + NONCELEN + 1 + i - 1]
    BY <1>1, <1>2, <2>1, PartIs
  <2>3. /\ rest \in Seq(Byte)
        /\ Len(rest) = IF Need + 1 <= len THEN len - (Need + 1) + 1 ELSE 0
    BY <1>1, <1>2, <2>1, PartIs
  <2>4. 1 \in 1 .. len - (KEYLEN + NONCELEN + 1) + 1 /\ 2 \in 1 .. len - (KEYLEN + NONCELEN + 1) + 1
    BY <1>1, Sizes
  <2>5. q[1] = blob[KEYLEN + NONCELEN + 1 + 1 - 1] /\ q[2] = blob[KEYLEN + NONCELEN + 1 + 2 - 1]
    BY <2>2, <2>4
  <2> QED BY <1>1, <2>3, <2>5, Sizes
<1>4. Num(q, 0) = Num(blob, KEYLEN + NONCELEN)
  BY <1>3 DEF Num, At
<1>5. AtMost(Num(q, 0), Len(rest)) = n
  BY <1>3, <1>4, Zenon DEF AadLen
<1>6. Slice(rest, 0, n) = SubSeq(blob, Need + 1, Need + n)
  <2>1. SubSeq(SubSeq(blob, Need + 1, len), 0 + 1, n) = SubSeq(blob, Need + 0 + 1, Need + n)
    BY <1>1, Sizes, PartOfRest
  <2>2. Need + 0 + 1 = Need + 1 /\ 0 + n = n
    BY <1>1, Sizes
  <2> QED BY <1>2, <2>1, <2>2, Zenon DEF Slice
<1>7. From(rest, n) = SubSeq(blob, Need + n + 1, len)
  <2>1. SubSeq(SubSeq(blob, Need + 1, len), n + 1, len - Need)
          = SubSeq(blob, Need + n + 1, Need + (len - Need))
    <3>1. len - Need \in Nat /\ Need <= len /\ Need + (len - Need) <= len
      BY <1>1, Sizes
    <3> HIDE DEF n
    <3> QED BY <1>1, <3>1, Sizes, PartOfRest
  <2>2. Need + (len - Need) = len /\ n + ((len - Need) - n) = len - Need
    BY <1>1, Sizes
  <2> QED BY <1>2, <1>3, <2>1, <2>2, Zenon DEF From, Slice
<1>8. /\ Slice(blob, 0, KEYLEN) = SubSeq(blob, 1, KEYLEN)
      /\ Slice(blob, KEYLEN, NONCELEN) = SubSeq(blob, KEYLEN + 1, KEYLEN + NONCELEN)
  BY Sizes DEF Slice
<1>9. GoVec(blob) = [key |-> Slice(blob, 0, KEYLEN), nonce |-> Slice(blob, KEYLEN, NONCELEN),
                     aad |-> Slice(rest, 0, n), msg |-> From(rest, n)]
  <2>1. ~ (len < Need)
    BY <1>1, Sizes
  <2> QED BY <1>5, <2>1, Zenon DEF GoVec
<1> QED BY <1>6, <1>7, <1>8, <1>9, Zenon DEF Fields

LEMMA PyFields ==
  ASSUME NEW blob \in Seqs, Len(blob) >= Need
  PROVE  PyVec(blob) = Fields(blob)
<1> DEFINE n == AadLen(blob)
           len == Len(blob)
           q == PyFrom(blob, KEYLEN + NONCELEN)
           rest == PyFrom(q, 2)
<1>1. n \in Nat /\ Need + n <= len /\ len \in Nat /\ blob \in Seq(Byte)
  BY AadFits DEF Seqs
<1>2. q = SubSeq(blob, KEYLEN + NONCELEN + 1, len)
  BY Zenon DEF PyFrom
<1>3. /\ q[1] = blob[KEYLEN + NONCELEN + 1] /\ q[2] = blob[KEYLEN + NONCELEN + 1 + 1]
      /\ Len(q) = len - (KEYLEN + NONCELEN)
  <2> HIDE DEF q
  <2>1. KEYLEN + NONCELEN + 1 \in Nat \ {0}
    BY Sizes
  <2>2. /\ \A i \in 1 .. len - (KEYLEN + NONCELEN + 1) + 1 :
             q[i] = blob[KEYLEN + NONCELEN + 1 + i - 1]
        /\ Len(q) = IF KEYLEN + NONCELEN + 1 <= len THEN len - (KEYLEN + NONCELEN + 1) + 1 ELSE 0
    BY <1>1, <1>2, <2>1, PartIs
  <2>3. 1 \in 1 .. len - (KEYLEN + NONCELEN + 1) + 1 /\ 2 \in 1 .. len - (KEYLEN + NONCELEN + 1) + 1
    BY <1>1, Sizes
  <2>4. q[1] = blob[KEYLEN + NONCELEN + 1 + 1 - 1] /\ q[2] = blob[KEYLEN + NONCELEN + 1 + 2 - 1]
    BY <2>2, <2>3
  <2>5. Len(q) = len - (KEYLEN + NONCELEN)
    BY <1>1, <2>2, Sizes
  <2>6. /\ KEYLEN + NONCELEN + 1 + 1 - 1 = KEYLEN + NONCELEN + 1
        /\ KEYLEN + NONCELEN + 1 + 2 - 1 = KEYLEN + NONCELEN + 1 + 1
    BY Sizes
  <2> QED BY <2>4, <2>5, <2>6, Zenon
<1>4. rest = SubSeq(blob, Need + 1, len)
  <2>1. SubSeq(SubSeq(blob, (KEYLEN + NONCELEN) + 1, len), 2 + 1, len - (KEYLEN + NONCELEN))
          = SubSeq(blob, (KEYLEN + NONCELEN) + 2 + 1, (KEYLEN + NONCELEN) + (len - (KEYLEN + NONCELEN)))
    <3>1. /\ KEYLEN + NONCELEN \in Nat /\ KEYLEN + NONCELEN <= len
          /\ len - (KEYLEN + NONCELEN) \in Nat
          /\ (KEYLEN + NONCELEN) + (len - (KEYLEN + NONCELEN)) <= len
      BY <1>1, Sizes
    <3> DEFINE a == KEYLEN + NONCELEN
               c == len - (KEYLEN + NONCELEN)
    <3>2. a \in Nat /\ a <= len /\ c \in Nat /\ a + c <= len
      BY <3>1
    <3> HIDE DEF a, c
    <3>3. SubSeq(SubSeq(blob, a + 1, len), 2 + 1, c) = SubSeq(blob, a + 2 + 1, a + c)
      BY <1>1, <3>2, PartOfRest
    <3> QED BY <3>3 DEF a, c
  <2>2. (KEYLEN + NONCELEN) + (len - (KEYLEN + NONCELEN)) = len
        /\ (KEYLEN + NONCELEN) + 2 + 1 = Need + 1
    BY <1>1, Sizes
  <2> QED BY <1>2, <1>3, <2>1, <2>2, Zenon DEF PyFrom
<1>5. rest \in Seq(Byte) /\ Len(rest) = len - Need
  <2> HIDE DEF rest
  <2>1. Need + 1 \in Nat \ {0}
    BY Sizes
  <2>2. /\ rest \in Seq(Byte)
        /\ Len(rest) = IF Need + 1 <= len THEN len - (Need + 1) + 1 ELSE 0
    BY <1>1, <1>4, <2>1, PartIs
  <2> QED BY <1>1, <2>2, Sizes
<1>6. AtMost(Num(q, 0), Len(rest)) = n
  <2>1. Num(q, 0) = Num(blob, KEYLEN + NONCELEN)
    BY <1>3 DEF Num, At
  <2> QED BY <1>5, <2>1, Zenon DEF AadLen
<1>7. PySlice(rest, 0, n) = SubSeq(blob, Need + 1, Need + n)
  <2>1. SubSeq(SubSeq(blob, Need + 1, len), 0 + 1, n) = SubSeq(blob, Need + 0 + 1, Need + n)
    BY <1>1, Sizes, PartOfRest
  <2>2. Need + 0 + 1 = Need + 1 /\ AtMost(n, len - Need) = n
    BY <1>1, Sizes DEF AtMost
  <2> QED BY <1>4, <1>5, <2>1, <2>2, Zenon DEF PySlice
<1>8. PyFrom(rest, n) = SubSeq(blob, Need + n + 1, len)
  <2>1. SubSeq(SubSeq(blob, Need + 1, len), n + 1, len - Need)
          = SubSeq(blob, Need + n + 1, Need + (len - Need))
    <3>1. len - Need \in Nat /\ Need <= len /\ Need + (len - Need) <= len
      BY <1>1, Sizes
    <3> HIDE DEF n
    <3> QED BY <1>1, <3>1, Sizes, PartOfRest
  <2>2. Need + (len - Need) = len
    BY <1>1, Sizes
  <2> QED BY <1>4, <1>5, <2>1, <2>2, Zenon DEF PyFrom
<1>9. /\ PySlice(blob, 0, KEYLEN) = SubSeq(blob, 1, KEYLEN)
      /\ PySlice(blob, KEYLEN, KEYLEN + NONCELEN) = SubSeq(blob, KEYLEN + 1, KEYLEN + NONCELEN)
  <2>1. AtMost(KEYLEN, len) = KEYLEN /\ AtMost(KEYLEN + NONCELEN, len) = KEYLEN + NONCELEN
        /\ 0 + 1 = 1
    BY <1>1, Sizes DEF AtMost
  <2> QED BY <2>1, Zenon DEF PySlice
<1>10. PyVec(blob) = [key |-> PySlice(blob, 0, KEYLEN),
                      nonce |-> PySlice(blob, KEYLEN, KEYLEN + NONCELEN),
                      aad |-> PySlice(rest, 0, n), msg |-> PyFrom(rest, n)]
  <2>1. ~ (len < Need)
    BY <1>1, Sizes
  <2> QED BY <1>6, <2>1, Zenon DEF PyVec
<1> QED BY <1>7, <1>8, <1>9, <1>10, Zenon DEF Fields

-----------------------------------------------------------------------------
(* The runner's requests are taken apart into what they were made of.      *)
ReadBack(v) ==
  /\ RequestBlob(v) \in Seqs /\ Len(RequestBlob(v)) >= Need
  /\ CVec(RequestBlob(v)) = v

LEMMA RequestRead ==
  ASSUME NEW key \in [1 .. KEYLEN -> Byte], NEW nonce \in [1 .. NONCELEN -> Byte],
         NEW aad \in Seqs, NEW msg \in Seqs, Len(aad) \in 0 .. Base * Base - 1
  PROVE  ReadBack([key |-> key, nonce |-> nonce, aad |-> aad, msg |-> msg])
<1> DEFINE v == [key |-> key, nonce |-> nonce, aad |-> aad, msg |-> msg]
           la == Len(aad)
           two == Two(la)
           h == key \o nonce
           g == h \o two
           k == g \o aad
           w == k \o msg
<1>1. /\ key \in Seq(Byte) /\ Len(key) = KEYLEN /\ nonce \in Seq(Byte) /\ Len(nonce) = NONCELEN
      /\ aad \in Seq(Byte) /\ msg \in Seq(Byte) /\ Len(msg) \in Nat /\ la \in Nat
  BY Sizes DEF Seqs
<1>2. two \in Seq(Byte) /\ Len(two) = 2 /\ two[1] * Base + two[2] = la
  BY TwoBytes DEF Seqs
<1>3. RequestBlob(v) = w
  BY Zenon DEF RequestBlob
<1> HIDE DEF la, two
<1>4. /\ h \in Seq(Byte) /\ Len(h) = KEYLEN + NONCELEN
  BY <1>1, ConcatProperties
<1>5. /\ g \in Seq(Byte) /\ Len(g) = Need
      /\ g[KEYLEN + NONCELEN + 1] = two[1] /\ g[KEYLEN + NONCELEN + 1 + 1] = two[2]
  <2>0. g = h \o two
    OBVIOUS
  <2> HIDE DEF h, g
  <2>1. /\ g \in Seq(Byte) /\ Len(g) = Len(h) + Len(two)
        /\ \A i \in 1 .. Len(two) : g[Len(h) + i] = two[i]
    <3>1. h \in Seq(Byte) /\ two \in Seq(Byte)
      BY <1>2, <1>4
    <3>2. /\ h \o two \in Seq(Byte) /\ Len(h \o two) = Len(h) + Len(two)
          /\ \A i \in 1 .. Len(two) : (h \o two)[Len(h) + i] = two[i]
      BY <3>1, Joined
    <3> QED BY <2>0, <3>2, Zenon
  <2>2. Len(g) = Need
    BY <1>2, <1>4, <2>1, Sizes
  <2>3. Len(h) + 1 = KEYLEN + NONCELEN + 1 /\ Len(h) + 2 = KEYLEN + NONCELEN + 1 + 1
    BY <1>4, Sizes
  <2>4. g[Len(h) + 1] = two[1] /\ g[Len(h) + 2] = two[2]
    BY <1>2, <2>1
  <2> QED BY <2>1, <2>2, <2>3, <2>4, Zenon
<1> HIDE DEF g
<1>6. /\ k \in Seq(Byte) /\ Len(k) = Need + la /\ \A i \in 1 .. Need : k[i] = g[i]
  <2>1. k = g \o aad
    OBVIOUS
  <2> HIDE DEF k
  <2>2. k \in Seq(Byte) /\ Len(k) = Len(g) + Len(aad) /\ \A i \in 1 .. Len(g) : k[i] = g[i]
    <3>1. g \in Seq(Byte) /\ aad \in Seq(Byte)
      BY <1>1, <1>5
    <3>2. /\ g \o aad \in Seq(Byte) /\ Len(g \o aad) = Len(g) + Len(aad)
          /\ \A i \in 1 .. Len(g) : (g \o aad)[i] = g[i]
      BY <3>1, Joined
    <3> QED BY <2>1, <3>2, Zenon
  <2> QED BY <1>5, <2>2, Zenon DEF la
<1> HIDE DEF k
<1>7. /\ w \in Seq(Byte) /\ Len(w) = Need + la + Len(msg) /\ \A i \in 1 .. Need : w[i] = k[i]
  <2>1. w = k \o msg
    OBVIOUS
  <2> HIDE DEF w
  <2>2. w \in Seq(Byte) /\ Len(w) = Len(k) + Len(msg) /\ \A i \in 1 .. Len(k) : w[i] = k[i]
    <3>1. k \in Seq(Byte) /\ msg \in Seq(Byte)
      BY <1>1, <1>6
    <3>2. /\ k \o msg \in Seq(Byte) /\ Len(k \o msg) = Len(k) + Len(msg)
          /\ \A i \in 1 .. Len(k) : (k \o msg)[i] = k[i]
      BY <3>1, Joined
    <3> QED BY <2>1, <3>2, Zenon
  <2> QED BY <1>1, <1>6, <2>2, Sizes
<1>8. SubSeq(w, 0 + 1, KEYLEN) = key /\ SubSeq(w, KEYLEN + 1, KEYLEN + NONCELEN) = nonce
  <2>1. \A a, b \in Nat : b <= Need => SubSeq(w, a + 1, b) = SubSeq(k, a + 1, b)
    BY <1>1, <1>6, Sizes, PartBefore
  <2>2. \A a, b \in Nat : b <= Need => SubSeq(k, a + 1, b) = SubSeq(g, a + 1, b)
    BY <1>1, <1>5, PartBefore DEF k
  <2>3. \A a, b \in Nat : b <= KEYLEN + NONCELEN => SubSeq(g, a + 1, b) = SubSeq(h, a + 1, b)
    <3> HIDE DEF h
    <3> QED BY <1>2, <1>4, PartBefore DEF g
  <2>4. SubSeq(h, 0 + 1, KEYLEN) = SubSeq(key, 0 + 1, KEYLEN)
    BY <1>1, Sizes, PartBefore
  <2>5. SubSeq(h, KEYLEN + 1, KEYLEN + NONCELEN) = nonce
    BY <1>1, PartBehind
  <2>6. SubSeq(key, 0 + 1, KEYLEN) = key
    BY <1>1, SubSeqFull
  <2> HIDE DEF w, h
  <2>7. 0 \in Nat /\ KEYLEN \in Nat /\ KEYLEN + NONCELEN \in Nat
        /\ KEYLEN <= Need /\ KEYLEN + NONCELEN <= Need /\ KEYLEN <= KEYLEN + NONCELEN
        /\ KEYLEN + NONCELEN <= KEYLEN + NONCELEN
    BY Sizes
  <2> QED BY <2>1, <2>2, <2>3, <2>4, <2>5, <2>6, <2>7, Zenon
<1>9. SubSeq(w, Need + 1, Need + la) = aad
  <2>1. SubSeq(w, Need + 1, Need + la) = SubSeq(k, Need + 1, Need + la)
    BY <1>1, <1>6, Sizes, PartBefore
  <2>2. SubSeq(k, Need + 1, Need + la) = aad
    BY <1>1, <1>5, PartBehind DEF k, la
  <2> QED BY <2>1, <2>2, Zenon
<1>10. SubSeq(w, Need + la + 1, Len(w)) = msg
  BY <1>1, <1>6, <1>7, PartBehind
<1> HIDE DEF w
<1>11. AadLen(w) = la
  <2>1. Num(w, KEYLEN + NONCELEN) = la
    <3>1. KEYLEN + NONCELEN + 1 \in 1 .. Need /\ KEYLEN + NONCELEN + 1 + 1 \in 1 .. Need
      BY Sizes
    <3>2. w[KEYLEN + NONCELEN + 1] = two[1] /\ w[KEYLEN + NONCELEN + 1 + 1] = two[2]
      BY <1>5, <1>6, <1>7, <3>1
    <3> QED BY <1>2, <3>2, Zenon DEF Num, At
  <2>2. ~ (la > Len(w) - Need)
    BY <1>1, <1>7, Sizes
  <2> QED BY <2>1, <2>2, Zenon DEF AadLen, AtMost
<1>12. Fields(w) = v
  <2>1. 0 + 1 = 1
    OBVIOUS
  <2> QED BY <1>8, <1>9, <1>10, <1>11, <2>1, Zenon DEF Fields
<1>13. w \in Seqs /\ Len(w) >= Need
  BY <1>1, <1>7, Sizes DEF Seqs
<1>14. CVec(w) = v
  BY <1>12, <1>13, CFields, Zenon
<1> QED BY <1>3, <1>13, <1>14, Zenon DEF ReadBack

LEMMA VerifyRead ==
  ASSUME NEW p \in Seqs
  PROVE  /\ VerifyBlob(p) \in Seqs /\ Len(VerifyBlob(p)) >= Need
         /\ CVec(VerifyBlob(p)).msg = p
<1> DEFINE z == Zeros(KEYLEN + NONCELEN + 2)
           w == z \o p
<1>1. /\ z \in Seq(Byte) /\ Len(z) = Need /\ \A i \in 1 .. Need : z[i] = 0
  BY Sizes DEF Zeros, Byte
<1>2. p \in Seq(Byte) /\ Len(p) \in Nat
  BY DEF Seqs
<1> HIDE DEF z
<1>3. w \in Seq(Byte) /\ Len(w) = Need + Len(p) /\ \A i \in 1 .. Need : w[i] = z[i]
  <2>1. w = z \o p
    OBVIOUS
  <2> HIDE DEF w
  <2>2. w \in Seq(Byte) /\ Len(w) = Len(z) + Len(p) /\ \A i \in 1 .. Len(z) : w[i] = z[i]
    <3>1. z \in Seq(Byte) /\ p \in Seq(Byte)
      BY <1>1, <1>2
    <3>2. /\ z \o p \in Seq(Byte) /\ Len(z \o p) = Len(z) + Len(p)
          /\ \A i \in 1 .. Len(z) : (z \o p)[i] = z[i]
      BY <3>1, Joined
    <3> QED BY <2>1, <3>2, Zenon
  <2> QED BY <1>1, <2>2, Zenon
<1>4. SubSeq(w, Need + 1, Len(w)) = p
  BY <1>1, <1>2, <1>3, PartBehind
<1>5. VerifyBlob(p) = w
  BY DEF VerifyBlob, z
<1> HIDE DEF w
<1>6. Num(w, KEYLEN + NONCELEN) = 0
  <2>1. KEYLEN + NONCELEN + 1 \in 1 .. Need /\ KEYLEN + NONCELEN + 1 + 1 \in 1 .. Need
    BY Sizes
  <2>2. w[KEYLEN + NONCELEN + 1] = 0 /\ w[KEYLEN + NONCELEN + 1 + 1] = 0
    BY <1>1, <1>3, <2>1
  <2> QED BY <2>2, Sizes DEF Num, At
<1>7. w \in Seqs /\ Len(w) >= Need
  BY <1>2, <1>3, Sizes DEF Seqs
<1>8. AadLen(w) = 0
  BY <1>2, <1>3, <1>6, Sizes DEF AadLen, AtMost
<1>9. Fields(w).msg = SubSeq(w, Need + AadLen(w) + 1, Len(w))
  BY DEF Fields
<1>10. Need + AadLen(w) + 1 = Need + 1
  BY <1>8, Sizes
<1>11. Fields(w).msg = p
  BY <1>4, <1>9, <1>10, Zenon
<1> QED BY <1>5, <1>7, <1>11, CFields, Zenon

-----------------------------------------------------------------------------
(* The payload of a verify operation.                                      *)
PayloadIs(w, pub, sig, msg) ==
  /\ w \in Seq(Byte) /\ Len(w) = 4 + Len(pub) + Len(sig) + Len(msg)
  /\ Num(w, 0) = Len(pub) /\ Num(w, 2 + Len(pub)) = Len(sig)
  /\ SubSeq(w, 2 + 1, 2 + Len(pub)) = pub
  /\ SubSeq(w, 4 + Len(pub) + 1, 4 + Len(pub) + Len(sig)) = sig
  /\ SubSeq(w, 4 + Len(pub) + Len(sig) + 1, Len(w)) = msg

LEMMA PayloadParts ==
  ASSUME NEW pub \in Seqs, NEW sig \in Seqs, NEW msg \in Seqs,
         Len(pub) \in 0 .. Base * Base - 1, Len(sig) \in 0 .. Base * Base - 1
  PROVE  PayloadIs(VerifyPayload(Triple(pub, sig, msg)), pub, sig, msg)
<1> DEFINE w == VerifyPayload(Triple(pub, sig, msg))
           pl == Len(pub)
           sl == Len(sig)
           a == Two(pl)
           t == Two(sl)
           b == a \o pub
           c == b \o t
           d == c \o sig
<1>1. w = d \o msg
  BY Zenon DEF VerifyPayload, Triple
<1> HIDE DEF w
<1>2. /\ pub \in Seq(Byte) /\ sig \in Seq(Byte) /\ msg \in Seq(Byte)
      /\ pl \in Nat /\ sl \in Nat /\ Len(msg) \in Nat
  BY DEF Seqs
<1>3. /\ a \in Seq(Byte) /\ Len(a) = 2 /\ a[1] * Base + a[2] = pl
      /\ t \in Seq(Byte) /\ Len(t) = 2 /\ t[1] * Base + t[2] = sl
  BY TwoBytes DEF Seqs
<1> HIDE DEF a, t
<1>4. /\ b \in Seq(Byte) /\ Len(b) = 2 + pl /\ b[1] = a[1] /\ b[2] = a[2]
  <2>1. /\ a \o pub \in Seq(Byte) /\ Len(a \o pub) = Len(a) + Len(pub)
        /\ \A i \in 1 .. Len(a) : (a \o pub)[i] = a[i]
    BY <1>2, <1>3, Joined
  <2> QED BY <1>3, <2>1
<1>5. SubSeq(b, 2 + 1, 2 + pl) = pub
  BY <1>2, <1>3, PartBehind
<1> HIDE DEF b
<1>6. /\ c \in Seq(Byte) /\ Len(c) = 4 + pl /\ c[1] = b[1] /\ c[2] = b[2]
      /\ c[2 + pl + 1] = t[1] /\ c[2 + pl + 1 + 1] = t[2]
  <2>1. /\ b \o t \in Seq(Byte) /\ Len(b \o t) = Len(b) + Len(t)
        /\ \A i \in 1 .. Len(b) : (b \o t)[i] = b[i]
        /\ \A i \in 1 .. Len(t) : (b \o t)[Len(b) + i] = t[i]
    <3>1. b \in Seq(Byte) /\ t \in Seq(Byte)
      BY <1>3, <1>4
    <3> QED BY <3>1, Joined
  <2>2. /\ 1 \in 1 .. Len(b) /\ 2 \in 1 .. Len(b) /\ 1 \in 1 .. Len(t) /\ 2 \in 1 .. Len(t)
        /\ Len(b) + 1 = 2 + pl + 1 /\ Len(b) + 2 = 2 + pl + 1 + 1 /\ Len(b) + Len(t) = 4 + pl
    BY <1>2, <1>3, <1>4
  <2> QED BY <2>1, <2>2, Zenon
<1>7. SubSeq(c, 2 + 1, 2 + pl) = pub
  BY <1>2, <1>3, <1>4, <1>5, PartBefore
<1> HIDE DEF c
<1>8. /\ d \in Seq(Byte) /\ Len(d) = 4 + pl + sl /\ \A i \in 1 .. 4 + pl : d[i] = c[i]
  <2>1. /\ c \o sig \in Seq(Byte) /\ Len(c \o sig) = Len(c) + Len(sig)
        /\ \A i \in 1 .. Len(c) : (c \o sig)[i] = c[i]
    BY <1>2, <1>6, Joined
  <2> QED BY <1>6, <2>1, Zenon
<1>9. SubSeq(d, 2 + 1, 2 + pl) = pub
  <2>1. SubSeq(d, 2 + 1, 2 + pl) = SubSeq(c, 2 + 1, 2 + pl)
    BY <1>2, <1>6, PartBefore
  <2> QED BY <1>7, <2>1, Zenon
<1>10. SubSeq(d, 4 + pl + 1, 4 + pl + sl) = sig
  BY <1>2, <1>6, PartBehind
<1> HIDE DEF d
<1>11. /\ w \in Seq(Byte) /\ Len(w) = 4 + pl + sl + Len(msg)
       /\ \A i \in 1 .. 4 + pl + sl : w[i] = d[i]
  <2>1. /\ d \o msg \in Seq(Byte) /\ Len(d \o msg) = Len(d) + Len(msg)
        /\ \A i \in 1 .. Len(d) : (d \o msg)[i] = d[i]
    BY <1>2, <1>8, Joined
  <2> QED BY <1>1, <1>8, <2>1, Zenon
<1>12. SubSeq(w, 2 + 1, 2 + pl) = pub
  <2>1. SubSeq(d \o msg, 2 + 1, 2 + pl) = SubSeq(d, 2 + 1, 2 + pl)
    BY <1>2, <1>8, PartBefore
  <2> QED BY <1>1, <1>9, <2>1, Zenon
<1>13. SubSeq(w, 4 + pl + 1, 4 + pl + sl) = sig
  <2>1. SubSeq(d \o msg, (4 + pl) + 1, 4 + pl + sl) = SubSeq(d, (4 + pl) + 1, 4 + pl + sl)
    <3>1. 4 + pl \in Nat /\ 4 + pl + sl \in Nat /\ 4 + pl + sl <= Len(d)
      BY <1>2, <1>8
    <3> QED BY <1>2, <1>8, <3>1, PartBefore
  <2> QED BY <1>1, <1>10, <2>1, Zenon
<1>14. SubSeq(w, 4 + pl + sl + 1, Len(w)) = msg
  <2>1. SubSeq(d \o msg, Len(d) + 1, Len(d) + Len(msg)) = msg
    BY <1>2, <1>8, PartBehind
  <2> QED BY <1>1, <1>8, <1>11, <2>1, Zenon
<1>15. Num(w, 0) = pl
  <2>1. /\ 0 + 1 = 1 /\ 0 + 1 + 1 = 2
        /\ 1 \in 1 .. 4 + pl /\ 2 \in 1 .. 4 + pl
        /\ 1 \in 1 .. 4 + pl + sl /\ 2 \in 1 .. 4 + pl + sl
    BY <1>2
  <2>2. w[0 + 1] = a[1] /\ w[0 + 1 + 1] = a[2]
    BY <1>4, <1>6, <1>8, <1>11, <2>1, Zenon
  <2> QED BY <1>3, <2>2, Zenon DEF Num, At
<1>16. Num(w, 2 + pl) = sl
  <2>1. /\ 2 + pl + 1 \in 1 .. 4 + pl /\ 2 + pl + 1 + 1 \in 1 .. 4 + pl
        /\ 2 + pl + 1 \in 1 .. 4 + pl + sl /\ 2 + pl + 1 + 1 \in 1 .. 4 + pl + sl
    BY <1>2
  <2>2. w[2 + pl + 1] = t[1] /\ w[2 + pl + 1 + 1] = t[2]
    BY <1>6, <1>8, <1>11, <2>1, Zenon
  <2> QED BY <1>3, <2>2, Zenon DEF Num, At
<1> QED BY <1>11, <1>12, <1>13, <1>14, <1>15, <1>16, Zenon DEF w, PayloadIs

AllRead(w, t) ==
  /\ w \in Seqs
  /\ CVerify(w) = t /\ GoVerify(w) = t /\ PyVerify(w) = t /\ JavaVerify(w) = t

(* All four parsers take the payload apart into the triple it was made of. *)
LEMMA PayloadRead ==
  ASSUME NEW pub \in Seqs, NEW sig \in Seqs, NEW msg \in Seqs,
         Len(pub) \in 0 .. Base * Base - 1, Len(sig) \in 0 .. Base * Base - 1
  PROVE  AllRead(VerifyPayload(Triple(pub, sig, msg)), Triple(pub, sig, msg))
<1> DEFINE t == Triple(pub, sig, msg)
           w == VerifyPayload(t)
           pl == Len(pub)
           sl == Len(sig)
           off == 2 + pl + 2
<1>1. /\ w \in Seq(Byte) /\ Len(w) = 4 + pl + sl + Len(msg)
      /\ Num(w, 0) = pl /\ Num(w, 2 + pl) = sl
      /\ SubSeq(w, 2 + 1, 2 + pl) = pub
      /\ SubSeq(w, 4 + pl + 1, 4 + pl + sl) = sig
      /\ SubSeq(w, 4 + pl + sl + 1, Len(w)) = msg
  <2>1. PayloadIs(VerifyPayload(Triple(pub, sig, msg)), pub, sig, msg)
    BY PayloadParts, Zenon
  <2>2. PayloadIs(w, pub, sig, msg)
    BY <2>1, Zenon
  <2> HIDE DEF w
  <2> QED BY <2>2, Zenon DEF PayloadIs
<1>2. pl \in Nat /\ sl \in Nat /\ Len(msg) \in Nat /\ Len(w) \in Nat
  BY <1>1 DEF Seqs
<1> HIDE DEF w, pl, sl
<1>3. /\ off = 4 + pl /\ off + sl = 4 + pl + sl
      /\ ~ (Len(w) < 2) /\ ~ (2 + pl + 2 > Len(w)) /\ ~ (off + sl > Len(w))
      /\ ~ (2 + pl + 1 >= Len(w)) /\ ~ (off + sl > Len(w))
      /\ (4 + pl + sl) + (Len(w) - (4 + pl + sl)) = Len(w)
      /\ AtMost(2 + pl, Len(w)) = 2 + pl /\ AtMost(off + sl, Len(w)) = off + sl
  BY <1>1, <1>2 DEF AtMost
<1>4. /\ Slice(w, 2, pl) = pub /\ Slice(w, off, sl) = sig /\ From(w, off + sl) = msg
      /\ PySlice(w, 2, 2 + pl) = pub /\ PySlice(w, off, off + sl) = sig
      /\ PyFrom(w, off + sl) = msg
  BY <1>1, <1>3, Zenon DEF Slice, From, PySlice, PyFrom
<1>5. CVerify(w) = t /\ GoVerify(w) = t
  BY <1>1, <1>3, <1>4, Zenon DEF CVerify, GoVerify
<1>6. PyVerify(w) = t
  BY <1>1, <1>3, <1>4, Zenon DEF PyVerify
<1>7. JavaVerify(w) = t
  BY <1>1, <1>3, <1>4, Zenon DEF JavaVerify
<1> QED BY <1>1, <1>5, <1>6, <1>7, Zenon DEF Seqs, w, AllRead

LEMMA EmptyPayloadRead ==
  /\ CVerify(<<>>) = Reject /\ GoVerify(<<>>) = Reject
  /\ PyVerify(<<>>) = Raise /\ JavaVerify(<<>>) = Raise
<1>1. Len(<<>>) < 2
  OBVIOUS
<1> QED BY <1>1, Zenon DEF CVerify, GoVerify, PyVerify, JavaVerify

-----------------------------------------------------------------------------
(* What a CLI makes of a line, beside what compute_common.h would.         *)
LEMMA WholeRead ==
  ASSUME NEW blob \in Seqs, Len(blob) >= Need, NEW cli
  PROVE  Parse(cli, blob) = CVec(blob) /\ Len(CVec(blob).key) = KEYLEN
<1>1. /\ CVec(blob) = Fields(blob) /\ JavaVec(blob) = Fields(blob)
      /\ GoVec(blob) = Fields(blob) /\ PyVec(blob) = Fields(blob)
  BY CFields, GoFields, PyFields
<1>2. Parse(cli, blob) = CVec(blob)
  BY <1>1, Zenon DEF Parse
<1>3. Fields(blob).key = SubSeq(blob, 1, KEYLEN)
  BY DEF Fields
<1>4. Len(SubSeq(blob, 1, KEYLEN)) = KEYLEN
  <2>1. blob \in Seq(Byte) /\ Len(blob) \in Nat
    BY DEF Seqs
  <2>2. Len(SubSeq(blob, 1, KEYLEN)) = IF 1 <= KEYLEN THEN KEYLEN - 1 + 1 ELSE 0
    BY <2>1, Sizes, PartIs
  <2> QED BY <2>2, Sizes
<1> QED BY <1>1, <1>2, <1>3, <1>4, Zenon

NoKey(blob)   == [key |-> <<>>, nonce |-> <<>>, aad |-> <<>>, msg |-> blob]
ZeroKey(blob) == [key |-> Zeros(KEYLEN), nonce |-> Zeros(NONCELEN), aad |-> <<>>, msg |-> blob]

LEMMA ShortRead ==
  ASSUME NEW blob \in Seqs, Len(blob) < Need, NEW cli
  PROVE  CVec(blob) = ZeroKey(blob) /\ Parse(cli, blob) \in {NoKey(blob), ZeroKey(blob)}
<1>1. /\ CVec(blob) = ZeroKey(blob) /\ JavaVec(blob) = ZeroKey(blob)
      /\ GoVec(blob) = NoKey(blob) /\ PyVec(blob) = NoKey(blob)
  BY Zenon DEF CVec, JavaVec, GoVec, PyVec, NoKey, ZeroKey
<1> QED BY <1>1, Zenon DEF Parse

LEMMA MessageRead ==
  ASSUME NEW blob \in Seqs, NEW cli
  PROVE  Parse(cli, blob).msg = CVec(blob).msg
<1>1. CASE Len(blob) >= Need
  BY <1>1, WholeRead
<1>2. CASE Len(blob) < Need
  BY <1>2, ShortRead DEF NoKey, ZeroKey
<1> QED BY <1>1, <1>2, Sizes DEF Seqs

(* HMAC and the keyed hashes cannot tell no key from a zero key.           *)
LEMMA Padded == Pad(<<>>) = Zeros(KEYLEN) /\ Pad(Zeros(KEYLEN)) = Zeros(KEYLEN)
<1> DEFINE z == Zeros(KEYLEN)
<1>1. z \in Seq({0}) /\ Len(z) = KEYLEN
  BY Sizes DEF Zeros
<1>2. Zeros(KEYLEN - Len(<<>>)) = z
  BY Sizes
<1>3. Zeros(KEYLEN - Len(z)) = <<>>
  <2>1. KEYLEN - Len(z) = 0
    BY <1>1, Sizes
  <2>2. Zeros(0) = <<>>
    <3>1. Zeros(0) \in Seq({0}) /\ Len(Zeros(0)) = 0
      BY DEF Zeros
    <3> QED BY <3>1
  <2> QED BY <2>1, <2>2, Zenon
<1> HIDE DEF z
<1>4. <<>> \o z = z /\ z \o <<>> = z
  BY <1>1, ConcatEmptySeq
<1> QED BY <1>2, <1>3, <1>4, Zenon DEF Pad, z

LEMMA SameResult ==
  ASSUME NEW blob, NEW op \in KeyMayBeMissing
  PROVE  Result(op, NoKey(blob)) = Result(op, ZeroKey(blob))
<1>1. /\ NoKey(blob).msg = blob /\ ZeroKey(blob).msg = blob
      /\ NoKey(blob).aad = <<>> /\ ZeroKey(blob).aad = <<>>
      /\ NoKey(blob).key = <<>> /\ ZeroKey(blob).key = Zeros(KEYLEN)
  BY DEF NoKey, ZeroKey
<1> DEFINE plain == {0, 1, 5, 6, 7, 8} \cup (15 .. 19)
           keyed == {2} \cup (20 .. 22)
<1>2. \/ op \in plain /\ op \notin keyed
      \/ op \in keyed /\ op \notin plain
      \/ op = 9 /\ op \notin plain /\ op \notin keyed
  BY DEF KeyMayBeMissing
<1>3. op \notin AeadOps /\ op # 12 /\ (op = 9 => op \notin plain /\ op \notin keyed)
  BY DEF KeyMayBeMissing, AeadOps
<1>4. \A v : Result(op, v) = CASE op \in plain -> <<op, v.msg>>
                               [] op \in keyed -> <<op, Pad(v.key), v.msg>>
                               [] op \in AeadOps -> <<op, v.key, v.nonce, v.aad, v.msg>>
                               [] op = 9 -> <<op, Pad(v.key), v.aad, v.msg>>
                               [] op = 12 -> <<op, v.key, Slice(v.msg, 0, X25519LEN)>>
                               [] OTHER -> <<op, v.key, v.msg>>
  BY Zenon DEF Result
<1> HIDE DEF plain, keyed
<1>5. CASE op \in plain /\ op \notin keyed
  <2>1. \A v : Result(op, v) = <<op, v.msg>>
    BY <1>3, <1>4, <1>5, Zenon
  <2> QED BY <1>1, <2>1, Zenon
<1>6. CASE op \in keyed /\ op \notin plain
  <2>1. \A v : Result(op, v) = <<op, Pad(v.key), v.msg>>
    BY <1>3, <1>4, <1>6, Zenon
  <2> QED BY <1>1, <2>1, Padded, Zenon
<1>7. CASE op = 9 /\ op \notin plain /\ op \notin keyed
  <2>1. \A v : Result(op, v) = <<op, Pad(v.key), v.aad, v.msg>>
    BY <1>3, <1>4, <1>7, Zenon
  <2> QED BY <1>1, <2>1, Padded, Zenon
<1> QED BY <1>2, <1>5, <1>6, <1>7, Zenon

(* A CLI that answers a compute line gave its library the arguments that   *)
(* compute_common.h reads in it.                                           *)
LEMMA ComputeAnswer ==
  ASSUME NEW blob \in Seqs, NEW op, op \notin VerifyOps, NEW cli,
         Len(blob) >= Need \/ op \in KeyMayBeMissing
  PROVE  \/ Abstains(ReplyOf(cli, op, blob))
         \/ ReplyOf(cli, op, blob) = [hex |-> Result(op, CVec(blob))]
<1> DEFINE v == Parse(cli, blob)
<1>1. Result(op, v) = Result(op, CVec(blob)) /\ ~ Refused(op, v)
  <2>1. CASE Len(blob) >= Need
    <3>1. v = CVec(blob) /\ Len(v.key) = KEYLEN
      BY <2>1, WholeRead, Zenon
    <3>2. ~ (Len(v.key) < KEYLEN)
      BY <3>1, Sizes
    <3> QED BY <3>1, <3>2, Zenon DEF Refused
  <2>2. CASE Len(blob) < Need
    <3>1. op \in KeyMayBeMissing
      BY <2>2, Sizes DEF Seqs
    <3>2. op \notin AeadOps \cup {11, 12}
      BY <3>1 DEF KeyMayBeMissing, AeadOps
    <3>3. CVec(blob) = ZeroKey(blob) /\ (v = NoKey(blob) \/ v = ZeroKey(blob))
      BY <2>2, ShortRead, Zenon
    <3>4. Result(op, NoKey(blob)) = Result(op, ZeroKey(blob))
      BY <3>1, SameResult
    <3> QED BY <3>2, <3>3, <3>4, Zenon DEF Refused
  <2> QED BY <2>1, <2>2, Sizes DEF Seqs
<1> HIDE DEF v
<1>2. CASE op \notin OpsOf(cli)
  BY <1>2, Zenon DEF ReplyOf, Abstains
<1>3. CASE op \in OpsOf(cli)
  BY <1>1, <1>3, Zenon DEF ReplyOf, v
<1> QED BY <1>2, <1>3

LEMMA VerifyAnswer ==
  ASSUME NEW blob \in Seqs, NEW op \in VerifyOps, NEW cli
  PROVE  \/ Abstains(ReplyOf(cli, op, blob))
         \/ ReplyOf(cli, op, blob) = ParseVerify(cli, CVec(blob).msg)
<1>1. CASE op \notin OpsOf(cli)
  BY <1>1, Zenon DEF ReplyOf, Abstains
<1>2. CASE op \in OpsOf(cli)
  BY <1>2, MessageRead, Zenon DEF ReplyOf
<1> QED BY <1>1, <1>2

(* A CLI that has the operation does not abstain.                          *)
LEMMA DoesAnswer ==
  ASSUME NEW blob, NEW cli, NEW op \in OpsOf(cli)
  PROVE  ~ Abstains(ReplyOf(cli, op, blob))
<1>1. /\ \A x : [hex |-> x] # [reply |-> "NA"]
      /\ Reject # [reply |-> "NA"] /\ Raise # [reply |-> "NA"]
      /\ \A x, y, z : Triple(x, y, z) # [reply |-> "NA"]
  BY DEF Reject, Raise, Triple
<1>2. \A p : ParseVerify(cli, p) # [reply |-> "NA"]
  <2> SUFFICES ASSUME NEW p PROVE ParseVerify(cli, p) # [reply |-> "NA"]
    OBVIOUS
  <2>1. /\ CVerify(p) # [reply |-> "NA"] /\ GoVerify(p) # [reply |-> "NA"]
        /\ PyVerify(p) # [reply |-> "NA"] /\ JavaVerify(p) # [reply |-> "NA"]
    BY <1>1, Zenon DEF CVerify, GoVerify, PyVerify, JavaVerify
  <2> QED BY <2>1, Zenon DEF ParseVerify
<1> QED BY <1>1, <1>2, Zenon DEF ReplyOf, Abstains

-----------------------------------------------------------------------------
(* The invariant: a line holds a byte string, the expected arguments are   *)
(* those compute_common.h reads in it, and the replies are what the first  *)
(* CLIs make of it.                                                        *)
LineWhole == line = NoLine \/ (line.op \in 0 .. 26 /\ line.blob \in Seqs)

ComputeExpected ==
  line # NoLine /\ line.op \notin VerifyOps =>
    expected = [hex |-> Result(line.op, CVec(line.blob))]

(* Only the runner writes verify lines: somebody else's payload may lie    *)
(* about its lengths, and then Python's slices clamp where the others      *)
(* refuse.                                                                 *)
RunnerVerifies == AnyOps \cap VerifyOps = {}

ExpectedOf(payload) ==
  \/ payload = <<>> /\ expected = Reject
  \/ AllRead(payload, expected)

VerifyExpected ==
  RunnerVerifies /\ line # NoLine /\ line.op \in VerifyOps =>
    ExpectedOf(CVec(line.blob).msg)

MadeOf(i) == ReplyOf(CliOrder[i], line.op, line.blob)

RepliesMade ==
  /\ replies \in Seq({MadeOf(i) : i \in 1 .. Len(CliOrder)})
  /\ Len(replies) <= Len(CliOrder)
  /\ \A i \in 1 .. Len(replies) : replies[i] = MadeOf(i)
  /\ line = NoLine => replies = <<>>

WireInv == LineWhole /\ ComputeExpected /\ VerifyExpected /\ RepliesMade

LEMMA BytesAre ==
  ASSUME NEW lens, lens \subseteq Nat, NEW x \in Bytes(lens)
  PROVE  x \in Seqs /\ Len(x) \in lens
<1>1. PICK n \in lens : x \in [1 .. n -> Byte]
  BY Zenon DEF Bytes
<1>2. n \in Nat
  BY <1>1
<1> QED BY <1>1, <1>2 DEF Seqs

LEMMA SomeLine ==
  ASSUME NEW op \in 0 .. 26, NEW b PROVE [op |-> op, blob |-> b] # NoLine
<1>1. [op |-> op, blob |-> b].op = op /\ NoLine.op = -1 /\ op # -1
  BY DEF NoLine
<1> QED BY <1>1, Zenon

(* A new line has no replies yet.                                          *)
LEMMA NewLine ==
  ASSUME NEW op \in 0 .. 26, NEW b \in Seqs,
         line' = [op |-> op, blob |-> b], replies' = <<>>
  PROVE  /\ LineWhole' /\ RepliesMade'
         /\ line' # NoLine /\ line'.op = op /\ line'.blob = b
<1>1. line'.op = op /\ line'.blob = b
  OBVIOUS
<1>2. line' # NoLine
  BY SomeLine, Zenon
<1>3. LineWhole'
  BY <1>1 DEF LineWhole
<1>4. Len(CliOrder) \in Nat
  BY WireConstantsOK DEF WireConstantsOK
<1>5. RepliesMade'
  BY <1>2, <1>4 DEF RepliesMade
<1> QED BY <1>1, <1>2, <1>3, <1>5

LEMMA ComputeDrawn ==
  ASSUME NEW op \in DrawnOps \ VerifyOps,
         NEW aad \in Bytes(IF op \in AeadOps \cup {9} THEN 0 .. MaxAad ELSE {0}),
         NEW msg \in Bytes(IF op = 12 THEN {X25519LEN} ELSE 0 .. MaxMsg),
         NEW key \in [1 .. KEYLEN -> Byte], NEW nonce \in [1 .. NONCELEN -> Byte],
         DrawCompute(op, [key |-> key, nonce |-> nonce, aad |-> aad, msg |-> msg])
  PROVE  WireInv'
<1> DEFINE v == [key |-> key, nonce |-> nonce, aad |-> aad, msg |-> msg]
<1>1. /\ op \in 0 .. 26 /\ op \notin VerifyOps
      /\ 0 .. MaxAad \subseteq 0 .. Base * Base - 1 /\ 0 .. MaxMsg \subseteq Nat
      /\ 0 \in 0 .. Base * Base - 1 /\ X25519LEN \in Nat
  BY WireConstantsOK DEF WireConstantsOK
<1>2. 0 .. Base * Base - 1 \subseteq Nat
  OBVIOUS
<1>3. aad \in Seqs /\ Len(aad) \in 0 .. Base * Base - 1
  <2> DEFINE lens == IF op \in AeadOps \cup {9} THEN 0 .. MaxAad ELSE {0}
  <2>1. lens \subseteq 0 .. Base * Base - 1 /\ aad \in Bytes(lens)
    BY <1>1, Zenon
  <2> HIDE DEF lens
  <2> QED BY <1>2, <2>1, BytesAre
<1>4. msg \in Seqs
  <2> DEFINE lens == IF op = 12 THEN {X25519LEN} ELSE 0 .. MaxMsg
  <2>1. lens \subseteq Nat /\ msg \in Bytes(lens)
    BY <1>1, Zenon
  <2> HIDE DEF lens
  <2> QED BY <2>1, BytesAre
<1>5. ReadBack(v)
  BY <1>3, <1>4, RequestRead
<1> HIDE DEF v
<1>6. DrawCompute(op, v)
  BY DEF v
<1>7. /\ line' = [op |-> op, blob |-> RequestBlob(v)]
      /\ expected' = [hex |-> Result(op, v)] /\ replies' = <<>>
  BY <1>6, Zenon DEF DrawCompute
<1>8. RequestBlob(v) \in Seqs /\ CVec(RequestBlob(v)) = v
  BY <1>5, Zenon DEF ReadBack
<1>9. /\ LineWhole' /\ RepliesMade'
      /\ line' # NoLine /\ line'.op = op /\ line'.blob = RequestBlob(v)
  BY <1>1, <1>7, <1>8, NewLine, Zenon
<1>10. ComputeExpected'
  BY <1>7, <1>8, <1>9, Zenon DEF ComputeExpected
<1>11. VerifyExpected'
  BY <1>1, <1>9, Zenon DEF VerifyExpected
<1> QED BY <1>9, <1>10, <1>11, Zenon DEF WireInv

(* What a verify line with a payload makes true, given what was expected.  *)
LEMMA PayloadDrawn ==
  ASSUME NEW op \in VerifyOps, NEW p \in Seqs,
         line' = [op |-> op, blob |-> VerifyBlob(p)], replies' = <<>>,
         ExpectedOf(p)'
  PROVE  WireInv'
<1>1. op \in 0 .. 26
  BY DEF VerifyOps
<1>2. VerifyBlob(p) \in Seqs /\ CVec(VerifyBlob(p)).msg = p
  BY VerifyRead
<1>3. /\ LineWhole' /\ RepliesMade'
      /\ line' # NoLine /\ line'.op = op /\ line'.blob = VerifyBlob(p)
  BY <1>1, <1>2, NewLine, Zenon
<1>4. ComputeExpected'
  BY <1>3, Zenon DEF ComputeExpected
<1>5. VerifyExpected'
  <2>1. CVec(line'.blob).msg = p
    BY <1>2, <1>3, Zenon
  <2> QED BY <2>1, Zenon DEF VerifyExpected, ExpectedOf
<1> QED BY <1>3, <1>4, <1>5, Zenon DEF WireInv

LEMMA VerifyDrawn ==
  ASSUME NEW op \in DrawnOps \cap VerifyOps,
         NEW pub \in Bytes(1 .. MaxPub), NEW sig \in Bytes(1 .. MaxSig),
         NEW msg \in Bytes(1 .. MaxMsg), DrawVerify(op, Triple(pub, sig, msg))
  PROVE  WireInv'
<1>1. /\ 1 .. MaxPub \subseteq Nat /\ 1 .. MaxSig \subseteq Nat /\ 1 .. MaxMsg \subseteq Nat
      /\ 1 .. MaxPub \subseteq 0 .. Base * Base - 1
      /\ 1 .. MaxSig \subseteq 0 .. Base * Base - 1
  BY WireConstantsOK DEF WireConstantsOK
<1>2. /\ pub \in Seqs /\ sig \in Seqs /\ msg \in Seqs
      /\ Len(pub) \in 0 .. Base * Base - 1 /\ Len(sig) \in 0 .. Base * Base - 1
  <2>1. pub \in Seqs /\ Len(pub) \in 1 .. MaxPub
    BY <1>1, BytesAre
  <2>2. sig \in Seqs /\ Len(sig) \in 1 .. MaxSig
    BY <1>1, BytesAre
  <2>3. msg \in Seqs
    BY <1>1, BytesAre
  <2> QED BY <1>1, <2>1, <2>2, <2>3, Zenon
<1> DEFINE t == Triple(pub, sig, msg)
<1>3. AllRead(VerifyPayload(t), t)
  BY <1>2, PayloadRead
<1> HIDE DEF t
<1>4. /\ line' = [op |-> op, blob |-> VerifyBlob(VerifyPayload(t))]
      /\ expected' = t /\ replies' = <<>>
  BY Zenon DEF DrawVerify, t
<1>5. VerifyPayload(t) \in Seqs
  BY <1>3, Zenon DEF AllRead
<1>6. ExpectedOf(VerifyPayload(t))'
  <2>1. AllRead(VerifyPayload(t), expected')
    BY <1>3, <1>4, Zenon
  <2> QED BY <2>1, Zenon DEF ExpectedOf
<1> QED BY <1>4, <1>5, <1>6, PayloadDrawn, Zenon

LEMMA EmptyDrawn ==
  ASSUME NEW op \in DrawnOps \cap VerifyOps, DrawEmptyVerify(op) PROVE WireInv'
<1>1. <<>> \in Seqs
  BY DEF Seqs
<1>2. /\ line' = [op |-> op, blob |-> VerifyBlob(<<>>)]
      /\ expected' = Reject /\ replies' = <<>>
  BY Zenon DEF DrawEmptyVerify
<1>3. ExpectedOf(<<>>)'
  BY <1>2, Zenon DEF ExpectedOf
<1> QED BY <1>1, <1>2, <1>3, PayloadDrawn, Zenon

LEMMA AnythingDrawn ==
  ASSUME NEW op \in AnyOps, NEW blob \in Bytes(AnyBlob), DrawAnything(op, blob)
  PROVE  WireInv'
<1>1. op \in 0 .. 26 /\ AnyBlob \subseteq Nat
  BY WireConstantsOK DEF WireConstantsOK
<1>2. blob \in Seqs
  BY <1>1, BytesAre
<1>3. line' = [op |-> op, blob |-> blob] /\ replies' = <<>>
  BY Zenon DEF DrawAnything
<1>4. /\ LineWhole' /\ RepliesMade'
      /\ line' # NoLine /\ line'.op = op /\ line'.blob = blob
  BY <1>1, <1>2, <1>3, NewLine, Zenon
<1>5. op \notin VerifyOps => expected' = [hex |-> Result(op, CVec(blob))]
  BY Zenon DEF DrawAnything
<1>6. ComputeExpected'
  BY <1>4, <1>5, Zenon DEF ComputeExpected
<1>7. VerifyExpected'
  BY <1>4, Zenon DEF VerifyExpected, RunnerVerifies
<1> QED BY <1>4, <1>6, <1>7, Zenon DEF WireInv

LEMMA Answered ==
  ASSUME WireInv, Answer PROVE WireInv'
<1> USE DEF WireInv
<1> DEFINE made == {MadeOf(i) : i \in 1 .. Len(CliOrder)}
           n == Len(replies) + 1
<1>1. /\ line # NoLine /\ Len(replies) < Len(CliOrder)
      /\ replies' = Append(replies, MadeOf(n)) /\ line' = line /\ expected' = expected
  BY Zenon DEF Answer, MadeOf
<1>2. LineWhole' /\ ComputeExpected' /\ VerifyExpected'
  BY <1>1, Zenon DEF LineWhole, ComputeExpected, VerifyExpected, ExpectedOf
<1>3. \A i : MadeOf(i)' = MadeOf(i)
  BY <1>1, Zenon DEF MadeOf
<1>4. made' = made
  BY <1>3, Zenon
<1>5. replies \in Seq(made) /\ \A i \in 1 .. Len(replies) : replies[i] = MadeOf(i)
  BY Zenon DEF RepliesMade
<1>6. Len(CliOrder) \in Nat /\ Len(replies) \in Nat /\ n \in 1 .. Len(CliOrder)
  BY <1>1, <1>5, WireConstantsOK DEF WireConstantsOK
<1>7. MadeOf(n) \in made
  BY <1>6, Zenon
<1> HIDE DEF made
<1> DEFINE m == MadeOf(n)
<1>8. replies' = Append(replies, m)
  BY <1>1
<1>9. m \in made
  BY <1>7
<1> HIDE DEF m
<1>10. /\ replies' \in Seq(made) /\ Len(replies') = n
       /\ \A i \in 1 .. Len(replies) : replies'[i] = replies[i]
       /\ replies'[n] = m
  BY <1>5, <1>8, <1>9
<1>11. \A i \in 1 .. Len(replies') : i \in 1 .. Len(replies) \/ i = n
  BY <1>6, <1>10
<1>12. \A i \in 1 .. Len(replies') : replies'[i] = MadeOf(i)
  BY <1>5, <1>10, <1>11, Zenon DEF m
<1>13. Len(replies') <= Len(CliOrder)
  BY <1>6, <1>10
<1>14. RepliesMade'
  BY <1>1, <1>3, <1>4, <1>10, <1>12, <1>13, Zenon DEF RepliesMade, made
<1> QED BY <1>2, <1>14, Zenon

LEMMA WireInvInductive == Spec => []WireInv
<1>1. Init => WireInv
  <2> SUFFICES ASSUME Init PROVE WireInv
    OBVIOUS
  <2>1. line = NoLine /\ replies = <<>>
    BY DEF Init
  <2>2. Len(CliOrder) \in Nat
    BY WireConstantsOK DEF WireConstantsOK
  <2> QED BY <2>1, <2>2 DEF WireInv, LineWhole, ComputeExpected, VerifyExpected, RepliesMade
<1>2. WireInv /\ [Next]_wvars => WireInv'
  <2> SUFFICES ASSUME WireInv, [Next]_wvars PROVE WireInv'
    OBVIOUS
  <2>1. CASE Draws
    BY <2>1, ComputeDrawn, VerifyDrawn, EmptyDrawn, AnythingDrawn, Zenon DEF Draws
  <2>2. CASE Answer
    BY <2>2, Answered
  <2>3. CASE UNCHANGED wvars
    <3>1. line' = line /\ expected' = expected /\ replies' = replies
      BY <2>3 DEF wvars
    <3> QED BY <3>1, Zenon DEF WireInv, LineWhole, ComputeExpected, VerifyExpected,
                               ExpectedOf, RepliesMade, MadeOf
  <2> QED BY <2>1, <2>2, <2>3, Zenon DEF Next
<1> QED BY <1>1, <1>2, PTL DEF Spec

(* A request line is an operation of cmf_op_t and a string of bytes, and   *)
(* no CLI on the command line replies to it twice.                         *)
THEOREM WireTypes == Spec => []TypeOK
<1>1. WireInv => TypeOK
  <2> SUFFICES ASSUME WireInv PROVE TypeOK
    OBVIOUS
  <2>1. CASE line = NoLine
    BY <2>1 DEF WireInv, RepliesMade, TypeOK, NoLine
  <2>2. CASE line.op \in 0 .. 26 /\ line.blob \in Seqs
    BY <2>2 DEF WireInv, RepliesMade, TypeOK, Seqs
  <2> QED BY <2>1, <2>2, Zenon DEF WireInv, LineWhole
<1> QED BY <1>1, WireInvInductive, PTL

(* A reply there is belongs to a line there is.                            *)
LEMMA ReplyIs ==
  ASSUME WireInv, NEW i \in 1 .. Len(replies)
  PROVE  /\ line # NoLine /\ line.op \in 0 .. 26 /\ line.blob \in Seqs
         /\ replies[i] = MadeOf(i)
<1>1. line # NoLine
  BY DEF WireInv, RepliesMade
<1> QED BY <1>1, Zenon DEF WireInv, RepliesMade, LineWhole

(* Whatever the lengths, the operation, the CLIs and the line, whoever     *)
(* answers a compute line gave its library the very arguments the          *)
(* reference got: cmf_vec_parse and the parsers of the Go, Rust, Python    *)
(* and Java CLIs agree.                                                    *)
THEOREM WireSameArguments == Spec => []SameArguments
<1>1. WireInv => SameArguments
  <2> SUFFICES ASSUME WireInv, line.op \notin VerifyOps,
                      Len(line.blob) >= Need \/ line.op \in KeyMayBeMissing,
                      NEW i \in 1 .. Len(replies)
               PROVE  Abstains(replies[i]) \/ replies[i] = expected
    BY Zenon DEF SameArguments
  <2>1. /\ line # NoLine /\ line.op \in 0 .. 26 /\ line.blob \in Seqs
        /\ replies[i] = MadeOf(i)
    BY ReplyIs
  <2>2. expected = [hex |-> Result(line.op, CVec(line.blob))]
    BY <2>1, Zenon DEF WireInv, ComputeExpected
  <2>3. \/ Abstains(ReplyOf(CliOrder[i], line.op, line.blob))
        \/ ReplyOf(CliOrder[i], line.op, line.blob) = [hex |-> Result(line.op, CVec(line.blob))]
    BY <2>1, ComputeAnswer
  <2> QED BY <2>1, <2>2, <2>3, Zenon DEF MadeOf
<1> QED BY <1>1, WireInvInductive, PTL

(* The runner's verify lines, the empty payload included, mean the same    *)
(* verdict to cmf_verify_parse and to the three parsers of their own.      *)
THEOREM WireSameTriple ==
  ASSUME RunnerVerifies
  PROVE  Spec => []SameTriple
<1>1. WireInv => SameTriple
  <2> SUFFICES ASSUME WireInv, line.op \in VerifyOps, NEW i \in 1 .. Len(replies)
               PROVE  Abstains(replies[i]) \/ SameVerdict(replies[i], expected)
    BY Zenon DEF SameTriple
  <2> DEFINE p == CVec(line.blob).msg
             cli == CliOrder[i]
  <2>1. /\ line # NoLine /\ line.op \in 0 .. 26 /\ line.blob \in Seqs
        /\ replies[i] = ReplyOf(cli, line.op, line.blob)
    BY ReplyIs, Zenon DEF MadeOf
  <2>2. Abstains(replies[i]) \/ replies[i] = ParseVerify(cli, p)
    BY <2>1, VerifyAnswer, Zenon
  <2>3. \/ p = <<>> /\ expected = Reject
        \/ AllRead(p, expected)
    BY <2>1, Zenon DEF WireInv, VerifyExpected, ExpectedOf
  <2> HIDE DEF p, cli
  <2>4. CASE p = <<>> /\ expected = Reject
    <3>1. ParseVerify(cli, p) \in {Reject, Raise}
      BY <2>4, EmptyPayloadRead, Zenon DEF ParseVerify
    <3> QED BY <2>2, <2>4, <3>1, Zenon DEF SameVerdict
  <2>5. CASE AllRead(p, expected)
    <3>1. ParseVerify(cli, p) = expected
      BY <2>5, Zenon DEF AllRead, ParseVerify
    <3> QED BY <2>2, <3>1, Zenon DEF SameVerdict
  <2> QED BY <2>3, <2>4, <2>5
<1> QED BY <1>1, WireInvInductive, PTL

(* With all ten CLIs on the command line no operation is OpenSSL's alone:  *)
(* the dispatch tables of the CLIs cover cmf_op between them.              *)
THEOREM WireSomebodyAnswers ==
  ASSUME Clis \subseteq {CliOrder[i] : i \in 1 .. Len(CliOrder)}
  PROVE  Spec => []SomebodyAnswers
<1>1. WireInv => SomebodyAnswers
  <2> SUFFICES ASSUME WireInv, line # NoLine, Len(replies) = Len(CliOrder)
               PROVE  \E i \in 1 .. Len(replies) : ~ Abstains(replies[i])
    BY Zenon DEF SomebodyAnswers
  <2>1. line.op \in 0 .. 26
    BY Zenon DEF WireInv, LineWhole
  <2>2. OpsOf("go") = 0 .. 14 /\ OpsOf("libgcrypt") = (0 .. 8) \cup {10} \cup (15 .. 26)
    BY Zenon DEF OpsOf
  <2>3. line.op \in OpsOf("go") \/ line.op \in OpsOf("libgcrypt")
    BY <2>1, <2>2
  <2>4. PICK cli \in {"go", "libgcrypt"} : line.op \in OpsOf(cli)
    BY <2>3, Zenon
  <2>5. PICK i \in 1 .. Len(CliOrder) : CliOrder[i] = cli
    BY Zenon DEF Clis
  <2>6. replies[i] = ReplyOf(cli, line.op, line.blob)
    BY <2>5, Zenon DEF WireInv, RepliesMade, MadeOf
  <2> QED BY <2>4, <2>5, <2>6, DoesAnswer, Zenon
<1> QED BY <1>1, WireInvInductive, PTL
=============================================================================
