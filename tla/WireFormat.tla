----------------------------- MODULE WireFormat -----------------------------
(***************************************************************************)
(* The line protocol of compute_common.h as its eleven readers and its one *)
(* writer implement it: the runner lays a request out as bytes, and the    *)
(* compute CLIs take it apart again, the C and C++ ones with the parsers   *)
(* of compute_common.h, the Go, Rust, Python and Java ones with parsers of *)
(* their own, each on top of the bounds rules of its language.             *)
(*                                                                         *)
(* Byte strings are sequences over 0 .. Base - 1.  A primitive is not      *)
(* computed: its result is the record of the arguments it was given, and   *)
(* two CLIs agree when they gave a right library the same arguments.       *)
(***************************************************************************)
EXTENDS Integers, Sequences, FiniteSets

CONSTANTS
  Base,          \* 256
  KEYLEN, NONCELEN, X25519LEN,     \* CMF_KEYLEN, CMF_NONCELEN, CMF_X25519_LEN
  MaxAad, MaxMsg, MaxPub, MaxSig,  \* bounds on what the runner draws
  DrawnOps,      \* the operations drawn
  CliOrder,      \* the CLIs on the command line, in order
  AnyOps, AnyBlob  \* operations and lengths of arbitrary lines, besides

ASSUME WireConstantsOK ==
  /\ Base \in Nat \ {0, 1}
  /\ KEYLEN \in Nat \ {0} /\ NONCELEN \in Nat \ {0} /\ X25519LEN \in Nat \ {0}
  /\ {MaxAad, MaxMsg, MaxPub, MaxSig} \subseteq 0 .. Base * Base - 1
  /\ DrawnOps \cup AnyOps \subseteq 0 .. 26 /\ AnyBlob \subseteq Nat
  /\ CliOrder \in Seq(STRING)

Byte == 0 .. Base - 1
Bytes(lens) == UNION {[1 .. n -> Byte] : n \in lens}
Zeros(n) == [i \in 1 .. n |-> 0]

AeadOps   == {3, 4, 23, 24}
VerifyOps == {13, 14}

-----------------------------------------------------------------------------
(* The writer.                                                             *)

(* Mutation: the low byte is not masked.                                   *)
Two_NoMask(n) == <<(n \div Base) % Base, n>>

(* A length as two bytes, most significant first.                          *)
Two(n) == <<(n \div Base) % Base, n % Base>>

RequestBlob(v) == v.key \o v.nonce \o Two(Len(v.aad)) \o v.aad \o v.msg

VerifyPayload(t) == Two(Len(t.pub)) \o t.pub \o Two(Len(t.sig)) \o t.sig \o t.msg

VerifyBlob(payload) == Zeros(KEYLEN + NONCELEN + 2) \o payload

-----------------------------------------------------------------------------
(* The readers.  Offsets are the code's, counted from zero.                *)

At(s, off)         == s[off + 1]
Slice(s, off, len) == SubSeq(s, off + 1, off + len)
Num(s, off)        == At(s, off) * Base + At(s, off + 1)
From(s, off)       == Slice(s, off, Len(s) - off)
AtMost(n, m)       == IF n > m THEN m ELSE n

Need == KEYLEN + NONCELEN + 2

(* cmf_vec_parse: memset to zero first, "short blob: treat all of it as    *)
(* the message".                                                           *)
CVec(blob) ==
  IF Len(blob) < Need
  THEN [key |-> Zeros(KEYLEN), nonce |-> Zeros(NONCELEN), aad |-> <<>>, msg |-> blob]
  ELSE LET rest   == Len(blob) - Need
           aadlen == AtMost(Num(blob, KEYLEN + NONCELEN), rest)
       IN  [key   |-> Slice(blob, 0, KEYLEN),
            nonce |-> Slice(blob, KEYLEN, NONCELEN),
            aad   |-> Slice(blob, Need, aadlen),
            msg   |-> Slice(blob, Need + aadlen, rest - aadlen)]

(* Mutation: the length of the associated data is not bounded by the rest. *)
GoVec_Unbounded(blob) ==
  IF Len(blob) < Need
  THEN [key |-> <<>>, nonce |-> <<>>, aad |-> <<>>, msg |-> blob]
  ELSE LET rest   == From(blob, Need)
           aadlen == Num(blob, KEYLEN + NONCELEN)
       IN  [key |-> Slice(blob, 0, KEYLEN), nonce |-> Slice(blob, KEYLEN, NONCELEN),
            aad |-> SubSeq(rest, 1, AtMost(aadlen, Len(rest))),
            msg |-> IF aadlen > Len(rest) THEN rest ELSE From(rest, aadlen)]

(* parseVec and aeadFromBlob of the Go CLI, parse_vec and aead_from_blob   *)
(* of the Rust one.                                                        *)
GoVec(blob) ==
  IF Len(blob) < Need
  THEN [key |-> <<>>, nonce |-> <<>>, aad |-> <<>>, msg |-> blob]
  ELSE LET p      == From(blob, KEYLEN + NONCELEN)
           rest   == From(blob, Need)
           aadlen == AtMost(Num(p, 0), Len(rest))
       IN  [key |-> Slice(blob, 0, KEYLEN), nonce |-> Slice(blob, KEYLEN, NONCELEN),
            aad |-> Slice(rest, 0, aadlen), msg |-> From(rest, aadlen)]

(* parse of the Python CLI; blob[a:b] clamps to the end of blob.           *)
PySlice(s, a, z) == SubSeq(s, a + 1, AtMost(z, Len(s)))
PyFrom(s, a)     == SubSeq(s, a + 1, Len(s))

PyVec(blob) ==
  IF Len(blob) < Need
  THEN [key |-> <<>>, nonce |-> <<>>, aad |-> <<>>, msg |-> blob]
  ELSE LET p      == PyFrom(blob, KEYLEN + NONCELEN)
           rest   == PyFrom(p, 2)
           aadlen == AtMost(Num(p, 0), Len(rest))
       IN  [key |-> PySlice(blob, 0, KEYLEN),
            nonce |-> PySlice(blob, KEYLEN, KEYLEN + NONCELEN),
            aad |-> PySlice(rest, 0, aadlen), msg |-> PyFrom(rest, aadlen)]

(* parse of the Java CLI.                                                  *)
JavaVec(blob) ==
  IF Len(blob) < Need
  THEN [key |-> Zeros(KEYLEN), nonce |-> Zeros(NONCELEN), aad |-> <<>>, msg |-> blob]
  ELSE LET p      == KEYLEN + NONCELEN
           rest   == Len(blob) - Need
           aadlen == AtMost(Num(blob, p), rest)
       IN  [key |-> Slice(blob, 0, KEYLEN), nonce |-> Slice(blob, KEYLEN, NONCELEN),
            aad |-> Slice(blob, Need, aadlen),
            msg |-> Slice(blob, Need + aadlen, rest - aadlen)]

-----------------------------------------------------------------------------
(* The verify payload.  A parser gives the triple it hands to the library, *)
(* or the reply it makes instead.                                          *)
Triple(pub, sig, msg) == [pub |-> pub, sig |-> sig, msg |-> msg]
Reject == [reply |-> "00"]
Raise  == [reply |-> "ERR"]

(* cmf_verify_parse; a failure leaves the verdict 0.                       *)
CVerify(p) ==
  IF Len(p) < 2 THEN Reject
  ELSE LET pl == Num(p, 0)
       IN  IF 2 + pl + 2 > Len(p) THEN Reject
           ELSE LET sl  == Num(p, 2 + pl)
                    off == 2 + pl + 2
                IN  IF off + sl > Len(p) THEN Reject
                    ELSE Triple(Slice(p, 2, pl), Slice(p, off, sl), From(p, off + sl))

(* Mutation: the signature starts at its own length bytes.                 *)
GoVerify_SigAtLength(p) ==
  IF Len(p) < 2 THEN Reject
  ELSE LET pl == Num(p, 0)
       IN  IF 2 + pl + 2 > Len(p) THEN Reject
           ELSE LET sl  == Num(p, 2 + pl)
                    off == 2 + pl
                IN  IF off + sl > Len(p) THEN Reject
                    ELSE Triple(Slice(p, 2, pl), Slice(p, off, sl), From(p, off + sl))

(* parseVerifyPayload (Go) and parse_verify_payload (Rust): "00" when the  *)
(* payload is malformed.                                                   *)
GoVerify(p) ==
  IF Len(p) < 2 THEN Reject
  ELSE LET pl == Num(p, 0)
       IN  IF 2 + pl + 2 > Len(p) THEN Reject
           ELSE LET sl  == Num(p, 2 + pl)
                    off == 2 + pl + 2
                IN  IF off + sl > Len(p) THEN Reject
                    ELSE Triple(Slice(p, 2, pl), Slice(p, off, sl), From(p, off + sl))

(* parse_verify (Python): slices clamp, an index past the end raises.      *)
PyVerify(p) ==
  IF Len(p) < 2 THEN Raise
  ELSE LET pl  == Num(p, 0)
           off == 2 + pl
       IN  IF off + 1 >= Len(p) THEN Raise
           ELSE LET sl == Num(p, off)
                IN  Triple(PySlice(p, 2, off), PySlice(p, off + 2, off + 2 + sl),
                           PyFrom(p, off + 2 + sl))

(* parseVerify (Java): every index and slice out of bounds throws.         *)
JavaVerify(p) ==
  IF Len(p) < 2 THEN Raise
  ELSE LET pl  == Num(p, 0)
           off == 2 + pl
       IN  IF off + 1 >= Len(p) THEN Raise
           ELSE LET sl == Num(p, off)
                IN  IF off + 2 + sl > Len(p) THEN Raise
                    ELSE Triple(Slice(p, 2, pl), Slice(p, off + 2, sl),
                                From(p, off + 2 + sl))

-----------------------------------------------------------------------------
(* The CLIs.                                                               *)
Clis == {"boringssl", "aws_lc", "wolfssl", "botan", "libgcrypt", "nettle",
         "pycryptodome", "go", "rust", "bouncycastle"}

(* Mutation: the libgcrypt dispatch without its Poly1305 case.             *)
OpsOf_NoPoly1305(cli) ==
  CASE cli = "boringssl"    -> (0 .. 4) \cup (9 .. 14)
    [] cli = "libgcrypt"    -> (0 .. 8) \cup {10} \cup ((15 .. 26) \ {25})
    [] cli = "nettle"       -> (0 .. 6) \cup (8 .. 12) \cup (15 .. 24) \cup {26}
    [] cli = "pycryptodome" -> (0 .. 11) \cup {13, 14}
    [] OTHER                -> 0 .. 14

(* The cases of the dispatch; everything else replies NA.                  *)
OpsOf(cli) ==
  CASE cli = "boringssl"    -> (0 .. 4) \cup (9 .. 14)
    [] cli = "libgcrypt"    -> (0 .. 8) \cup {10} \cup (15 .. 26)
    [] cli = "nettle"       -> (0 .. 6) \cup (8 .. 12) \cup (15 .. 24) \cup {26}
    [] cli = "pycryptodome" -> (0 .. 11) \cup {13, 14}
    [] OTHER                -> 0 .. 14

Parse(cli, blob) ==
  CASE cli \in {"go", "rust"}  -> GoVec(blob)
    [] cli = "pycryptodome"    -> PyVec(blob)
    [] cli = "bouncycastle"    -> JavaVec(blob)
    [] OTHER                   -> CVec(blob)

ParseVerify(cli, payload) ==
  CASE cli \in {"go", "rust"}  -> GoVerify(payload)
    [] cli = "pycryptodome"    -> PyVerify(payload)
    [] cli = "bouncycastle"    -> JavaVerify(payload)
    [] OTHER                   -> CVerify(payload)

(* HMAC fills a short key up with zeros.                                   *)
Pad(key) == key \o Zeros(KEYLEN - Len(key))

(* What an operation computes is determined by the fields it uses.         *)
Result(op, v) ==
  CASE op \in {0, 1, 5, 6, 7, 8} \cup (15 .. 19) -> <<op, v.msg>>
    [] op \in {2} \cup (20 .. 22)                -> <<op, Pad(v.key), v.msg>>
    [] op \in AeadOps                            -> <<op, v.key, v.nonce, v.aad, v.msg>>
    [] op = 9                                    -> <<op, Pad(v.key), v.aad, v.msg>>
    [] op = 12                                   -> <<op, v.key, Slice(v.msg, 0, X25519LEN)>>
    [] OTHER                                     -> <<op, v.key, v.msg>>

(* The libraries refuse a key that is not there.                           *)
Refused(op, v) == op \in AeadOps \cup {11, 12} /\ Len(v.key) < KEYLEN

ReplyOf(cli, op, blob) ==
  LET v == Parse(cli, blob)
  IN  IF op \notin OpsOf(cli) THEN [reply |-> "NA"]
      ELSE IF op \in VerifyOps THEN ParseVerify(cli, v.msg)
      ELSE IF Refused(op, v) THEN Raise
      ELSE [hex |-> Result(op, v)]

-----------------------------------------------------------------------------
VARIABLES line,      \* the request line: operation and blob
          expected,  \* what the reference computed for it
          replies    \* the replies of the first CLIs of CliOrder

wvars == <<line, expected, replies>>

NoLine == [op |-> -1, blob |-> <<>>]

Init ==
  /\ line = NoLine
  /\ expected = [reply |-> "NA"]
  /\ replies = <<>>

Drawing == line = NoLine \/ Len(replies) = Len(CliOrder)

(* A compute vector: the runner keeps the fields it laid out and hands     *)
(* them to OpenSSL.                                                        *)
DrawCompute(op, v) ==
  /\ Drawing
  /\ line' = [op |-> op, blob |-> RequestBlob(v)]
  /\ expected' = [hex |-> Result(op, v)]
  /\ replies' = <<>>

(* A verify vector: OpenSSL's verdict is that of the triple itself.        *)
DrawVerify(op, t) ==
  /\ Drawing
  /\ line' = [op |-> op, blob |-> VerifyBlob(VerifyPayload(t))]
  /\ expected' = t
  /\ replies' = <<>>

(* The payload generator failed: "every backend will reply reject".        *)
DrawEmptyVerify(op) ==
  /\ Drawing
  /\ line' = [op |-> op, blob |-> VerifyBlob(<<>>)]
  /\ expected' = Reject
  /\ replies' = <<>>

(* A line from somebody else than the runner, read by compute_common.h.    *)
DrawAnything(op, blob) ==
  /\ Drawing
  /\ line' = [op |-> op, blob |-> blob]
  /\ expected' = (LET v == CVec(blob)
                  IN  IF op \in VerifyOps THEN CVerify(v.msg)
                      ELSE [hex |-> Result(op, v)])
  /\ replies' = <<>>

(* The next CLI takes the line apart and replies.                          *)
Answer ==
  /\ line # NoLine /\ Len(replies) < Len(CliOrder)
  /\ replies' = Append(replies,
                       ReplyOf(CliOrder[Len(replies) + 1], line.op, line.blob))
  /\ UNCHANGED <<line, expected>>

Draws ==
  \/ \E op \in DrawnOps \ VerifyOps :
       \E aad \in Bytes(IF op \in AeadOps \cup {9} THEN 0 .. MaxAad ELSE {0}),
          msg \in Bytes(IF op = 12 THEN {X25519LEN} ELSE 0 .. MaxMsg),
          key \in [1 .. KEYLEN -> Byte], nonce \in [1 .. NONCELEN -> Byte] :
         DrawCompute(op, [key |-> key, nonce |-> nonce, aad |-> aad, msg |-> msg])
  \/ \E op \in DrawnOps \cap VerifyOps :
       \/ \E pub \in Bytes(1 .. MaxPub), sig \in Bytes(1 .. MaxSig),
             msg \in Bytes(1 .. MaxMsg) : DrawVerify(op, Triple(pub, sig, msg))
       \/ DrawEmptyVerify(op)
  \/ \E op \in AnyOps, blob \in Bytes(AnyBlob) : DrawAnything(op, blob)

Next == Draws \/ Answer

Spec == Init /\ [][Next]_wvars

-----------------------------------------------------------------------------
(* Types: byte strings of bytes, no more replies than CLIs.                *)
TypeOK ==
  /\ line.op \in -1 .. 26
  /\ \A i \in 1 .. Len(line.blob) : line.blob[i] \in Byte
  /\ Len(replies) <= Len(CliOrder)

Abstains(r) == r = [reply |-> "NA"]

(* The accept bit of a verify reply: a malformed payload is refused,       *)
(* whether by verdict or by error; a well-formed one gives the library's   *)
(* verdict on the triple.                                                  *)
SameVerdict(r, s) == r = s \/ (r \in {Reject, Raise} /\ s \in {Reject, Raise})

(* Operations for which a key that is not there and a zero key are alike.  *)
KeyMayBeMissing == {0, 1, 2} \cup (5 .. 9) \cup (15 .. 22)

(* "agreement is by construction": whatever the runner sends, and whatever *)
(* anybody sends with a whole header, its length bytes lying or not, every *)
(* CLI that answers gives its library exactly the arguments OpenSSL got,   *)
(* through four independent parsers; so any divergence is the library's.   *)
(* A blob shorter than its header has a zero key for some parsers and none *)
(* for others, and they agree only where that makes no difference.         *)
SameArguments ==
  line.op \notin VerifyOps
  /\ (Len(line.blob) >= Need \/ line.op \in KeyMayBeMissing) =>
    \A i \in 1 .. Len(replies) : Abstains(replies[i]) \/ replies[i] = expected

(* The same for the nested payload of the verify operations, the empty     *)
(* one included, up to the accept bit the oracle compares.                 *)
SameTriple ==
  line.op \in VerifyOps =>
    \A i \in 1 .. Len(replies) :
      Abstains(replies[i]) \/ SameVerdict(replies[i], expected)

(* No operation the runner draws is left to OpenSSL alone: with all CLIs   *)
(* on the command line somebody answers every request.                     *)
SomebodyAnswers ==
  line # NoLine /\ Len(replies) = Len(CliOrder) =>
    \E i \in 1 .. Len(replies) : ~ Abstains(replies[i])
=============================================================================
