----------------------------- MODULE ComputeCli -----------------------------
(***************************************************************************)
(* The six compute CLIs in C and C++: main() reads one request line after  *)
(* another, and the function of the operation makes its calls into the     *)
(* library, any of which may fail, writes into a buffer shared by all      *)
(* requests, and releases what it has acquired.                            *)
(*                                                                         *)
(* A function is a table: its calls in order, and the releases at its end. *)
(* What is computed, and the corruption of a self-test build, are in       *)
(* DiffRunner; where the arguments come from is in WireFormat.             *)
(***************************************************************************)
EXTENDS Integers, Sequences

CONSTANT Clis

C_Clis == {"boringssl", "aws_lc", "wolfssl", "botan", "libgcrypt", "nettle"}

ASSUME ClisOK == Clis \subseteq C_Clis

VARIABLES
  cli,         \* the program
  pc,
  op,          \* of this request, v.op
  at,          \* calls of its function made so far
  todo,        \* releases to be made before the reply
  obj,         \* objects: "unset", "live", "given" to another, "freed"
  owned,       \* objects another one will free
  out,         \* out[]: who has written each part of it
  n, rc,       \* the parts *n covers; the return code
  verdict,     \* what the library said of a signature
  failed,      \* whether a call of this request reported failure
  misuse,      \* what was done to an object that was not live
  reply        \* the line printed

cvars == <<cli, pc, op, at, todo, obj, owned, out, n, rc, verdict, failed,
           misuse, reply>>

Ops       == 0 .. 27           \* 27 stands for any number nobody implements
VerifyOps == {13, 14}
Parts     == {"body", "tag"}

(* What must be released, and states of objects that need not be.          *)
Resources == {"blob", "ctx", "priv", "peer", "rng", "key", "rsa", "n", "e", "pt"}
Settings  == {"stack", "pub", "blinding"}

-----------------------------------------------------------------------------
(* The calls.  On failure the function goes on with the next call ("next", *)
(* the status is looked at later or never), leaves ("return") after the    *)
(* releases in undo, or goes to its releases ("tail").                     *)
Step(do, takes, needs, writes, orelse, undo) ==
  [do |-> do, takes |-> takes, needs |-> needs, writes |-> writes,
   orelse |-> orelse, undo |-> undo]

Acquire(o)             == Step("call", {o}, {}, {}, "return", <<>>)
AcquireUndo(o, undo)   == Step("call", {o}, {}, {}, "return", undo)
Allocate(o)            == Step("call", {o}, {}, {}, "next", <<>>)
Call(needs)            == Step("call", {}, needs, {}, "tail", <<>>)
Sets(o, needs)         == Step("call", {o}, needs, {}, "tail", <<>>)
Writes(needs, parts)   == Step("call", {}, needs, parts, "tail", <<>>)
First(parts)           == Step("call", {}, {}, parts, "return", <<>>)
Void(needs, parts)     == Step("void", {}, needs, parts, "next", <<>>)
Initialises(o)         == Step("void", {o}, {}, {}, "next", <<>>)
Check(objs)            == Step("check", {}, objs, {}, "tail", <<>>)
Gives(objs)            == Step("give", objs, {}, {}, "next", <<>>)
Verifies(needs)        == Step("verify", {}, needs, {}, "tail", <<>>)

Function(steps, tail) == [steps |-> steps, tail |-> tail]
NotImplemented        == Function(<<>>, <<>>)

(* cmf_verify_parse refuses the payload: verdict 0.                        *)
ParsePayload == First({})

OneShot == Function(<<First({"body"})>>, <<>>)

-----------------------------------------------------------------------------
(* A context, made first and released last.                                *)
WithContext(calls) == Function(<<Acquire("ctx")>> \o calls, <<"ctx">>)

(* compute_wolfssl.c                                                       *)

WolfShake == WithContext(<<Call({"ctx"}), Writes({"ctx"}, {"body"})>>)
WolfHmac  == WithContext(<<Call({"ctx"}), Call({"ctx"}), Writes({"ctx"}, {"body"})>>)
WolfChachaPoly == Function(<<First({"body"}), Void({}, {"tag"})>>, <<>>)
WolfAesGcm == WithContext(<<Call({"ctx"}), Writes({"ctx"}, {"body"}), Void({}, {"tag"})>>)

(* Mutation: the public key is made but not imported back.                 *)
WolfEd25519_NoImport == WithContext(<<
  Call({"ctx"}), Call({"ctx"}), Writes({"ctx", "pub"}, {"body"})>>)

(* make_public only writes to a buffer; the signer needs the key imported. *)
WolfEd25519 == WithContext(<<
  Call({"ctx"}), Call({"ctx"}), Sets("pub", {"ctx"}),
  Writes({"ctx", "pub"}, {"body"})>>)

(* Mutation: the generator does not start, and the peer key is not freed.  *)
WolfX25519_RngLeak == Function(<<
  Acquire("priv"), AcquireUndo("peer", <<"priv">>), AcquireUndo("rng", <<"priv">>),
  Call({"priv"}), Call({"peer"}), Sets("blinding", {"priv", "rng"}),
  Writes({"priv", "peer", "blinding"}, {"body"})>>,
  <<"rng", "peer", "priv">>)

(* Blinding needs a generator on the private key.                          *)
WolfX25519 == Function(<<
  Acquire("priv"), AcquireUndo("peer", <<"priv">>),
  AcquireUndo("rng", <<"peer", "priv">>),
  Call({"priv"}), Call({"peer"}), Sets("blinding", {"priv", "rng"}),
  Writes({"priv", "peer", "blinding"}, {"body"})>>,
  <<"rng", "peer", "priv">>)

(* rsa_pss_verify and ecdsa_verify: hash, init, import, verify.            *)
WolfVerify == Function(<<
  ParsePayload, First({}), Acquire("key"), Call({"key"}), Verifies({"key"})>>,
  <<"key">>)

Wolfssl(o) ==
  CASE o \in {0, 1, 5, 6, 9, 10} -> OneShot
    [] o = 2          -> WolfHmac
    [] o = 3          -> WolfChachaPoly
    [] o = 4          -> WolfAesGcm
    [] o \in {7, 8}   -> WolfShake
    [] o = 11         -> WolfEd25519
    [] o = 12         -> WolfX25519
    [] o \in VerifyOps -> WolfVerify
    [] OTHER          -> NotImplemented

-----------------------------------------------------------------------------
(* compute_aws_lc.c and compute_boringssl.c                                *)
BoringXof == WithContext(<<Call({"ctx"}), Call({"ctx"}), Writes({"ctx"}, {"body"})>>)

(* Mutation: the status of EVP_AEAD_CTX_seal is not looked at.             *)
BoringAead_Unchecked == Function(<<
  Acquire("ctx"), Step("call", {}, {"ctx"}, Parts, "next", <<>>)>>, <<"ctx">>)

BoringAead == WithContext(<<Writes({"ctx"}, Parts)>>)
BoringEd25519 == Function(<<Void({}, {}), First({"body"})>>, <<>>)

(* EC_KEY and EC_POINT                                                     *)
BoringEcdsa == Function(<<
  ParsePayload, Void({}, {}), Acquire("key"), Allocate("pt"), Check({"pt"}),
  Call({"pt"}), Call({"key", "pt"}), Verifies({"key"})>>, <<"pt", "key">>)

(* Mutation: n and e are not set to NULL after RSA_set0_key.               *)
Given_Kept(s, o) == IF o \in s.takes THEN "live" ELSE obj[o]

(* RSA_set0_key hands n and e over to rsa; "n = NULL; e = NULL".           *)
Given(s, o) == IF o \in s.takes THEN "given" ELSE obj[o]

BoringRsaPss == Function(<<
  ParsePayload, Void({}, {}), Allocate("rsa"), Allocate("n"), Allocate("e"),
  Check({"rsa", "n", "e"}), Call({"e"}), Call({"rsa", "n", "e"}),
  Gives({"n", "e"}), Verifies({"rsa"})>>, <<"n", "e", "rsa">>)

(* BoringSSL exposes no SHA-3 and no SHAKE.                                *)
Boring(o) ==
  CASE o \in {0, 1, 2, 9, 10, 12} -> OneShot
    [] o \in {5, 6}   -> IF cli = "aws_lc" THEN OneShot ELSE NotImplemented
    [] o \in {7, 8}   -> IF cli = "aws_lc" THEN BoringXof ELSE NotImplemented
    [] o \in {3, 4}   -> BoringAead
    [] o = 11         -> BoringEd25519
    [] o = 13         -> BoringEcdsa
    [] o = 14         -> BoringRsaPss
    [] OTHER          -> NotImplemented

-----------------------------------------------------------------------------
(* compute_botan.cpp: objects release themselves, calls fail by throwing,  *)
(* and results are copied to out[] when they are complete.                 *)
BotanMode(k, parts) == WithContext([i \in 1 .. k |-> Call({"ctx"})] \o <<Void({}, parts)>>)

BotanVerify == Function(<<
  ParsePayload, Call({}), Acquire("key"), Acquire("ctx"),
  Verifies({"ctx", "key"})>>, <<"ctx", "key">>)

Botan(o) ==
  CASE o \in {0, 1, 5, 6, 7, 8} -> BotanMode(2, {"body"})
    [] o = 2          -> BotanMode(3, {"body"})
    [] o \in {3, 4}   -> BotanMode(4, Parts)
    [] o \in {9, 10}  -> WithContext(<<Writes({"ctx"}, {"body"})>>)
    [] o = 11         -> BotanMode(2, {"body"})
    [] o = 12         -> BotanMode(1, {"body"})
    [] o \in VerifyOps -> BotanVerify
    [] OTHER          -> NotImplemented

-----------------------------------------------------------------------------
(* compute_libgcrypt.c: handles; gcry_md_hash_buffer has no status.        *)
GcryAead == WithContext(<<Call({"ctx"}), Call({"ctx"}), Call({"ctx"}),
                          Writes({"ctx"}, {"body"}), Writes({"ctx"}, {"tag"})>>)

Libgcrypt(o) ==
  CASE o \in {0, 1, 5, 6} \cup (15 .. 19) -> Function(<<Void({}, {"body"})>>, <<>>)
    [] o \in {7, 8}   -> WithContext(<<Void({"ctx"}, {}), Writes({"ctx"}, {"body"})>>)
    [] o \in {2, 20, 21, 22, 25, 26} ->
         WithContext(<<Call({"ctx"}), Call({"ctx"}), Writes({"ctx"}, {"body"})>>)
    [] o \in {3, 4, 23, 24} -> GcryAead
    [] o = 10         -> OneShot
    [] OTHER          -> NotImplemented

(* compute_nettle.c: contexts on the stack, and no call has a status.      *)
NettleContext(k, parts) == Function(
  <<Initialises("stack")>> \o [i \in 1 .. k |-> Void({"stack"}, {})]
    \o <<Void({"stack"}, {"body"})>>
    \o (IF "tag" \in parts THEN <<Void({"stack"}, {"tag"})>> ELSE <<>>), <<>>)

Nettle(o) ==
  CASE o \in {0, 1, 2, 5, 6, 8, 26} \cup (15 .. 22) -> NettleContext(1, {"body"})
    [] o \in {3, 4, 23, 24} -> NettleContext(2, Parts)
    [] o = 9          -> NettleContext(2, {"body"})
    [] o \in {10, 11, 12} -> Function(<<Void({}, {"body"})>>, <<>>)
    [] OTHER          -> NotImplemented

FunctionOf(o) ==
  CASE cli = "wolfssl"                 -> Wolfssl(o)
    [] cli \in {"aws_lc", "boringssl"} -> Boring(o)
    [] cli = "botan"                   -> Botan(o)
    [] cli = "libgcrypt"               -> Libgcrypt(o)
    [] cli = "nettle"                  -> Nettle(o)

AeadOps == {3, 4, 23, 24}
Covers == IF op \in AeadOps THEN Parts ELSE {"body"}       \* *n at the end

-----------------------------------------------------------------------------
Init ==
  /\ cli \in Clis
  /\ pc = "read" /\ op = 0 /\ at = 0 /\ todo = <<>>
  /\ obj = [o \in Resources \cup Settings |-> "unset"] /\ owned = {}
  /\ out = [p \in Parts |-> "nobody"]
  /\ n = {} /\ rc = -1 /\ verdict = "none"
  /\ failed = FALSE /\ misuse = {} /\ reply = [text |-> "none"]

(* getline and the locals of the loop; cmf_vec_parse fails or gives the    *)
(* operation and a blob.                                                   *)
Read ==
  /\ pc = "read"
  /\ out' = [p \in Parts |-> IF out[p] = "nobody" THEN "nobody" ELSE "an earlier request"]
  /\ at' = 0 /\ owned' = {} /\ n' = {} /\ verdict' = "none"
  /\ \/ /\ rc' = -1 /\ failed' = TRUE
        /\ obj' = [o \in DOMAIN obj |-> "unset"]
        /\ pc' = "print" /\ todo' = <<>> /\ op' = 0
     \/ \E o \in Ops :
          /\ op' = o /\ failed' = FALSE
          /\ obj' = [x \in DOMAIN obj |-> IF x = "blob" THEN "live" ELSE "unset"]
          /\ IF FunctionOf(o) = NotImplemented
             THEN rc' = -2 /\ pc' = "free" /\ todo' = <<"blob">>
             ELSE rc' = -1 /\ pc' = "call" /\ todo' = <<>>
  /\ reply' = [text |-> "none"]
  /\ UNCHANGED <<cli, misuse>>

(* End of the input: free(line), return 0.                                 *)
EndOfInput ==
  /\ pc = "read" /\ pc' = "exited"
  /\ UNCHANGED <<cli, op, at, todo, obj, owned, out, n, rc, verdict, failed,
                 misuse, reply>>

-----------------------------------------------------------------------------
Steps == FunctionOf(op).steps
AtTheEnd == FunctionOf(op).tail
Now   == Steps[at + 1]

Calling(kinds) == pc = "call" /\ at < Len(Steps) /\ Now.do \in kinds

Misused(what, objs) == misuse' = misuse \cup [what : {what}, obj : objs]
NotLive(objs) == {o \in objs : obj[o] # "live"}

(* The call does what it is for.                                           *)
Succeeds ==
  /\ Calling({"call", "void", "give"})
  /\ obj' = IF Now.do = "give" THEN [o \in DOMAIN obj |-> Given(Now, o)]
            ELSE [o \in DOMAIN obj |-> IF o \in Now.takes THEN "live" ELSE obj[o]]
  /\ owned' = IF Now.do = "give" THEN Now.takes ELSE owned
  /\ out' = [p \in Parts |-> IF p \in Now.writes THEN "this request" ELSE out[p]]
  /\ Misused("used", NotLive(Now.needs))
  /\ at' = at + 1
  /\ UNCHANGED <<cli, pc, op, todo, n, rc, verdict, failed, reply>>

(* Mutation: *n is set whether or not the call succeeded.                  *)
Leaves_LengthAnyway(releases, done) ==
  /\ pc' = "free" /\ todo' = releases \o <<"blob">>
  /\ rc' = IF done \/ op \in VerifyOps THEN 0 ELSE -1
  /\ n' = IF op \in VerifyOps THEN {"body"} ELSE Covers
  /\ out' = IF op \in VerifyOps THEN [out EXCEPT !["body"] = "this request"] ELSE out

(* The function returns: a verification with its verdict in out[0] and a   *)
(* return code of 0, anything else with 0 only when all went well.         *)
Leaves(releases, done) ==
  /\ pc' = "free" /\ todo' = releases \o <<"blob">>
  /\ rc' = IF done \/ op \in VerifyOps THEN 0 ELSE -1
  /\ n' = IF op \in VerifyOps THEN {"body"} ELSE IF done THEN Covers ELSE {}
  /\ out' = IF op \in VerifyOps THEN [out EXCEPT !["body"] = "this request"] ELSE out

(* A C++ exception unwinds through the destructors.                        *)
Unwinds == cli = "botan"

Fails ==
  /\ Calling({"call"})
  /\ failed' = TRUE
  /\ Misused("used", NotLive(Now.needs))
  /\ CASE Now.orelse = "next" -> at' = at + 1 /\ UNCHANGED <<pc, todo, out, n, rc>>
       [] OTHER -> /\ UNCHANGED at
                   /\ Leaves(IF Now.orelse = "return" /\ ~ Unwinds THEN Now.undo
                             ELSE AtTheEnd, FALSE)
  /\ UNCHANGED <<cli, op, obj, owned, verdict, reply>>

(* if (rsa && n && e ...)                                                  *)
Checks ==
  /\ Calling({"check"})
  /\ IF NotLive(Now.needs) = {}
     THEN at' = at + 1 /\ UNCHANGED <<pc, todo, out, n, rc>>
     ELSE Leaves(AtTheEnd, FALSE) /\ UNCHANGED at
  /\ UNCHANGED <<cli, op, obj, owned, verdict, failed, misuse, reply>>

(* The library's verdict, or an error of its own.                          *)
VerifiesNow ==
  /\ Calling({"verify"})
  /\ verdict' \in {"valid", "invalid", "error"}
  /\ Misused("used", NotLive(Now.needs))
  /\ at' = at + 1
  /\ UNCHANGED <<cli, pc, op, todo, obj, owned, out, n, rc, failed, reply>>

Finishes ==
  /\ pc = "call" /\ at = Len(Steps)
  /\ Leaves(AtTheEnd, TRUE)
  /\ UNCHANGED <<cli, op, at, obj, owned, verdict, failed, misuse, reply>>

(* A pointer that is NULL, because nothing was allocated or it was given   *)
(* away, is no release at all, and only what was constructed is destroyed. *)
Pointers == cli \in {"aws_lc", "boringssl"}

NoRelease(o) ==
  \/ Pointers /\ obj[o] \in {"unset", "given"}
  \/ Unwinds /\ obj[o] = "unset"

(* One release.  A structure that was never initialised must not be        *)
(* released; an owner takes along what it owns.                            *)
Owner == "rsa"

Releases ==
  /\ pc = "free" /\ todo # <<>>
  /\ LET o == Head(todo)
         along == IF o = Owner /\ obj[o] = "live" THEN owned ELSE {}
     IN IF obj[o] = "live"
        THEN /\ obj' = [x \in DOMAIN obj |-> IF x \in {o} \cup along THEN "freed" ELSE obj[x]]
             /\ Misused("released twice", {x \in along : obj[x] = "freed"})
        ELSE /\ UNCHANGED obj
             /\ Misused("released", IF NoRelease(o) THEN {} ELSE {o})
  /\ todo' = Tail(todo)
  /\ UNCHANGED <<cli, pc, op, at, owned, out, n, rc, verdict, failed, reply>>

(* Mutation: RSA_verify_pss_mgf1 != 0, an error being negative.            *)
Accepts_NotZero(result) == result \in {"valid", "error"}

(* "== 1", "> 0", or no exception and TRUE.                                *)
Accepts(result) == result = "valid"

Released ==
  /\ pc = "free" /\ todo = <<>> /\ pc' = "print"
  /\ UNCHANGED <<cli, op, at, todo, obj, owned, out, n, rc, verdict, failed,
                 misuse, reply>>

(* NA, ERR, or cmf_hexprint; every line is flushed.                        *)
Prints ==
  /\ pc = "print" /\ pc' = "read"
  /\ reply' = CASE rc = -2 -> [text |-> "NA"]
                [] rc = -1 -> [text |-> "ERR"]
                [] OTHER   -> [text |-> "hex", by |-> {out[p] : p \in n},
                               accept |-> Accepts(verdict)]
  /\ UNCHANGED <<cli, op, at, todo, obj, owned, out, n, rc, verdict, failed, misuse>>

Exited == pc = "exited" /\ UNCHANGED cvars

Next ==
  \/ Read \/ EndOfInput \/ Succeeds \/ Fails \/ Checks \/ VerifiesNow
  \/ Finishes \/ Releases \/ Released \/ Prints \/ Exited

Spec == Init /\ [][Next]_cvars

-----------------------------------------------------------------------------
(* Types; *n covers something exactly when the return code is 0.           *)
TypeOK ==
  /\ cli \in Clis /\ op \in Ops
  /\ pc \in {"read", "call", "free", "print", "exited"}
  /\ at \in 0 .. Len(Steps)
  /\ obj \in [Resources \cup Settings -> {"unset", "live", "given", "freed"}]
  /\ (n # {}) <=> (rc = 0)
  /\ pc = "call" => obj["blob"] = "live" /\ todo = <<>>

(* Whichever call of whichever function fails, everything it has acquired  *)
(* is released once and nothing else is: no object is used or released     *)
(* before it is initialised, after it is released, or when it belongs to   *)
(* another, and nothing is held when the next line is read.  (The          *)
(* explicit releases of compute_wolfssl.c:91-99, the transfer to RSA at    *)
(* compute_aws_lc.c:38, the early returns everywhere.)                     *)
ReleasedOnce ==
  /\ misuse = {}
  /\ pc \in {"read", "exited"} =>
       \A o \in Resources : obj[o] \in {"unset", "freed"}

(* out[] outlives a request.  A reply in hexadecimal is made of bytes this *)
(* request has written, all of them, and a computation in which a call     *)
(* reported failure is answered ERR.                                       *)
ReplyIsFresh ==
  /\ reply.text = "hex" => reply.by = {"this request"}
  /\ reply.text = "hex" /\ op \notin VerifyOps => ~ failed

(* A signature is accepted when the library said so, every call on the way *)
(* having succeeded: no error value, and no failed import, passes for an   *)
(* acceptance; a verification is never answered ERR.                       *)
AcceptsOnlyVerified ==
  op \in VerifyOps =>
    /\ reply.text # "ERR"
    /\ reply.text = "hex" /\ reply.accept => verdict = "valid" /\ ~ failed
=============================================================================
