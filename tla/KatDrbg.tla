------------------------------ MODULE KatDrbg ------------------------------
(***************************************************************************)
(* pqc_kat_harness.c: liboqs and PQClean run on one deterministic random   *)
(* generator.  For vector i the generator is seeded for kat_seed, drawn    *)
(* from i + 1 times, seeded with the last draw for liboqs, and seeded with *)
(* it again for PQClean; then both libraries' outputs must be equal byte   *)
(* for byte.                                                               *)
(*                                                                         *)
(* The generator's state is the way it was reached: 0 for a seeding with   *)
(* bytes drawn before, n for a draw of n bytes.  Drawn bytes are named by  *)
(* the state the draw leaves, so equal bytes mean an equal history.        *)
(***************************************************************************)
EXTENDS Integers, Sequences

CONSTANTS
  Kinds,      \* "kem" and "sig": the tables KEMS and SIGS, in order
  Iters,      \* vectors per scheme (argv[1])
  Draws,      \* [library -> [call -> sequence of lengths it draws]]
  MayErr,     \* libraries of which one may compute wrong outputs
  MayFail     \* libraries whose calls may fail

Libs == {"liboqs", "pqclean"}
Calls == {"keypair", "use"}       \* "use": encaps of a KEM, sign of a signature

VARIABLES
  flawed,    \* the library that may err, or "none"
  pc, lib,   \* the call about to be made, and of which library
  scheme, it, ran,   \* the loops
  drbg,      \* the generator
  seed,      \* kat_seed's result
  keys, out, \* [library -> its key pair / its ciphertext or signature]
  identical, \* <<scheme, it>> found identical
  broken,    \* <<scheme, it>> in which a call failed
  wrong,     \* <<scheme, it>> in which a library computed something wrong
  claimed    \* schemes whose summary line is printed

loop   == <<scheme, it, ran>>
ghosts == <<identical, broken, wrong, claimed>>
kvars  == <<flawed, pc, lib, loop, drbg, seed, keys, out, ghosts>>

Junk == [from |-> <<>>]

(* nist_kat_init(s)                                                        *)
Seeded(s) == Append(s, 0)

(* Calls of randombytes for the lengths ns, one after the other.           *)
DrawnAll(d, ns) == d \o ns

(* The entropy 1 .. 48 of the top-level seeding.                           *)
Top == <<>>
SEEDLEN == 48
Unseeded == <<-1>>

-----------------------------------------------------------------------------
Init ==
  /\ flawed \in MayErr \cup {"none"}
  /\ pc = "new" /\ lib = "liboqs" /\ scheme = 1 /\ it = 0 /\ ran = 0
  /\ drbg = Unseeded /\ seed = Top
  /\ keys = [l \in Libs |-> Junk] /\ out = [l \in Libs |-> Junk]
  /\ identical = {} /\ broken = {} /\ wrong = {} /\ claimed = {}

(* OQS_KEM_new, OQS_SIG_new.                                               *)
New ==
  /\ pc = "new" /\ scheme <= Len(Kinds)
  /\ \/ /\ pc' = "seed" /\ it' = 0 /\ ran' = ran + 1
        /\ keys' = [l \in Libs |-> Junk] /\ out' = [l \in Libs |-> Junk]
        /\ UNCHANGED scheme
     \/ /\ scheme' = scheme + 1
        /\ UNCHANGED <<pc, it, ran, keys, out>>
  /\ UNCHANGED <<lib, drbg, seed, ghosts>>

(* main after the loops.                                                   *)
Finish ==
  /\ pc = "new" /\ scheme > Len(Kinds)
  /\ pc' = IF ran = 0 THEN "exit1" ELSE "exit0"
  /\ UNCHANGED <<lib, loop, drbg, seed, keys, out, ghosts>>

(* Mutation: the generator goes on from where the last vector left it.     *)
KatSeed_NoInit ==
  /\ pc = "seed"
  /\ LET d == DrawnAll(drbg, [t \in 1 .. it + 1 |-> SEEDLEN])
     IN  seed' = d /\ drbg' = Seeded(d)
  /\ pc' = "keypair" /\ lib' = "liboqs"
  /\ UNCHANGED <<loop, keys, out, ghosts>>

(* kat_seed(i, seed), and the seeding for liboqs.                          *)
KatSeed ==
  /\ pc = "seed"
  /\ LET d == DrawnAll(Seeded(Top), [t \in 1 .. it + 1 |-> SEEDLEN])
     IN  seed' = d /\ drbg' = Seeded(d)
  /\ pc' = "keypair" /\ lib' = "liboqs"
  /\ UNCHANGED <<loop, keys, out, ghosts>>

(* Mutation: the loop runs once more.                                      *)
NextVector_OneMore ==
  IF it < Iters
  THEN it' = it + 1 /\ pc' = "seed" /\ UNCHANGED <<scheme, claimed>>
  ELSE /\ scheme' = scheme + 1 /\ pc' = "new" /\ claimed' = claimed \cup {scheme}
       /\ UNCHANGED it

(* Mutation: the loop ends one vector early.                               *)
NextVector_OneLess ==
  IF it + 2 < Iters
  THEN it' = it + 1 /\ pc' = "seed" /\ UNCHANGED <<scheme, claimed>>
  ELSE /\ scheme' = scheme + 1 /\ pc' = "new" /\ claimed' = claimed \cup {scheme}
       /\ UNCHANGED it

(* The end of a turn, regular or by `continue`; after the last one the     *)
(* summary line.                                                           *)
NextVector ==
  IF it + 1 < Iters
  THEN it' = it + 1 /\ pc' = "seed" /\ UNCHANGED <<scheme, claimed>>
  ELSE /\ scheme' = scheme + 1 /\ pc' = "new" /\ claimed' = claimed \cup {scheme}
       /\ UNCHANGED it

(* A call that fails has drawn some of its bytes or none.                  *)
Fails ==
  /\ pc \in Calls /\ lib \in MayFail
  /\ \E n \in 0 .. Len(Draws[lib][pc]) :
       drbg' = DrawnAll(drbg, SubSeq(Draws[lib][pc], 1, n))
  /\ broken' = broken \cup {<<scheme, it>>}
  /\ NextVector
  /\ UNCHANGED <<lib, ran, seed, keys, out, identical, wrong>>

(* What a call computes is determined by the bytes it draws and by its     *)
(* arguments; a flawed library's output is marked.                         *)
Computed(args, errs) ==
  [from |-> DrawnAll(drbg, Draws[lib][pc]), args |-> args,
   by |-> IF errs THEN lib ELSE "right"]

Errs(errs) ==
  /\ errs => lib = flawed
  /\ wrong' = IF errs THEN wrong \cup {<<scheme, it>>} ELSE wrong

(* keypair                                                                 *)
Keypair ==
  /\ pc = "keypair"
  /\ \E errs \in BOOLEAN :
       /\ Errs(errs)
       /\ keys' = [keys EXCEPT ![lib] = Computed(<<>>, errs)]
  /\ drbg' = DrawnAll(drbg, Draws[lib]["keypair"])
  /\ pc' = "use"
  /\ UNCHANGED <<lib, loop, seed, out, identical, broken, claimed>>

(* Mutation: the generator is not put back before PQClean's run.           *)
Use_NoReseed ==
  /\ pc = "use"
  /\ \E errs \in BOOLEAN :
       /\ Errs(errs)
       /\ out' = [out EXCEPT ![lib] = Computed(<<it, keys[lib]>>, errs)]
  /\ drbg' = DrawnAll(drbg, Draws[lib]["use"])
  /\ IF lib = "liboqs" THEN pc' = "keypair" /\ lib' = "pqclean"
                        ELSE pc' = "cmp" /\ UNCHANGED lib
  /\ UNCHANGED <<loop, seed, keys, identical, broken, claimed>>

(* encaps, sign (the message of vector i is a function of i); after        *)
(* liboqs's the generator is seeded for PQClean.                           *)
Use ==
  /\ pc = "use"
  /\ \E errs \in BOOLEAN :
       /\ Errs(errs)
       /\ out' = [out EXCEPT ![lib] = Computed(<<it, keys[lib]>>, errs)]
  /\ IF lib = "liboqs"
     THEN drbg' = Seeded(seed) /\ pc' = "keypair" /\ lib' = "pqclean"
     ELSE drbg' = DrawnAll(drbg, Draws[lib]["use"]) /\ pc' = "cmp" /\ UNCHANGED lib
  /\ UNCHANGED <<loop, seed, keys, identical, broken, claimed>>

(* Mutation: only lengths and randomness are compared.                     *)
Compare_OutOnly ==
  /\ pc = "cmp"
  /\ IF out["liboqs"].from = out["pqclean"].from
     THEN NextVector /\ identical' = identical \cup {<<scheme, it>>}
     ELSE pc' = "abort" /\ UNCHANGED <<scheme, it, claimed, identical>>
  /\ UNCHANGED <<lib, ran, drbg, seed, keys, out, broken, wrong>>

(* cmp of the keys, then of what was made with them; the first difference  *)
(* aborts.                                                                 *)
Compare ==
  /\ pc = "cmp"
  /\ IF keys["liboqs"] = keys["pqclean"] /\ out["liboqs"] = out["pqclean"]
     THEN NextVector /\ identical' = identical \cup {<<scheme, it>>}
     ELSE pc' = "abort" /\ UNCHANGED <<scheme, it, claimed, identical>>
  /\ UNCHANGED <<lib, ran, drbg, seed, keys, out, broken, wrong>>

Next ==
  /\ \/ New \/ Finish
     \/ KatSeed \/ Keypair \/ Use \/ Fails \/ Compare
  /\ UNCHANGED flawed

Stop == pc \in {"abort", "exit0", "exit1"} /\ UNCHANGED kvars

Spec == Init /\ [][Next \/ Stop]_kvars

-----------------------------------------------------------------------------
TypeOK ==
  /\ scheme \in 1 .. Len(Kinds) + 1
  /\ it \in 0 .. Iters - 1
  /\ ran \in 0 .. Len(Kinds)
  /\ Len(seed) <= Iters + 1

(* "re-seeding the DRBG to the same state before each library's run MUST   *)
(* yield byte-identical KAT vectors": with libraries that draw alike a     *)
(* difference is reported only when one of them computed something wrong,  *)
(* whatever failed before and however much it had drawn by then.           *)
NoFalseAlarm == pc = "abort" => wrong # {}

(* "Any per-byte divergence ... is reported": a wrong key, ciphertext or   *)
(* signature never counts as an identical vector.                          *)
WrongCaught == identical \cap wrong = {}

(* "re-seeding the DRBG to the same state before each library's run": what *)
(* is compared for vector i each library made from the bytes of vector i   *)
(* alone, whichever scheme it is, whatever failed in an earlier vector and *)
(* however much the other library drew: a vector can be replayed.          *)
Replayable ==
  pc = "cmp" =>
    LET start == Seeded(DrawnAll(Seeded(Top), [t \in 1 .. it + 1 |-> SEEDLEN]))
    IN  \A l \in Libs :
          /\ keys[l].from = DrawnAll(start, Draws[l]["keypair"])
          /\ out[l].from = DrawnAll(keys[l].from, Draws[l]["use"])
          /\ out[l].args = <<it, keys[l]>>

(* A printed summary is right about every vector no call failed in.        *)
IdenticalUnlessFailed ==
  \A s \in claimed, i \in 0 .. Iters - 1 :
    <<s, i>> \in identical \/ <<s, i>> \in broken
=============================================================================
