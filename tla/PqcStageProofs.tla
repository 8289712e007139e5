--------------------------- MODULE PqcStageProofs ---------------------------
(***************************************************************************)
(* Theorems about pqc_diff and pqc_kat for every table of schemes, every   *)
(* number of iterations and every pattern of draws: of each program by     *)
(* itself (I!Spec, K!Spec), and of the two run one after the other.        *)
(***************************************************************************)
EXTENDS PqcStage, SequenceTheorems, TLAPS

-----------------------------------------------------------------------------
(* pqc_diff.                                                               *)

KemCalls == {"encaps", "decaps", "memcmp"}
SigCalls == {"fill", "sign", "verify"}
InLoop   == KemCalls \cup SigCalls \cup {"keypair"}

Positions == [scheme : Nat, it : Nat, dir : I!Dirs]

DiffTyped ==
  /\ pc \in InLoop \cup {"new", "abort", "exit0", "exit1"}
  /\ scheme \in 1 .. Len(Schemes) + 1
  /\ it \in 0 .. DiffIters - 1 /\ dir \in I!Dirs /\ tamper \in {0, 1}
  /\ ran \in Nat /\ ran <= scheme /\ ran <= Len(Schemes)
  /\ pc = "new" => ran < scheme
  /\ pc \in InLoop => scheme <= Len(Schemes)
  /\ pc \in KemCalls => Schemes[scheme] = "kem"
  /\ pc \in SigCalls => Schemes[scheme] = "sig"
  /\ wrong \subseteq Positions
  /\ compared \subseteq Nat \X Nat \X I!Dirs

Honest   == [at |-> I!Here, flipped |-> FALSE]
Tampered == [at |-> I!Here, flipped |-> TRUE]

(* While no library has erred, every buffer a call is about to read holds  *)
(* what the calls before it in this direction have put there.              *)
Fresh ==
  wrong = {} =>
    /\ pc # "abort"
    /\ pc \in {"encaps", "decaps", "memcmp", "sign", "verify"} => pk = I!Here /\ sk = I!Here
    /\ pc \in {"decaps", "memcmp"} => ct = I!Cipher(I!Here) /\ ss1 = I!Secret(ct, "shared")
    /\ pc = "memcmp" => ss2 = I!Secret(ct, "shared")
    /\ pc = "keypair" /\ Schemes[scheme] = "sig" => msg = Honest
    /\ pc = "sign" => msg = Honest
    /\ pc = "verify" => /\ sig = [at |-> I!Here, key |-> I!Here, over |-> Honest]
                        /\ msg = IF tamper = 1 THEN Tampered ELSE Honest

(* Whether direction d of iteration i of scheme s is over.                 *)
DiffPast(s, i, d) ==
  \/ s < scheme
  \/ s = scheme /\ i < it /\ pc # "new"
  \/ s = scheme /\ i = it /\ d = "A" /\ dir = "B" /\ pc # "new"

(* Errors and comparisons lie in the past, but for errors of this          *)
(* direction, which show in the buffers of a KEM.                          *)
Ordered ==
  /\ \A c \in compared : DiffPast(c[1], c[2], c[3])
  /\ \A w \in wrong : DiffPast(w.scheme, w.it, w.dir) \/ (pc \in InLoop /\ w = I!Here)
  /\ \A w \in wrong : Schemes[w.scheme] = "kem" => <<w.scheme, w.it, w.dir>> \notin compared

Shows ==
  /\ pc = "keypair" /\ Schemes[scheme] = "kem" => I!Here \notin wrong
  /\ pc = "encaps" => pk = I!Here /\ (I!Here \in wrong => sk = I!Junk)
  /\ pc = "decaps" => /\ ct = I!Cipher(I!Here)
                      /\ \/ ss1 = I!Secret(ct, "wrong")
                         \/ ss1 = I!Secret(ct, "shared") /\ (I!Here \in wrong => sk = I!Junk)
  /\ pc = "memcmp" /\ I!Here \in wrong => ss1 # ss2

Caught == pc # "abort" => Ordered /\ Shows

(* Of a scheme whose summary is printed, and of the iterations behind, no  *)
(* direction is missing unless a call failed.                              *)
DiffCovered(s, i) == <<s, i>> \notin broken => \A d \in I!Dirs : <<s, i, d>> \in compared

DiffClaims ==
  /\ \A s \in claimed : \A i \in 0 .. DiffIters - 1 : DiffCovered(s, i)
  /\ pc \in InLoop => \A i \in 0 .. it - 1 : DiffCovered(scheme, i)
  /\ pc \in InLoop /\ dir = "B" /\ <<scheme, it>> \notin broken
       => <<scheme, it, "A">> \in compared

-----------------------------------------------------------------------------
LEMMA HereType ==
  ASSUME DiffTyped
  PROVE  /\ I!Here \in Positions /\ I!Here # I!Junk
         /\ I!Here.scheme = scheme /\ I!Here.it = it /\ I!Here.dir = dir
BY DEF DiffTyped, I!Here, Positions, I!Junk

LEMMA DiffTypedInit ==
  ASSUME I!Init PROVE DiffTyped
BY PqcConstantsOK DEF I!Init, DiffTyped, InLoop, KemCalls, SigCalls, I!Dirs

LEMMA KindOfScheme ==
  ASSUME DiffTyped, scheme <= Len(Schemes)
  PROVE  Schemes[scheme] \in {"kem", "sig"}
BY PqcConstantsOK DEF DiffTyped

(* How a turn of the loop may end.                                         *)
LEMMA TypedNextIteration ==
  ASSUME DiffTyped, pc \in InLoop, I!NextIteration,
         tamper' \in {0, 1}, ran' = ran,
         wrong' \subseteq Positions, compared' \subseteq Nat \X Nat \X I!Dirs
  PROVE  DiffTyped'
<1>1. Schemes[scheme] \in {"kem", "sig"} /\ DiffIters \in Nat
  BY PqcConstantsOK, KindOfScheme DEF DiffTyped
<1>2. CASE it + 1 < DiffIters
  BY <1>1, <1>2 DEF I!NextIteration, DiffTyped, I!FirstCall, InLoop, KemCalls, SigCalls, I!Dirs
<1>3. CASE ~ (it + 1 < DiffIters)
  BY <1>1, <1>3, Z3 DEF I!NextIteration, DiffTyped, InLoop, KemCalls, SigCalls, I!Dirs
<1> QED BY <1>2, <1>3

LEMMA DiffTypedStep ==
  ASSUME DiffTyped, [I!Next \/ I!Stop]_I!ivars
  PROVE  DiffTyped'
<1> USE HereType DEF InLoop, KemCalls, SigCalls
<1>1. Schemes \in Seq({"kem", "sig"}) /\ Len(Schemes) \in Nat /\ DiffIters \in Nat /\ DiffIters > 0
  BY PqcConstantsOK
<1>2. CASE I!New
  <2>1. Schemes[scheme] \in {"kem", "sig"}
    BY <1>2, KindOfScheme DEF I!New
  <2> QED BY <1>1, <1>2, <2>1 DEF I!New, I!FirstCall, DiffTyped, I!ghosts, I!Dirs
<1>3. CASE I!Finish
  BY <1>1, <1>3 DEF I!Finish, DiffTyped, I!ghosts, I!loop
<1>4. ASSUME pc \in InLoop, NEW next \in InLoop, I!Proceed(next), wrong' \subseteq Positions,
             next \in KemCalls => Schemes[scheme] = "kem",
             next \in SigCalls => Schemes[scheme] = "sig"
      PROVE  DiffTyped'
  BY <1>1, <1>4 DEF I!Proceed, DiffTyped, I!loop
<1>5. ASSUME pc \in InLoop, NEW l, I!Continue(l)
      PROVE  DiffTyped'
  BY <1>5, TypedNextIteration DEF I!Continue, DiffTyped
<1>6. I!Err => wrong' \subseteq Positions
  BY DEF I!Err, DiffTyped
<1>7. wrong \subseteq Positions
  BY DEF DiffTyped
<1>8. CASE I!Keypair
  <2>1. Schemes[scheme] \in {"kem", "sig"} /\ pc \in InLoop
    BY <1>8, KindOfScheme DEF I!Keypair, DiffTyped
  <2> QED BY <1>4, <1>5, <1>6, <1>7, <1>8, <2>1 DEF I!Keypair, I!AfterKeypair
<1>9. CASE I!Encaps \/ I!Decaps
  BY <1>4, <1>5, <1>6, <1>7, <1>9 DEF I!Encaps, I!Decaps, DiffTyped
<1>10. CASE I!Fill
  BY <1>4, <1>7, <1>10 DEF I!Fill, DiffTyped
<1>11. <<scheme, it, dir>> \in Nat \X Nat \X I!Dirs
  BY <1>1 DEF DiffTyped
<1>12. CASE I!CompareSecrets
  <2>1. compared' \subseteq Nat \X Nat \X I!Dirs /\ pc \in InLoop
    BY <1>11, <1>12 DEF I!CompareSecrets, DiffTyped
  <2>2. CASE I!NextIteration
    BY <1>7, <1>12, <2>1, <2>2, TypedNextIteration DEF I!CompareSecrets, DiffTyped
  <2>3. CASE ~ I!NextIteration
    BY <1>1, <1>12, <2>1, <2>3 DEF I!CompareSecrets, I!OtherDirection, DiffTyped, I!Dirs
  <2> QED BY <2>2, <2>3
<1>13. CASE I!Sign
  <2>1. CASE \E l : I!Continue(l)
    BY <1>5, <1>13, <2>1 DEF I!Sign
  <2>2. CASE ~ \E l : I!Continue(l)
    BY <1>1, <1>6, <1>7, <1>13, <2>2 DEF I!Sign, DiffTyped
  <2> QED BY <2>1, <2>2
<1>14. CASE I!Verify
  <2>1. /\ compared' \subseteq Nat \X Nat \X I!Dirs /\ pc = "verify" /\ wrong' \subseteq Positions
        /\ ran' = ran
    BY <1>6, <1>7, <1>11, <1>14 DEF I!Verify, DiffTyped
  <2>2. \/ pc' = "abort" /\ UNCHANGED I!loop
        \/ tamper' = 1 /\ UNCHANGED <<pc, scheme, it, dir>>
        \/ I!OtherDirection("fill") /\ UNCHANGED tamper
    BY <1>14 DEF I!Verify
  <2>3. CASE I!NextIteration /\ UNCHANGED tamper
    BY <2>1, <2>3, TypedNextIteration DEF DiffTyped
  <2>4. CASE ~ (I!NextIteration /\ UNCHANGED tamper)
    BY <1>1, <2>1, <2>2, <2>4 DEF I!OtherDirection, DiffTyped, I!Dirs, I!loop
  <2> QED BY <2>3, <2>4
<1>15. CASE UNCHANGED I!ivars
  BY <1>15 DEF I!ivars, I!loop, I!ghosts, DiffTyped
<1> QED
  BY <1>2, <1>3, <1>8, <1>9, <1>10, <1>12, <1>13, <1>14, <1>15 DEF I!Next, I!Stop

LEMMA DiffTypedAlways ==
  I!Spec => []DiffTyped
BY DiffTypedInit, DiffTypedStep, PTL DEF I!Spec

(* The loops of pqc_diff stay within the tables and argv[1].               *)
THEOREM InteropTypes ==
  I!Spec => []I!TypeOK
<1>1. DiffTyped => I!TypeOK
  BY PqcConstantsOK DEF DiffTyped, I!TypeOK, InLoop, KemCalls, SigCalls
<1> QED BY <1>1, DiffTypedAlways, PTL

-----------------------------------------------------------------------------
LEMMA FreshNextIteration ==
  ASSUME DiffTyped, pc \in InLoop, I!NextIteration
  PROVE  Fresh'
<1>1. Schemes[scheme] \in {"kem", "sig"}
  BY KindOfScheme DEF DiffTyped
<1> QED BY <1>1 DEF I!NextIteration, I!FirstCall, Fresh

LEMMA FreshStep ==
  ASSUME DiffTyped, Fresh, [I!Next \/ I!Stop]_I!ivars
  PROVE  Fresh'
<1> SUFFICES ASSUME wrong' = {} PROVE Fresh'
  BY DEF Fresh
<1>1. ~ I!Err
  BY DEF I!Err
<1>2. wrong = {}
  BY <1>1 DEF I!Next, I!Stop, I!ivars, I!New, I!Finish, I!Keypair, I!Encaps, I!Decaps, I!CompareSecrets, I!Fill,
              I!Sign, I!Verify, I!Continue, I!ghosts
<1> USE <1>1, <1>2
<1>3. I!Here # I!Junk /\ Honest # Tampered /\ pc # "abort"
  <2>1. Honest.flipped # Tampered.flipped
    BY Zenon DEF Honest, Tampered
  <2> QED BY <2>1, HereType DEF Fresh
<1>4. ASSUME UNCHANGED <<scheme, it, dir>>
      PROVE  I!Here' = I!Here /\ Honest' = Honest /\ Tampered' = Tampered
  BY <1>4 DEF I!Here, Honest, Tampered
<1>5. CASE I!New
  BY <1>5 DEF I!New, I!FirstCall, Fresh
<1>6. CASE I!Finish
  BY <1>6 DEF I!Finish, Fresh
<1>7. ASSUME pc \in InLoop, NEW l, I!Continue(l)
      PROVE  Fresh'
  BY <1>7, FreshNextIteration DEF I!Continue
<1>8. CASE I!Keypair
  <2>1. CASE \E l : I!Continue(l)
    BY <1>7, <1>8, <2>1 DEF I!Keypair, InLoop
  <2>2. CASE ~ \E l : I!Continue(l)
    <3>1. /\ pk' = I!Here /\ sk' = I!Here /\ UNCHANGED <<scheme, it, dir, tamper, msg>>
          /\ pc = "keypair" /\ pc' = I!AfterKeypair
      BY <1>8, <2>2 DEF I!Keypair, I!Proceed, I!signed, I!loop
    <3>2. Schemes[scheme] \in {"kem", "sig"}
      BY <3>1, KindOfScheme DEF DiffTyped, InLoop
    <3> QED BY <1>4, <3>1, <3>2 DEF Fresh, I!AfterKeypair
  <2> QED BY <2>1, <2>2
<1>9. CASE I!Encaps
  <2>1. CASE \E l : I!Continue(l)
    BY <1>7, <1>9, <2>1 DEF I!Encaps, InLoop, KemCalls
  <2>2. CASE ~ \E l : I!Continue(l)
    <3>1. /\ ct' = I!Cipher(pk) /\ ss1' = I!Secret(ct', "shared")
          /\ UNCHANGED <<scheme, it, dir, tamper, pk, sk>>
          /\ pc = "encaps" /\ pc' = "decaps"
      BY <1>9, <2>2 DEF I!Encaps, I!Proceed, I!keys, I!loop
    <3>2. pk = I!Here /\ sk = I!Here
      BY <3>1 DEF Fresh
    <3>3. I!Cipher(I!Here)' = I!Cipher(I!Here) /\ I!Secret(ct, "shared")' = I!Secret(ct', "shared")
      BY <1>4, <3>1 DEF I!Cipher, I!Secret
    <3> QED BY <1>4, <3>1, <3>2, <3>3 DEF Fresh
  <2> QED BY <2>1, <2>2
<1>10. CASE I!Decaps
  <2>1. CASE \E l : I!Continue(l)
    BY <1>7, <1>10, <2>1 DEF I!Decaps, InLoop, KemCalls
  <2>2. CASE ~ \E l : I!Continue(l)
    <3>1. /\ ss2' = I!Opened(ct, sk)
          /\ UNCHANGED <<scheme, it, dir, tamper, pk, sk, ct, ss1>>
          /\ pc = "decaps" /\ pc' = "memcmp"
      BY <1>10, <2>2 DEF I!Decaps, I!Proceed, I!keys, I!loop
    <3>2. pk = I!Here /\ sk = I!Here /\ ct = I!Cipher(I!Here) /\ ss1 = I!Secret(ct, "shared")
      BY <3>1 DEF Fresh
    <3>3. ct # I!Junk /\ ct.to = sk
      BY <3>2 DEF I!Cipher, I!Junk
    <3>4. ss2' = I!Secret(ct, "shared")
      BY <3>1, <3>3 DEF I!Opened
    <3>5. I!Cipher(I!Here)' = I!Cipher(I!Here) /\ I!Secret(ct, "shared")' = I!Secret(ct, "shared")
      BY <1>4, <3>1 DEF I!Cipher, I!Secret
    <3> QED BY <1>4, <3>1, <3>2, <3>4, <3>5 DEF Fresh
  <2> QED BY <2>1, <2>2
<1>11. CASE I!CompareSecrets
  <2>1. pc = "memcmp" /\ ss1 = ss2 /\ I!OtherDirection("keypair")
    BY <1>11 DEF I!CompareSecrets, Fresh
  <2>2. CASE I!NextIteration
    BY <2>1, <2>2, FreshNextIteration DEF InLoop, KemCalls
  <2>3. CASE ~ I!NextIteration
    BY <2>1, <2>3 DEF I!OtherDirection, DiffTyped, KemCalls, Fresh
  <2> QED BY <2>2, <2>3
<1>12. CASE I!Fill
  <2>1. /\ msg' = Honest /\ pc' = "keypair" /\ UNCHANGED <<scheme, it, dir, tamper>>
    BY <1>12 DEF I!Fill, I!Proceed, Honest, I!loop
  <2> QED BY <1>4, <2>1 DEF Fresh
<1>13. CASE I!Sign
  <2>1. CASE \E l : I!Continue(l)
    BY <1>7, <1>13, <2>1 DEF I!Sign, InLoop, SigCalls
  <2>2. CASE ~ \E l : I!Continue(l)
    <3>1. /\ sig' = [at |-> I!Here, key |-> sk, over |-> msg] /\ tamper' = 0
          /\ UNCHANGED <<scheme, it, dir, pk, sk, msg>>
          /\ pc = "sign" /\ pc' = "verify"
      BY <1>13, <2>2 DEF I!Sign, I!keys
    <3>2. pk = I!Here /\ sk = I!Here /\ msg = Honest
      BY <3>1 DEF Fresh
    <3> QED BY <1>4, <3>1, <3>2 DEF Fresh
  <2> QED BY <2>1, <2>2
<1>14. CASE I!Verify
  <2>1. /\ pc = "verify" /\ pk = I!Here /\ sk = I!Here
        /\ sig = [at |-> I!Here, key |-> I!Here, over |-> Honest]
        /\ msg = IF tamper = 1 THEN Tampered ELSE Honest
    BY <1>14 DEF I!Verify, Fresh
  <2>2. \/ tamper = 0 /\ tamper' = 1 /\ msg' = [msg EXCEPT !.flipped = ~ @]
           /\ UNCHANGED <<pc, scheme, it, dir, pk, sk, sig>>
        \/ I!OtherDirection("fill")
    BY <1>14 DEF I!Verify, I!keys
  <2>3. CASE I!NextIteration
    BY <2>1, <2>3, FreshNextIteration DEF InLoop, SigCalls
  <2>4. CASE I!OtherDirection("fill") /\ ~ I!NextIteration
    BY <2>1, <2>4 DEF I!OtherDirection, Fresh
  <2>5. CASE /\ tamper = 0 /\ tamper' = 1 /\ msg' = [msg EXCEPT !.flipped = ~ @]
             /\ UNCHANGED <<pc, scheme, it, dir, pk, sk, sig>>
    <3>1. msg = Honest
      BY <2>1, <2>5
    <3>2. msg' = Tampered
      BY <2>5, <3>1, Zenon DEF Honest, Tampered
    <3> QED BY <1>4, <2>1, <2>5, <3>2 DEF Fresh
  <2> QED BY <2>2, <2>3, <2>4, <2>5
<1>15. CASE UNCHANGED I!ivars
  <2>1. UNCHANGED <<pc, scheme, it, dir, tamper, pk, sk, ct, ss1, ss2, sig, msg>>
    BY <1>15 DEF I!ivars, I!loop, I!keys, I!secrets, I!signed
  <2> QED BY <1>4, <2>1 DEF Fresh, I!Cipher, I!Secret
<1> QED
  BY <1>5, <1>6, <1>8, <1>9, <1>10, <1>11, <1>12, <1>13, <1>14, <1>15 DEF I!Next, I!Stop

LEMMA FreshAlways ==
  I!Spec => []Fresh
<1>1. I!Init => Fresh
  BY DEF I!Init, Fresh
<1> QED BY <1>1, FreshStep, DiffTypedAlways, PTL DEF I!Spec

(* pqc_diff reports a violation only when a library succeeded with a wrong *)
(* result (pqc_diff_harness.c:97-161): what a failed call left in a       *)
(* shared buffer never meets a fresh value in a comparison.                *)
THEOREM InteropAccusesNobody ==
  I!Spec => []I!NoFalseAlarm
<1>1. Fresh => I!NoFalseAlarm
  BY DEF Fresh, I!NoFalseAlarm
<1> QED BY <1>1, FreshAlways, PTL

LEMMA VerdictsExpected ==
  ASSUME DiffTyped, Fresh PROVE I!HonestThenTampered
<1> SUFFICES ASSUME pc = "verify", wrong = {}
             PROVE  I!Valid <=> tamper = 0
  BY DEF I!HonestThenTampered
<1>1. /\ pk = I!Here /\ sig = [at |-> I!Here, key |-> I!Here, over |-> Honest]
      /\ msg = IF tamper = 1 THEN Tampered ELSE Honest
      /\ tamper \in {0, 1} /\ I!Here # I!Junk
  BY HereType DEF Fresh, DiffTyped
<1>2. Honest # Tampered
  <2>1. Honest.flipped # Tampered.flipped
    BY Zenon DEF Honest, Tampered
  <2> QED BY <2>1
<1>3. sig # I!Junk /\ sig.key = I!Here /\ sig.over = Honest
  BY <1>1 DEF I!Junk
<1> QED BY <1>1, <1>2, <1>3 DEF I!Valid

(* While no library has erred, the verdicts that are compared are on the   *)
(* honest message first and on the tampered one then, never on what an     *)
(* earlier direction or iteration left (pqc_diff_harness.c:128-161).       *)
THEOREM InteropHonestThenTampered ==
  I!Spec => []I!HonestThenTampered
BY VerdictsExpected, DiffTypedAlways, FreshAlways, PTL

-----------------------------------------------------------------------------
(* The end of a direction: it lies in the past, and the next one does not. *)
Ends == \/ I!NextIteration
        \/ /\ dir = "A" /\ dir' = "B" /\ UNCHANGED <<scheme, it, claimed>>
           /\ pc' \in {"keypair", "fill"}

LEMMA EndsOfDirections ==
  ASSUME NEW first \in {"keypair", "fill"}, I!OtherDirection(first)
  PROVE  Ends
BY DEF Ends, I!OtherDirection

LEMMA DiffPastGrows ==
  ASSUME DiffTyped, pc \in InLoop, Ends,
         NEW s \in Nat, NEW i \in Nat, NEW d \in I!Dirs,
         DiffPast(s, i, d) \/ (s = scheme /\ i = it /\ d = dir)
  PROVE  DiffPast(s, i, d)'
<1>1. scheme \in Nat /\ it \in Nat /\ pc # "new" /\ Schemes[scheme] \in {"kem", "sig"}
  BY PqcConstantsOK, KindOfScheme DEF DiffTyped, InLoop, KemCalls, SigCalls
<1>2. CASE I!NextIteration
  BY <1>1, <1>2 DEF I!NextIteration, I!FirstCall, DiffPast, I!Dirs
<1>3. CASE ~ I!NextIteration
  BY <1>1, <1>3 DEF Ends, DiffPast, I!Dirs
<1> QED BY <1>2, <1>3

LEMMA HereNotPast ==
  ASSUME DiffTyped PROVE ~ DiffPast(scheme, it, dir)
BY PqcConstantsOK DEF DiffTyped, DiffPast

LEMMA PositionIsHere ==
  ASSUME NEW w \in Positions, w.scheme = scheme, w.it = it, w.dir = dir PROVE w = I!Here
BY DEF Positions, I!Here

LEMMA OrderedEnds ==
  ASSUME DiffTyped, pc \in InLoop, Ends, Ordered,
         compared' \subseteq compared \cup {<<scheme, it, dir>>},
         wrong' \subseteq wrong \cup {I!Here},
         \A w \in wrong' : Schemes[w.scheme] = "kem" => <<w.scheme, w.it, w.dir>> \notin compared'
  PROVE  Ordered' /\ \A w \in wrong' : DiffPast(w.scheme, w.it, w.dir)'
<1>1. I!Here \in Positions /\ I!Here.scheme = scheme /\ I!Here.it = it /\ I!Here.dir = dir
  BY HereType
<1>2. \A c \in compared' : DiffPast(c[1], c[2], c[3])'
  <2> SUFFICES ASSUME NEW c \in compared' PROVE DiffPast(c[1], c[2], c[3])'
    OBVIOUS
  <2>1. c[1] \in Nat /\ c[2] \in Nat /\ c[3] \in I!Dirs
    BY <1>1 DEF DiffTyped, Positions
  <2>2. DiffPast(c[1], c[2], c[3]) \/ (c[1] = scheme /\ c[2] = it /\ c[3] = dir)
    BY DEF Ordered
  <2> HIDE DEF DiffPast
  <2> QED BY <2>1, <2>2, DiffPastGrows
<1>3. \A w \in wrong' : DiffPast(w.scheme, w.it, w.dir)'
  <2> SUFFICES ASSUME NEW w \in wrong' PROVE DiffPast(w.scheme, w.it, w.dir)'
    OBVIOUS
  <2>1. w \in Positions /\ w.scheme \in Nat /\ w.it \in Nat /\ w.dir \in I!Dirs
    <3>1. w \in Positions
      BY <1>1 DEF DiffTyped
    <3> QED BY <3>1 DEF Positions
  <2>2. DiffPast(w.scheme, w.it, w.dir) \/ (w.scheme = scheme /\ w.it = it /\ w.dir = dir)
    BY <1>1 DEF Ordered
  <2> QED BY <2>1, <2>2, DiffPastGrows
<1> QED BY <1>2, <1>3 DEF Ordered

LEMMA CaughtEnds ==
  ASSUME DiffTyped, DiffTyped', pc \in InLoop, Ends, Ordered,
         compared' \subseteq compared \cup {<<scheme, it, dir>>},
         wrong' \subseteq wrong \cup {I!Here},
         \A w \in wrong' : Schemes[w.scheme] = "kem" => <<w.scheme, w.it, w.dir>> \notin compared'
  PROVE  Caught'
<1>1. Ordered' /\ \A w \in wrong' : DiffPast(w.scheme, w.it, w.dir)'
  BY OrderedEnds
<1>2. ~ DiffPast(scheme, it, dir)'
  BY PqcConstantsOK DEF DiffTyped, DiffPast
<1>3. I!Here' \notin wrong'
  <2>1. (I!Here.scheme = scheme /\ I!Here.it = it /\ I!Here.dir = dir)'
    BY DEF I!Here
  <2> QED BY <1>1, <1>2, <2>1
<1>4. pc' \in {"keypair", "fill", "new"}
  <2>1. Schemes[scheme] \in {"kem", "sig"}
    BY KindOfScheme DEF DiffTyped
  <2> QED BY <2>1 DEF Ends, I!NextIteration, I!FirstCall
<1> QED BY <1>1, <1>3, <1>4 DEF Caught, Shows

(* A call that goes on in the same direction, having erred or not.         *)
LEMMA OrderedGoesOn ==
  ASSUME DiffTyped, pc \in InLoop, pc' \in InLoop, Ordered,
         UNCHANGED <<scheme, it, dir, compared>>, wrong' \subseteq wrong \cup {I!Here}
  PROVE  Ordered' /\ I!Here' = I!Here
<1>1. I!Here' = I!Here /\ I!Here.scheme = scheme /\ I!Here.it = it /\ I!Here.dir = dir
  BY DEF I!Here
<1>2. \A s, i, d : DiffPast(s, i, d)' <=> DiffPast(s, i, d)
  BY DEF DiffPast, InLoop, KemCalls, SigCalls
<1>3. <<scheme, it, dir>> \notin compared
  BY HereNotPast DEF Ordered
<1> QED BY <1>1, <1>2, <1>3 DEF Ordered

LEMMA CaughtStep ==
  ASSUME DiffTyped, DiffTyped', Caught, [I!Next \/ I!Stop]_I!ivars
  PROVE  Caught'
<1> SUFFICES ASSUME pc' # "abort" PROVE Caught'
  BY DEF Caught
<1> USE DEF InLoop, KemCalls, SigCalls
<1>1. CASE I!New
  <2>1. pc = "new" /\ UNCHANGED <<compared, wrong>> /\ Ordered
    BY <1>1 DEF I!New, I!ghosts, Caught
  <2>2. \/ pc' = I!FirstCall(Schemes[scheme]) /\ scheme' = scheme
        \/ pc' = "new" /\ scheme' = scheme + 1
    BY <1>1 DEF I!New
  <2>3. \A s \in Nat : \A i, d : DiffPast(s, i, d) => s < scheme /\ DiffPast(s, i, d)'
    BY <2>1, <2>2 DEF DiffPast, DiffTyped
  <2>4. /\ \A c \in compared : c[1] \in Nat
        /\ \A w \in wrong : w.scheme \in Nat
    BY DEF DiffTyped, Positions
  <2>5. Ordered'
    BY <2>1, <2>3, <2>4 DEF Ordered
  <2>6. I!Here' \notin wrong' \/ pc' = "new"
    BY <2>1, <2>2, <2>3, <2>4 DEF Ordered, I!Here, DiffTyped
  <2>7. pc' \in {"keypair", "fill", "new"}
    BY <2>2 DEF I!FirstCall
  <2> QED BY <2>5, <2>6, <2>7 DEF Caught, Shows
<1>2. CASE I!Finish
  BY <1>2 DEF I!Finish, I!ghosts, I!loop, Caught, Ordered, Shows, DiffPast
<1>3. ASSUME pc \in InLoop, NEW l, I!Continue(l)
      PROVE  Caught'
  BY <1>3, CaughtEnds DEF I!Continue, Ends, Caught, Ordered
<1>4. I!Here \notin wrong => I!Here \notin wrong' \/ I!Err
  BY DEF I!Next, I!Stop, I!ivars, I!New, I!Finish, I!Keypair, I!Encaps, I!Decaps, I!CompareSecrets, I!Fill,
         I!Sign, I!Verify, I!Continue, I!ghosts
<1>5. I!Here # I!Junk
  BY HereType
<1>6. CASE I!Keypair
  <2>1. CASE \E l : I!Continue(l)
    BY <1>3, <1>6, <2>1 DEF I!Keypair
  <2>2. CASE ~ \E l : I!Continue(l)
    <3>1. /\ pk' = I!Here /\ sk' \in {I!Here, I!Junk} /\ UNCHANGED <<scheme, it, dir, compared>>
          /\ pc = "keypair" /\ pc' = I!AfterKeypair
          /\ wrong' = wrong \/ (sk' = I!Junk /\ I!Err)
      BY <1>6, <2>2 DEF I!Keypair, I!Proceed, I!loop
    <3>2. wrong' \subseteq wrong \cup {I!Here} /\ pc' \in {"encaps", "sign"} /\ Ordered
      BY <3>1 DEF I!Err, I!AfterKeypair, Caught
    <3>3. Ordered' /\ I!Here' = I!Here
      BY <3>1, <3>2, OrderedGoesOn
    <3>4. pc' = "encaps" => I!Here \notin wrong
      BY <3>1 DEF I!AfterKeypair, Caught, Shows
    <3> QED BY <3>1, <3>2, <3>3, <3>4 DEF Caught, Shows
  <2> QED BY <2>1, <2>2
<1>7. CASE I!Encaps
  <2>1. CASE \E l : I!Continue(l)
    BY <1>3, <1>7, <2>1 DEF I!Encaps
  <2>2. CASE ~ \E l : I!Continue(l)
    <3>1. /\ ct' = I!Cipher(pk) /\ UNCHANGED <<scheme, it, dir, sk, compared>>
          /\ pc = "encaps" /\ pc' = "decaps"
          /\ \/ wrong' = wrong /\ ss1' = I!Secret(ct', "shared")
             \/ I!Err /\ ss1' = I!Secret(ct', "wrong")
      BY <1>7, <2>2 DEF I!Encaps, I!Proceed, I!loop, I!keys
    <3>2. wrong' \subseteq wrong \cup {I!Here} /\ Ordered /\ pk = I!Here /\ (I!Here \in wrong => sk = I!Junk)
      BY <3>1 DEF I!Err, Caught, Shows
    <3>3. Ordered' /\ I!Here' = I!Here
      BY <3>1, <3>2, OrderedGoesOn
    <3>4. I!Cipher(I!Here)' = I!Cipher(I!Here) /\ \A how : I!Secret(ct, how)' = I!Secret(ct', how)
      BY <3>3 DEF I!Cipher, I!Secret
    <3> QED BY <3>1, <3>2, <3>3, <3>4 DEF Caught, Shows
  <2> QED BY <2>1, <2>2
<1>8. CASE I!Decaps
  <2>1. CASE \E l : I!Continue(l)
    BY <1>3, <1>8, <2>1 DEF I!Decaps
  <2>2. CASE ~ \E l : I!Continue(l)
    <3>1. /\ UNCHANGED <<scheme, it, dir, ct, ss1, compared>>
          /\ pc = "decaps" /\ pc' = "memcmp"
          /\ \/ wrong' = wrong /\ ss2' = I!Opened(ct, sk)
             \/ I!Err /\ ss2' = I!Secret(ct, "garbled")
      BY <1>8, <2>2 DEF I!Decaps, I!Proceed, I!loop, I!keys
    <3>2. /\ wrong' \subseteq wrong \cup {I!Here} /\ Ordered /\ ct = I!Cipher(I!Here)
          /\ \/ ss1 = I!Secret(ct, "wrong")
             \/ ss1 = I!Secret(ct, "shared") /\ (I!Here \in wrong => sk = I!Junk)
      BY <3>1 DEF I!Err, Caught, Shows
    <3>3. Ordered' /\ I!Here' = I!Here
      BY <3>1, <3>2, OrderedGoesOn
    <3>4. sk = I!Junk => I!Opened(ct, sk) = I!Secret(ct, "implicit")
      BY <1>5, <3>2 DEF I!Opened, I!Cipher
    <3>5. I!Opened(ct, sk) \in {I!Secret(ct, "shared"), I!Secret(ct, "implicit")}
      BY DEF I!Opened
    <3>6. \A h, k : h # k => I!Secret(ct, h) # I!Secret(ct, k)
      <4> SUFFICES ASSUME NEW h, NEW k, I!Secret(ct, h) = I!Secret(ct, k) PROVE h = k
        OBVIOUS
      <4>1. I!Secret(ct, h).how = h /\ I!Secret(ct, k).how = k
        BY DEF I!Secret
      <4> QED BY <4>1
    <3>7. /\ I!Secret(ct, "wrong") \notin {I!Secret(ct, "shared"), I!Secret(ct, "implicit"), I!Secret(ct, "garbled")}
          /\ I!Secret(ct, "shared") \notin {I!Secret(ct, "implicit"), I!Secret(ct, "garbled")}
      BY <3>6
    <3>8. I!Here \in wrong' => ss1 # ss2'
      BY <3>1, <3>2, <3>4, <3>5, <3>7
    <3> QED BY <3>1, <3>3, <3>8 DEF Caught, Shows
  <2> QED BY <2>1, <2>2
<1>9. CASE I!CompareSecrets
  <2>1. /\ pc = "memcmp" /\ ss1 = ss2 /\ I!OtherDirection("keypair")
        /\ compared' = compared \cup {<<scheme, it, dir>>} /\ wrong' = wrong
    BY <1>9 DEF I!CompareSecrets
  <2>2. Ordered /\ I!Here \notin wrong
    BY <2>1 DEF Caught, Shows
  <2>3. ASSUME NEW w \in wrong PROVE <<w.scheme, w.it, w.dir>> # <<scheme, it, dir>>
    BY <2>2, PositionIsHere DEF DiffTyped
  <2>4. \A w \in wrong' : Schemes[w.scheme] = "kem" => <<w.scheme, w.it, w.dir>> \notin compared'
    BY <2>1, <2>2, <2>3 DEF Ordered
  <2> QED BY <2>1, <2>2, <2>4, CaughtEnds, EndsOfDirections
<1>10. CASE I!Fill
  <2>1. /\ pc = "fill" /\ pc' = "keypair" /\ UNCHANGED <<scheme, it, dir, compared, wrong>>
    BY <1>10 DEF I!Fill, I!Proceed, I!loop
  <2>2. Ordered /\ Schemes[scheme] = "sig"
    BY <2>1 DEF Caught, DiffTyped
  <2>3. Ordered'
    BY <2>1, <2>2, OrderedGoesOn
  <2> QED BY <2>1, <2>2, <2>3 DEF Caught, Shows
<1>11. CASE I!Sign
  <2>1. CASE \E l : I!Continue(l)
    BY <1>3, <1>11, <2>1 DEF I!Sign
  <2>2. CASE ~ \E l : I!Continue(l)
    <3>1. /\ pc = "sign" /\ pc' = "verify" /\ UNCHANGED <<scheme, it, dir, compared>>
          /\ wrong' = wrong \/ I!Err
      BY <1>11, <2>2 DEF I!Sign
    <3>2. Ordered /\ wrong' \subseteq wrong \cup {I!Here}
      BY <3>1 DEF Caught, I!Err
    <3>3. Ordered'
      BY <3>1, <3>2, OrderedGoesOn
    <3> QED BY <3>1, <3>3 DEF Caught, Shows
  <2> QED BY <2>1, <2>2
<1>12. CASE I!Verify
  <2>1. /\ pc = "verify" /\ (wrong' = wrong \/ I!Err)
        /\ \/ tamper = 0 /\ UNCHANGED <<pc, scheme, it, dir>>
           \/ tamper = 1 /\ I!OtherDirection("fill")
        /\ compared' = IF tamper = 1 THEN compared \cup {<<scheme, it, dir>>} ELSE compared
    BY <1>12 DEF I!Verify
  <2>2. Ordered /\ wrong' \subseteq wrong \cup {I!Here} /\ Schemes[scheme] = "sig"
    BY <2>1 DEF Caught, I!Err, DiffTyped
  <2>3. CASE tamper = 0
    <3>1. Ordered'
      BY <2>1, <2>2, <2>3, OrderedGoesOn
    <3> QED BY <2>1, <2>3, <3>1 DEF Caught, Shows
  <2>4. CASE tamper = 1
    <3>1. I!Here.scheme = scheme
      BY HereType
    <3>2. \A w \in wrong' : Schemes[w.scheme] = "kem" => w.scheme # scheme /\ w \in wrong
      BY <2>2, <3>1
    <3>3. \A w \in wrong' : Schemes[w.scheme] = "kem" => <<w.scheme, w.it, w.dir>> \notin compared'
      BY <2>1, <2>2, <2>4, <3>2 DEF Ordered
    <3> QED BY <2>1, <2>2, <2>4, <3>3, CaughtEnds, EndsOfDirections
  <2> QED BY <2>1, <2>3, <2>4
<1>13. CASE UNCHANGED I!ivars
  <2>1. UNCHANGED <<pc, scheme, it, dir, pk, sk, ct, ss1, ss2, compared, wrong>>
    BY <1>13 DEF I!ivars, I!loop, I!keys, I!secrets, I!ghosts
  <2> QED BY <2>1 DEF Caught, Ordered, Shows, DiffPast, I!Here, I!Cipher, I!Secret
<1> QED
  BY <1>1, <1>2, <1>6, <1>7, <1>8, <1>9, <1>10, <1>11, <1>12, <1>13 DEF I!Next, I!Stop

LEMMA CaughtAlways ==
  I!Spec => []Caught
<1>1. I!Init => Caught
  BY DEF I!Init, Caught, Ordered, Shows
<1> QED BY <1>1, CaughtStep, DiffTypedAlways, PTL DEF I!Spec

(* No wrong key pair, ciphertext or secret of a KEM gets past the memcmp   *)
(* of its direction (pqc_diff_harness.c:97-116), whichever call made it    *)
(* and whatever failed calls had left in the buffers.                      *)
THEOREM InteropCatches ==
  I!Spec => []I!WrongCaught
<1>1. Caught => I!WrongCaught
  BY DEF Caught, Ordered, I!WrongCaught
<1> QED BY <1>1, CaughtAlways, PTL

-----------------------------------------------------------------------------
(* What was covered stays covered: nothing is taken out of either set.     *)
LEMMA DiffCoveredStays ==
  ASSUME compared \subseteq compared', broken \subseteq broken', NEW s, NEW i, DiffCovered(s, i)
  PROVE  DiffCovered(s, i)'
BY DEF DiffCovered

(* At the end of an iteration it is covered.                               *)
LEMMA ClaimsNextIteration ==
  ASSUME DiffTyped, DiffClaims, pc \in InLoop, I!NextIteration,
         compared \subseteq compared', broken \subseteq broken',
         NEW s, s = scheme, NEW j, j = it, DiffCovered(s, j)'
  PROVE  DiffClaims'
<1>1. j \in Nat /\ DiffIters \in Nat
  BY PqcConstantsOK DEF DiffTyped
<1>2. \A i \in 0 .. j : DiffCovered(s, i)'
  <2>1. \A i \in 0 .. j - 1 : DiffCovered(s, i)
    BY DEF DiffClaims
  <2>2. \A i \in 0 .. j - 1 : DiffCovered(s, i)'
    BY <2>1, DiffCoveredStays
  <2>3. \A i \in 0 .. j : i \in 0 .. j - 1 \/ i = j
    BY <1>1
  <2> QED BY <2>2, <2>3
<1>3. \A c \in claimed : \A i \in 0 .. DiffIters - 1 : DiffCovered(c, i)'
  BY DiffCoveredStays DEF DiffClaims
<1>4. CASE j + 1 < DiffIters
  BY <1>1, <1>2, <1>3, <1>4 DEF I!NextIteration, DiffClaims
<1>5. CASE ~ (j + 1 < DiffIters)
  <2>1. /\ pc' = "new" /\ claimed' = claimed \cup {s} /\ dir' = "A"
        /\ \A i \in 0 .. DiffIters - 1 : DiffCovered(s, i)'
    BY <1>1, <1>2, <1>5 DEF I!NextIteration, DiffTyped
  <2> QED BY <1>3, <2>1 DEF DiffClaims, InLoop, KemCalls, SigCalls
<1> QED BY <1>4, <1>5

LEMMA ClaimsGoesOn ==
  ASSUME DiffClaims, pc \in InLoop, UNCHANGED <<scheme, it, dir, broken, claimed>>,
         compared \subseteq compared'
  PROVE  DiffClaims'
<1>1. \A s, i : DiffCovered(s, i) => DiffCovered(s, i)'
  BY DiffCoveredStays
<1> QED BY <1>1 DEF DiffClaims

LEMMA ClaimsOtherDirection ==
  ASSUME DiffTyped, DiffClaims, pc \in InLoop, NEW first, I!OtherDirection(first),
         compared' = compared \cup {<<scheme, it, dir>>}, broken' = broken
  PROVE  DiffClaims'
<1>1. CASE dir = "A"
  <2>1. /\ dir' = "B" /\ UNCHANGED <<scheme, it, claimed>>
        /\ <<scheme, it, "A">> \in compared'
    BY <1>1 DEF I!OtherDirection
  <2>2. \A s, i : DiffCovered(s, i) => DiffCovered(s, i)'
    BY DiffCoveredStays
  <2> QED BY <2>1, <2>2 DEF DiffClaims
<1>2. CASE dir # "A"
  <2>1. PICK s, j : s = scheme /\ j = it
    OBVIOUS
  <2>2. DiffCovered(s, j)'
    BY <1>2, <2>1 DEF DiffTyped, I!Dirs, DiffClaims, DiffCovered, InLoop
  <2> QED BY <1>2, <2>1, <2>2, ClaimsNextIteration DEF I!OtherDirection
<1> QED BY <1>1, <1>2

LEMMA DiffClaimsStep ==
  ASSUME DiffTyped, DiffClaims, [I!Next \/ I!Stop]_I!ivars
  PROVE  DiffClaims'
<1> USE DEF InLoop, KemCalls, SigCalls
<1>1. CASE I!New
  <2>1. /\ UNCHANGED <<compared, broken, claimed>> /\ pc = "new"
        /\ (pc' \in InLoop => it' = 0 /\ dir' = "A")
    BY <1>1 DEF I!New, I!ghosts
  <2>2. \A s, i : DiffCovered(s, i) => DiffCovered(s, i)'
    BY <2>1, DiffCoveredStays
  <2> QED BY <2>1, <2>2 DEF DiffClaims
<1>2. CASE I!Finish
  BY <1>2 DEF I!Finish, I!ghosts, DiffClaims, DiffCovered
<1>3. ASSUME pc \in InLoop, NEW l, I!Continue(l)
      PROVE  DiffClaims'
  <2>1. PICK s, j : s = scheme /\ j = it
    OBVIOUS
  <2>2. DiffCovered(s, j)' /\ broken \subseteq broken' /\ compared' = compared /\ I!NextIteration
    BY <1>3, <2>1 DEF I!Continue, DiffCovered
  <2> QED BY <1>3, <2>1, <2>2, ClaimsNextIteration
<1>4. ASSUME pc \in InLoop, NEW next, I!Proceed(next)
      PROVE  DiffClaims'
  BY <1>4, ClaimsGoesOn DEF I!Proceed, I!loop
<1>5. CASE I!Keypair \/ I!Encaps \/ I!Decaps \/ I!Fill
  BY <1>3, <1>4, <1>5 DEF I!Keypair, I!Encaps, I!Decaps, I!Fill
<1>6. CASE I!Sign
  <2>1. CASE \E l : I!Continue(l)
    BY <1>3, <1>6, <2>1 DEF I!Sign
  <2>2. CASE ~ \E l : I!Continue(l)
    BY <1>6, <2>2, ClaimsGoesOn DEF I!Sign
  <2> QED BY <2>1, <2>2
<1>7. CASE I!CompareSecrets
  <2>1. /\ pc = "memcmp" /\ compared' = compared \cup {<<scheme, it, dir>>} /\ broken' = broken
        /\ \/ UNCHANGED <<scheme, it, dir, claimed>>
           \/ I!OtherDirection("keypair")
    BY <1>7 DEF I!CompareSecrets
  <2> QED BY <2>1, ClaimsGoesOn, ClaimsOtherDirection
<1>8. CASE I!Verify
  <2>1. /\ pc = "verify" /\ broken' = broken /\ compared \subseteq compared'
        /\ \/ UNCHANGED <<scheme, it, dir, claimed>>
           \/ I!OtherDirection("fill") /\ compared' = compared \cup {<<scheme, it, dir>>}
    BY <1>8 DEF I!Verify, I!loop
  <2> QED BY <2>1, ClaimsGoesOn, ClaimsOtherDirection
<1>9. CASE UNCHANGED I!ivars
  BY <1>9 DEF I!ivars, I!loop, I!ghosts, DiffClaims, DiffCovered
<1> QED
  BY <1>1, <1>2, <1>5, <1>6, <1>7, <1>8, <1>9 DEF I!Next, I!Stop

(* The line "%ld iters, both directions agree" is right about every        *)
(* iteration in which no call failed (pqc_diff_harness.c:117, :162).       *)
THEOREM InteropSummary ==
  I!Spec => []I!ComparedUnlessFailed
<1>1. I!Init => DiffClaims
  BY DEF I!Init, DiffClaims, InLoop, KemCalls, SigCalls
<1>2. DiffClaims => I!ComparedUnlessFailed
  BY DEF DiffClaims, DiffCovered, I!ComparedUnlessFailed
<1> QED BY <1>1, <1>2, DiffClaimsStep, DiffTypedAlways, PTL DEF I!Spec

-----------------------------------------------------------------------------
(* pqc_kat.                                                                *)

(* What the header of pqc_kat_harness.c takes for granted.                 *)
DrawsAlike == Draws["liboqs"] = Draws["pqclean"]

InVector == {"seed", "keypair", "use", "cmp"}

KatTyped ==
  /\ pc \in InVector \cup {"new", "abort", "exit0", "exit1"}
  /\ scheme \in 1 .. Len(Schemes) + 1 /\ it \in 0 .. KatIters - 1 /\ lib \in K!Libs
  /\ ran \in Nat /\ ran <= scheme /\ ran <= Len(Schemes)
  /\ pc = "new" => ran < scheme
  /\ pc \in InVector => scheme <= Len(Schemes)
  /\ DOMAIN keys = K!Libs /\ DOMAIN out = K!Libs
  /\ identical \cup wrong \subseteq Nat \X Nat

-----------------------------------------------------------------------------
(* What a right library makes of the generator as it was seeded for this   *)
(* vector.                                                                 *)
RightKeys == [from |-> K!DrawnAll(K!Seeded(seed), Draws["liboqs"]["keypair"]),
              args |-> <<>>, by |-> "right"]
AfterKeys == K!DrawnAll(K!Seeded(seed), Draws["liboqs"]["keypair"])
RightOut  == [from |-> K!DrawnAll(AfterKeys, Draws["liboqs"]["use"]),
              args |-> <<it, RightKeys>>, by |-> "right"]

(* While no library has erred, the generator stands where it stood for     *)
(* the other library, and what both have made is the same.                 *)
Reseeded ==
  wrong = {} =>
    /\ pc # "abort"
    /\ pc = "keypair" => drbg = K!Seeded(seed)
    /\ pc = "use" => drbg = AfterKeys /\ keys[lib] = RightKeys
    /\ pc \in K!Calls /\ lib = "pqclean" =>
         keys["liboqs"] = RightKeys /\ out["liboqs"] = RightOut
    /\ pc = "cmp" => \A l \in K!Libs : keys[l] = RightKeys /\ out[l] = RightOut

(* An error of this vector has left its mark on what its library made, and *)
(* a library marks nothing but its own.                                    *)
KatPast(s, i) == s < scheme \/ (s = scheme /\ i < it /\ pc # "new")

Made(l) == {k \in {"keys", "out"} :
              \/ pc = "cmp" \/ (lib = "pqclean" /\ l = "liboqs")
              \/ (k = "keys" /\ pc = "use" /\ l = lib)}

Mark(k, l) == IF k = "keys" THEN keys[l].by ELSE out[l].by

Marked ==
  /\ identical \cap wrong = {}
  /\ pc # "abort" =>
    /\ \A v \in identical : KatPast(v[1], v[2])
    /\ \A v \in wrong : KatPast(v[1], v[2]) \/ (pc \in K!Calls \cup {"cmp"} /\ v = <<scheme, it>>)
    /\ pc \in K!Calls \cup {"cmp"} =>
         /\ \A l \in K!Libs : \A k \in Made(l) : Mark(k, l) \in {"right", l}
         /\ <<scheme, it>> \in wrong => \E l \in K!Libs : \E k \in Made(l) : Mark(k, l) = l

(* The vectors behind were found identical, unless a call failed.          *)
KatCovered(s, i) == <<s, i>> \in identical \/ <<s, i>> \in broken

KatClaims ==
  /\ \A s \in claimed : \A i \in 0 .. KatIters - 1 : KatCovered(s, i)
  /\ pc \in InVector => \A i \in 0 .. it - 1 : KatCovered(scheme, i)

-----------------------------------------------------------------------------
LEMMA KatTypedStep ==
  ASSUME KatTyped, [K!Next \/ K!Stop]_K!kvars
  PROVE  KatTyped'
<1> USE DEF InVector
<1>1. /\ KatIters \in Nat /\ KatIters > 0 /\ Len(Schemes) \in Nat
      /\ <<scheme, it>> \in Nat \X Nat
  BY PqcConstantsOK DEF KatTyped
<1>2. ASSUME pc \in InVector, K!NextVector, ran' = ran
      PROVE  /\ it' \in 0 .. KatIters - 1
             /\ \/ pc' = "seed" /\ scheme' = scheme
                \/ pc' = "new" /\ scheme' = scheme + 1 /\ ran' < scheme'
             /\ scheme' \in 1 .. Len(Schemes) + 1 /\ ran' <= scheme'
  BY <1>1, <1>2 DEF K!NextVector, KatTyped
<1>3. CASE K!New \/ K!Finish \/ K!KatSeed
  BY <1>1, <1>3 DEF K!New, K!Finish, K!KatSeed, KatTyped, K!loop, K!ghosts, K!Libs
<1>4. CASE K!Keypair
  BY <1>1, <1>4 DEF K!Keypair, K!Errs, KatTyped, K!loop
<1>5. CASE K!Use
  BY <1>1, <1>5 DEF K!Use, K!Errs, KatTyped, K!loop, K!Libs
<1>6. CASE K!Fails
  BY <1>1, <1>2, <1>6 DEF K!Fails, K!Calls, KatTyped
<1>7. CASE K!Compare
  BY <1>1, <1>2, <1>7 DEF K!Compare, KatTyped
<1>8. CASE UNCHANGED K!kvars
  BY <1>8 DEF K!kvars, K!loop, K!ghosts, KatTyped
<1> QED BY <1>3, <1>4, <1>5, <1>6, <1>7, <1>8 DEF K!Next, K!Stop

LEMMA KatTypedInit ==
  ASSUME K!Init PROVE KatTyped
<1>1. Len(Schemes) \in Nat /\ KatIters \in Nat /\ KatIters > 0
  BY PqcConstantsOK
<1> QED BY <1>1 DEF K!Init, KatTyped, K!Libs, InVector

LEMMA KatTypedAlways ==
  K!Spec => []KatTyped
<1>1. K!Init => KatTyped
  BY KatTypedInit
<1> QED BY <1>1, KatTypedStep, PTL DEF K!Spec

(* The seed is a function of the vector's number.                          *)
VectorSeed == K!DrawnAll(K!Seeded(K!Top), [t \in 1 .. it + 1 |-> K!SEEDLEN])

SeedBounded ==
  /\ pc \in K!Calls \cup {"cmp"} => seed = VectorSeed
  /\ Len(seed) <= KatIters + 1

(* Each library starts where the seed of the vector puts the generator,    *)
(* and what it has made it made of its own draws, right or wrong.          *)
OwnKeys(l) == keys[l].from = K!DrawnAll(K!Seeded(seed), Draws[l]["keypair"])
OwnOut(l)  == /\ out[l].from = K!DrawnAll(keys[l].from, Draws[l]["use"])
              /\ out[l].args = <<it, keys[l]>>

Positioned ==
  /\ pc = "keypair" => drbg = K!Seeded(seed)
  /\ pc = "use" => OwnKeys(lib) /\ drbg = keys[lib].from
  /\ pc \in K!Calls /\ lib = "pqclean" => OwnKeys("liboqs") /\ OwnOut("liboqs")
  /\ pc = "cmp" => \A l \in K!Libs : OwnKeys(l) /\ OwnOut(l)

LEMMA SeedLength ==
  ASSUME NEW n \in Nat
  PROVE  Len(K!Seeded(K!Top) \o [t \in 1 .. n |-> K!SEEDLEN]) = n + 1
<1> DEFINE first == K!Seeded(K!Top)
           drawn == [t \in 1 .. n |-> K!SEEDLEN]
<1>1. first \in Seq(Int) /\ Len(first) = 1
  BY DEF K!Seeded, K!Top
<1>2. drawn \in Seq(Int) /\ Len(drawn) = n
  BY DEF K!SEEDLEN
<1> HIDE DEF first, drawn
<1>3. Len(first \o drawn) = Len(first) + Len(drawn)
  BY <1>1, <1>2, ConcatProperties
<1>4. Len(first \o drawn) = n + 1
  BY <1>1, <1>2, <1>3, Z3
<1> QED BY <1>4 DEF first, drawn

LEMMA SeedStep ==
  ASSUME KatTyped, SeedBounded, [K!Next \/ K!Stop]_K!kvars
  PROVE  SeedBounded'
<1>1. K!NextVector => pc' \notin K!Calls \cup {"cmp"}
  BY DEF K!NextVector, K!Calls
<1>2. CASE K!KatSeed
  <2>1. /\ seed' = K!Seeded(K!Top) \o [t \in 1 .. it + 1 |-> K!SEEDLEN] /\ it' = it
    BY <1>2 DEF K!KatSeed, K!DrawnAll, K!loop
  <2>2. it + 1 \in Nat /\ it + 1 <= KatIters /\ KatIters \in Nat
    BY PqcConstantsOK DEF KatTyped
  <2>3. Len(seed') <= KatIters + 1
    BY <2>1, <2>2, SeedLength
  <2> QED BY <2>1, <2>3 DEF SeedBounded, VectorSeed, K!DrawnAll, K!Seeded, K!Top, K!SEEDLEN
<1>3. CASE seed' = seed /\ it' = it /\ (pc \in K!Calls \cup {"cmp"} \/ pc' \notin K!Calls \cup {"cmp"})
  BY <1>3 DEF SeedBounded, VectorSeed, K!DrawnAll, K!Seeded, K!Top, K!SEEDLEN
<1>4. CASE seed' = seed /\ pc' \notin K!Calls \cup {"cmp"}
  BY <1>4 DEF SeedBounded
<1>5. CASE K!New \/ K!Finish
  BY <1>4, <1>5 DEF K!New, K!Finish, K!Calls
<1>6. CASE K!Keypair \/ K!Use
  BY <1>3, <1>6 DEF K!Keypair, K!Use, K!loop, K!Calls
<1>7. CASE K!Fails
  BY <1>1, <1>4, <1>7 DEF K!Fails
<1>8. CASE K!Compare
  BY <1>1, <1>3, <1>4, <1>8 DEF K!Compare
<1>9. CASE UNCHANGED K!kvars
  BY <1>3, <1>9 DEF K!kvars, K!loop
<1> QED BY <1>2, <1>5, <1>6, <1>7, <1>8, <1>9 DEF K!Next, K!Stop

-----------------------------------------------------------------------------
LEMMA PositionedStep ==
  ASSUME KatTyped, Positioned, [K!Next \/ K!Stop]_K!kvars
  PROVE  Positioned'
<1>1. K!Libs = {"liboqs", "pqclean"} /\ lib \in K!Libs /\ DOMAIN keys = K!Libs /\ DOMAIN out = K!Libs
  BY DEF K!Libs, KatTyped
<1>2. K!NextVector => pc' \notin K!Calls \cup {"cmp"}
  BY DEF K!NextVector, K!Calls
<1>3. pc' \notin K!Calls \cup {"cmp"} => Positioned'
  BY DEF Positioned, K!Calls
<1>4. CASE K!New \/ K!Finish \/ K!Fails
  BY <1>2, <1>3, <1>4 DEF K!New, K!Finish, K!Fails, K!Calls
<1>5. CASE K!KatSeed
  <2>1. pc' = "keypair" /\ lib' = "liboqs" /\ drbg' = K!Seeded(seed')
    BY <1>5 DEF K!KatSeed
  <2>2. K!Seeded(seed)' = K!Seeded(seed')
    BY DEF K!Seeded
  <2> QED BY <2>1, <2>2 DEF Positioned
<1>6. CASE K!Keypair
  <2>1. PICK errs \in BOOLEAN : keys' = [keys EXCEPT ![lib] = K!Computed(<<>>, errs)]
    BY <1>6 DEF K!Keypair
  <2>2. /\ pc = "keypair" /\ pc' = "use" /\ UNCHANGED <<lib, seed, it, out>>
        /\ drbg = K!Seeded(seed) /\ drbg' = K!DrawnAll(drbg, Draws[lib]["keypair"])
    BY <1>6 DEF K!Keypair, Positioned, K!loop
  <2>3. keys'[lib].from = drbg' /\ \A l \in K!Libs \ {lib} : keys'[l] = keys[l]
    BY <1>1, <2>1, <2>2 DEF K!Computed
  <2>4. K!Seeded(seed)' = K!Seeded(seed)
    BY <2>2 DEF K!Seeded
  <2>5. OwnKeys(lib)' /\ drbg' = keys'[lib'].from
    BY <2>2, <2>3, <2>4 DEF OwnKeys
  <2>6. lib = "pqclean" => (OwnKeys("liboqs") /\ OwnOut("liboqs"))'
    BY <1>1, <2>2, <2>3, <2>4 DEF Positioned, K!Calls, OwnKeys, OwnOut
  <2> QED BY <2>2, <2>5, <2>6 DEF Positioned
<1>7. CASE K!Use
  <2>1. PICK errs \in BOOLEAN : out' = [out EXCEPT ![lib] = K!Computed(<<it, keys[lib]>>, errs)]
    BY <1>7 DEF K!Use
  <2>2. /\ pc = "use" /\ UNCHANGED <<seed, it, keys>>
        /\ OwnKeys(lib) /\ drbg = keys[lib].from
        /\ \/ /\ lib = "liboqs" /\ drbg' = K!Seeded(seed) /\ pc' = "keypair" /\ lib' = "pqclean"
           \/ /\ lib = "pqclean" /\ pc' = "cmp"
              /\ OwnKeys("liboqs") /\ OwnOut("liboqs")
    BY <1>1, <1>7 DEF K!Use, Positioned, K!Calls, K!loop
  <2>3. /\ out'[lib].from = K!DrawnAll(keys[lib].from, Draws[lib]["use"])
        /\ out'[lib].args = <<it, keys[lib]>>
        /\ \A l \in K!Libs \ {lib} : out'[l] = out[l]
    BY <1>1, <2>1, <2>2 DEF K!Computed
  <2>4. K!Seeded(seed)' = K!Seeded(seed)
    BY <2>2 DEF K!Seeded
  <2>5. \A l \in K!Libs : l = lib => OwnKeys(l)' /\ OwnOut(l)'
    BY <1>1, <2>2, <2>3, <2>4 DEF OwnKeys, OwnOut
  <2>6. CASE lib = "liboqs"
    BY <1>1, <2>2, <2>4, <2>5, <2>6 DEF Positioned
  <2>7. CASE lib = "pqclean"
    <3>1. OwnKeys("liboqs")' /\ OwnOut("liboqs")'
      BY <1>1, <2>2, <2>3, <2>4, <2>7 DEF OwnKeys, OwnOut
    <3> QED BY <1>1, <2>2, <2>5, <2>7, <3>1 DEF Positioned
  <2> QED BY <1>1, <2>6, <2>7
<1>8. CASE K!Compare
  <2>1. K!NextVector \/ pc' = "abort"
    BY <1>8 DEF K!Compare
  <2> QED BY <1>2, <1>3, <2>1 DEF K!Calls
<1>9. CASE UNCHANGED K!kvars
  <2>1. UNCHANGED <<pc, lib, drbg, seed, it, keys, out>>
    BY <1>9 DEF K!kvars, K!loop
  <2>2. K!Seeded(seed)' = K!Seeded(seed)
    BY <2>1 DEF K!Seeded
  <2> QED BY <2>1, <2>2 DEF Positioned, OwnKeys, OwnOut
<1> QED BY <1>4, <1>5, <1>6, <1>7, <1>8, <1>9 DEF K!Next, K!Stop

LEMMA ReseededStep ==
  ASSUME DrawsAlike, KatTyped, Reseeded, [K!Next \/ K!Stop]_K!kvars
  PROVE  Reseeded'
<1> SUFFICES ASSUME wrong' = {} PROVE Reseeded'
  BY DEF Reseeded
<1>1. ASSUME NEW errs, K!Errs(errs)
      PROVE  errs = FALSE \/ errs \notin BOOLEAN
  BY <1>1 DEF K!Errs
<1>2. wrong = {}
  BY DEF K!Next, K!Stop, K!kvars, K!New, K!Finish, K!KatSeed, K!Keypair, K!Use, K!Fails, K!Compare, K!ghosts, K!Errs
<1> USE <1>2
<1>3. K!Libs = {"liboqs", "pqclean"} /\ Draws["liboqs"] = Draws["pqclean"] /\ pc # "abort"
  BY DEF K!Libs, DrawsAlike, Reseeded
<1>4. ASSUME UNCHANGED <<seed, it>>
      PROVE  RightKeys' = RightKeys /\ RightOut' = RightOut /\ AfterKeys' = AfterKeys
  BY <1>4 DEF RightKeys, RightOut, AfterKeys
<1>5. K!NextVector => pc' \notin K!Calls \cup {"cmp", "abort"}
  BY DEF K!NextVector, K!Calls
<1>6. CASE K!New \/ K!Finish
  BY <1>6 DEF K!New, K!Finish, Reseeded, K!Calls
<1>7. CASE K!KatSeed
  <2>1. pc' = "keypair" /\ lib' = "liboqs" /\ drbg' = K!Seeded(seed')
    BY <1>7 DEF K!KatSeed
  <2>2. (K!Seeded(seed))' = K!Seeded(seed')
    BY DEF K!Seeded
  <2> QED BY <2>1, <2>2 DEF Reseeded
<1>8. CASE K!Keypair
  <2>1. PICK errs \in BOOLEAN : K!Errs(errs) /\ keys' = [keys EXCEPT ![lib] = K!Computed(<<>>, errs)]
    BY <1>8 DEF K!Keypair
  <2>2. /\ pc = "keypair" /\ pc' = "use" /\ UNCHANGED <<lib, seed, it, out>>
        /\ drbg = K!Seeded(seed) /\ drbg' = K!DrawnAll(drbg, Draws[lib]["keypair"])
        /\ lib \in K!Libs
    BY <1>8 DEF K!Keypair, Reseeded, KatTyped, K!loop
  <2>3. K!Computed(<<>>, FALSE) = RightKeys /\ drbg' = AfterKeys
    BY <1>3, <2>2 DEF K!Computed, RightKeys, AfterKeys
  <2>4. keys'[lib] = RightKeys /\ \A l \in K!Libs \ {lib} : keys'[l] = keys[l]
    BY <1>1, <2>1, <2>2, <2>3 DEF KatTyped
  <2>5. lib = "pqclean" => keys["liboqs"] = RightKeys /\ out["liboqs"] = RightOut
    BY <2>2 DEF Reseeded, K!Calls
  <2> QED BY <1>3, <1>4, <2>2, <2>3, <2>4, <2>5 DEF Reseeded
<1>9. CASE K!Use
  <2>1. PICK errs \in BOOLEAN :
          K!Errs(errs) /\ out' = [out EXCEPT ![lib] = K!Computed(<<it, keys[lib]>>, errs)]
    BY <1>9 DEF K!Use
  <2>2. /\ pc = "use" /\ UNCHANGED <<seed, it, keys>>
        /\ drbg = AfterKeys /\ keys[lib] = RightKeys /\ lib \in K!Libs
        /\ \/ /\ lib = "liboqs" /\ drbg' = K!Seeded(seed) /\ pc' = "keypair" /\ lib' = "pqclean"
           \/ /\ lib = "pqclean" /\ pc' = "cmp"
    BY <1>3, <1>9 DEF K!Use, Reseeded, KatTyped, K!loop
  <2>3. K!Computed(<<it, keys[lib]>>, FALSE) = RightOut
    BY <1>3, <2>2 DEF K!Computed, RightOut
  <2>4. out'[lib] = RightOut /\ \A l \in K!Libs \ {lib} : out'[l] = out[l]
    BY <1>1, <2>1, <2>2, <2>3 DEF KatTyped
  <2>5. lib = "pqclean" => keys["liboqs"] = RightKeys /\ out["liboqs"] = RightOut
    BY <2>2 DEF Reseeded, K!Calls
  <2>6. K!Seeded(seed)' = K!Seeded(seed)
    BY <2>2 DEF K!Seeded
  <2> QED BY <1>3, <1>4, <2>2, <2>4, <2>5, <2>6 DEF Reseeded
<1>10. CASE K!Fails
  BY <1>5, <1>10 DEF K!Fails, Reseeded, K!Calls
<1>11. CASE K!Compare
  <2>1. K!NextVector
    BY <1>3, <1>11 DEF K!Compare, Reseeded
  <2> QED BY <1>5, <2>1 DEF Reseeded, K!Calls
<1>12. CASE UNCHANGED K!kvars
  <2>1. UNCHANGED <<pc, lib, drbg, seed, it, keys, out>>
    BY <1>12 DEF K!kvars, K!loop
  <2>2. K!Seeded(seed)' = K!Seeded(seed)
    BY <2>1 DEF K!Seeded
  <2> QED BY <1>4, <2>1, <2>2 DEF Reseeded
<1> QED BY <1>6, <1>7, <1>8, <1>9, <1>10, <1>11, <1>12 DEF K!Next, K!Stop

(* With libraries that draw alike, pqc_kat reports a difference only when  *)
(* one of them computed something wrong (pqc_kat_harness.c:101-117, :131-151): the   *)
(* generator is where it was, whatever failed before.                      *)
THEOREM KatAccusesNobody ==
  ASSUME DrawsAlike PROVE K!Spec => []K!NoFalseAlarm
<1>1. K!Init => Reseeded
  BY DEF K!Init, Reseeded, K!Calls
<1>2. Reseeded => K!NoFalseAlarm
  BY DEF Reseeded, K!NoFalseAlarm
<1> QED BY <1>1, <1>2, ReseededStep, KatTypedAlways, PTL DEF K!Spec

-----------------------------------------------------------------------------
LEMMA KatPastGrows ==
  ASSUME KatTyped, K!NextVector, pc \in InVector, NEW s \in Nat, NEW i \in Nat,
         KatPast(s, i) \/ (s = scheme /\ i = it)
  PROVE  KatPast(s, i)'
BY DEF KatTyped, K!NextVector, KatPast, InVector

(* The end of a turn.                                                      *)
LEMMA MarkedEnds ==
  ASSUME KatTyped, K!NextVector, pc \in InVector,
         \A v \in identical : KatPast(v[1], v[2]),
         \A v \in wrong : KatPast(v[1], v[2]) \/ v = <<scheme, it>>,
         identical' \subseteq identical \cup {<<scheme, it>>}, wrong' = wrong,
         identical' \cap wrong = {}
  PROVE  Marked'
<1>1. ASSUME NEW v \in identical' \cup wrong'
      PROVE  KatPast(v[1], v[2])'
  <2>1. v[1] \in Nat /\ v[2] \in Nat
    BY DEF KatTyped
  <2>2. KatPast(v[1], v[2]) \/ (v[1] = scheme /\ v[2] = it)
    OBVIOUS
  <2> QED BY <2>1, <2>2, KatPastGrows
<1>2. pc' \in {"seed", "new"}
  BY DEF K!NextVector
<1> QED BY <1>1, <1>2 DEF Marked, K!Calls

LEMMA MarkedStep ==
  ASSUME KatTyped, Marked, [K!Next \/ K!Stop]_K!kvars
  PROVE  Marked'
<1>0. pc' = "abort" => UNCHANGED <<identical, wrong>>
  BY DEF K!Next, K!Stop, K!kvars, K!New, K!Finish, K!KatSeed, K!Keypair, K!Use, K!Fails, K!Compare, K!NextVector, K!ghosts
<1> SUFFICES ASSUME pc' # "abort" PROVE Marked'
  BY <1>0 DEF Marked
<1>1. K!Libs = {"liboqs", "pqclean"} /\ lib \in K!Libs
  BY DEF K!Libs, KatTyped
<1>2. CASE K!New
  <2>1. /\ pc = "new" /\ pc' \in {"seed", "new"} /\ UNCHANGED <<identical, wrong>>
        /\ \/ scheme' = scheme
           \/ pc' = "new" /\ scheme' = scheme + 1
    BY <1>2 DEF K!New, K!ghosts
  <2>2. \A s \in Nat, i \in Nat : KatPast(s, i) => KatPast(s, i)'
    BY <2>1 DEF KatPast, KatTyped
  <2>3. /\ \A v \in identical \cup wrong : v[1] \in Nat /\ v[2] \in Nat /\ KatPast(v[1], v[2])
    BY <2>1 DEF KatTyped, Marked, K!Calls
  <2> QED BY <2>1, <2>2, <2>3 DEF Marked, K!Calls
<1>3. CASE K!Finish
  BY <1>3 DEF K!Finish, K!ghosts, K!loop, Marked, KatPast, K!Calls
<1>4. \A s, i : UNCHANGED <<scheme, it>> /\ pc \in InVector /\ pc' \in InVector
                 => (KatPast(s, i)' <=> KatPast(s, i))
  BY DEF KatPast, InVector
<1>5. CASE K!KatSeed
  <2>1. /\ pc = "seed" /\ pc' = "keypair" /\ lib' = "liboqs"
        /\ UNCHANGED <<scheme, it, identical, wrong>>
    BY <1>5 DEF K!KatSeed, K!loop, K!ghosts
  <2>2. <<scheme, it>> \notin wrong
    <3>1. ~ KatPast(scheme, it)
      BY PqcConstantsOK, <2>1 DEF KatPast, KatTyped
    <3> QED BY <2>1, <3>1 DEF Marked, K!Calls
  <2>3. \A l \in K!Libs : Made(l)' = {}
    BY <1>1, <2>1 DEF Made
  <2> QED BY <1>4, <2>1, <2>2, <2>3 DEF Marked, InVector, K!Calls
<1>6. <<scheme, it>> \notin identical \/ pc \notin InVector
  <2>1. ~ KatPast(scheme, it)
    BY PqcConstantsOK DEF KatPast, KatTyped
  <2> QED BY <2>1 DEF Marked, InVector, KatTyped
<1>7. CASE K!Keypair
  <2>1. PICK errs \in BOOLEAN : K!Errs(errs) /\ keys' = [keys EXCEPT ![lib] = K!Computed(<<>>, errs)]
    BY <1>7 DEF K!Keypair
  <2>2. /\ pc = "keypair" /\ pc' = "use" /\ UNCHANGED <<lib, scheme, it, out, identical>>
        /\ pc # "abort"
    BY <1>7 DEF K!Keypair, K!loop
  <2>3. /\ keys'[lib].by = (IF errs THEN lib ELSE "right")
        /\ \A l \in K!Libs \ {lib} : keys'[l] = keys[l]
    BY <2>1, <1>1 DEF KatTyped, K!Computed
  <2>4. /\ Made(lib) = {} /\ Made(lib)' = {"keys"}
        /\ \A l \in K!Libs \ {lib} : Made(l)' = Made(l) /\ \A k : Mark(k, l)' = Mark(k, l)
    BY <1>1, <2>2, <2>3 DEF Made, Mark
  <2>5. Mark("keys", lib)' = (IF errs THEN lib ELSE "right")
    BY <2>2, <2>3 DEF Mark
  <2>6. wrong' = IF errs THEN wrong \cup {<<scheme, it>>} ELSE wrong
    BY <2>1 DEF K!Errs
  <2> QED
    BY <1>1, <1>4, <1>6, <2>2, <2>4, <2>5, <2>6 DEF Marked, InVector, K!Calls
<1>8. CASE K!Use
  <2>1. PICK errs \in BOOLEAN :
          K!Errs(errs) /\ out' = [out EXCEPT ![lib] = K!Computed(<<it, keys[lib]>>, errs)]
    BY <1>8 DEF K!Use
  <2>2. /\ pc = "use" /\ UNCHANGED <<scheme, it, keys, identical>>
        /\ \/ lib = "liboqs" /\ pc' = "keypair" /\ lib' = "pqclean"
           \/ lib = "pqclean" /\ pc' = "cmp" /\ lib' = lib
    BY <1>1, <1>8 DEF K!Use, K!loop
  <2>3. /\ out'[lib].by = (IF errs THEN lib ELSE "right")
        /\ \A l \in K!Libs \ {lib} : out'[l] = out[l]
    BY <2>1, <1>1 DEF KatTyped, K!Computed
  <2>4. /\ Made(lib) = {"keys"}
        /\ \A l \in K!Libs : l = lib => Made(l)' = {"keys", "out"}
        /\ \A l \in K!Libs \ {lib} : Made(l)' = Made(l) /\ \A k : Mark(k, l)' = Mark(k, l)
    BY <1>1, <2>2, <2>3 DEF Made, Mark
  <2>5. \A l \in K!Libs : l = lib => Mark("out", l)' = (IF errs THEN l ELSE "right")
    BY <2>2, <2>3 DEF Mark
  <2>6. wrong' = IF errs THEN wrong \cup {<<scheme, it>>} ELSE wrong
    BY <2>1 DEF K!Errs
  <2>7. \A l \in K!Libs : l = lib => Mark("keys", l)' = Mark("keys", l)
    BY <2>2 DEF Mark
  <2>8. pc \in InVector /\ pc' \in InVector /\ pc \in K!Calls /\ pc' \in K!Calls \cup {"cmp"}
    BY <2>2 DEF InVector, K!Calls
  <2>9. /\ \A v \in identical : KatPast(v[1], v[2])'
        /\ \A v \in wrong' : KatPast(v[1], v[2])' \/ v = <<scheme, it>>
        /\ identical' \cap wrong' = {}
    BY <1>4, <1>6, <2>2, <2>6, <2>8 DEF Marked
  <2>10. \A l \in K!Libs : \A k \in Made(l)' : Mark(k, l)' \in {"right", l}
    BY <2>2, <2>4, <2>5, <2>7, <2>8 DEF Marked
  <2>11. ASSUME <<scheme, it>> \in wrong'
         PROVE  \E l \in K!Libs : \E k \in Made(l)' : Mark(k, l)' = l
    <3>1. PICK m \in K!Libs : m = lib
      BY <1>1
    <3>2. CASE errs
      BY <2>4, <2>5, <3>1, <3>2
    <3>3. CASE ~ errs
      <4>1. PICK l \in K!Libs : \E k \in Made(l) : Mark(k, l) = l
        BY <2>2, <2>6, <2>8, <2>11, <3>3 DEF Marked
      <4> QED BY <2>4, <2>7, <4>1
    <3> QED BY <3>2, <3>3
  <2> QED BY <2>2, <2>8, <2>9, <2>10, <2>11 DEF Marked
<1>9. CASE K!Fails
  <2>1. pc \in InVector /\ K!NextVector /\ UNCHANGED <<identical, wrong>> /\ pc # "abort"
    BY <1>9 DEF K!Fails, InVector, K!Calls
  <2> QED BY <2>1, MarkedEnds DEF Marked
<1>10. CASE K!Compare
  <2>1. /\ pc = "cmp" /\ K!NextVector /\ wrong' = wrong
        /\ identical' = identical \cup {<<scheme, it>>}
        /\ keys["liboqs"] = keys["pqclean"] /\ out["liboqs"] = out["pqclean"]
    BY <1>10 DEF K!Compare
  <2>2. \A l \in K!Libs : Made(l) = {"keys", "out"}
    BY <2>1 DEF Made
  <2>3. \A k \in {"keys", "out"} : Mark(k, "liboqs") = Mark(k, "pqclean")
    BY <2>1 DEF Mark
  <2>4. <<scheme, it>> \notin wrong
    BY <1>1, <2>1, <2>2, <2>3 DEF Marked
  <2> QED BY <2>1, <2>4, MarkedEnds DEF Marked, InVector
<1>11. CASE UNCHANGED K!kvars
  <2>1. UNCHANGED <<pc, lib, scheme, it, keys, out, identical, wrong>>
    BY <1>11 DEF K!kvars, K!loop, K!ghosts
  <2> QED BY <2>1 DEF Marked, KatPast, Made, Mark
<1> QED
  BY <1>2, <1>3, <1>5, <1>7, <1>8, <1>9, <1>10, <1>11 DEF K!Next, K!Stop

(* A wrong key, ciphertext or signature never counts as an identical       *)
(* vector (pqc_kat_harness.c:114-117, :146-151): the other library's output *)
(* differs from it.                                                        *)
THEOREM KatCatches ==
  K!Spec => []K!WrongCaught
<1>1. K!Init => Marked
  BY DEF K!Init, Marked, K!Calls
<1>2. Marked => K!WrongCaught
  BY DEF Marked, K!WrongCaught
<1> QED BY <1>1, <1>2, MarkedStep, KatTypedAlways, PTL DEF K!Spec

-----------------------------------------------------------------------------
LEMMA KatCoveredStays ==
  ASSUME identical \subseteq identical', broken \subseteq broken', NEW s, NEW i, KatCovered(s, i)
  PROVE  KatCovered(s, i)'
BY DEF KatCovered

LEMMA ClaimsNextVector ==
  ASSUME KatTyped, KatClaims, pc \in InVector, K!NextVector,
         identical \subseteq identical', broken \subseteq broken',
         <<scheme, it>> \in identical' \cup broken'
  PROVE  KatClaims'
<1>1. PICK s, j : s = scheme /\ j = it
  OBVIOUS
<1>2. j \in Nat /\ KatIters \in Nat /\ j < KatIters
  BY PqcConstantsOK, <1>1 DEF KatTyped
<1>3. \A i \in 0 .. j : KatCovered(s, i)'
  <2>1. \A i \in 0 .. j - 1 : KatCovered(s, i)'
    BY <1>1, KatCoveredStays DEF KatClaims
  <2>2. KatCovered(s, j)'
    BY <1>1 DEF KatCovered
  <2>3. \A i \in 0 .. j : i \in 0 .. j - 1 \/ i = j
    BY <1>2
  <2> QED BY <2>1, <2>2, <2>3
<1>4. \A c \in claimed : \A i \in 0 .. KatIters - 1 : KatCovered(c, i)'
  BY KatCoveredStays DEF KatClaims
<1>5. CASE j + 1 < KatIters
  BY <1>1, <1>2, <1>3, <1>4, <1>5 DEF K!NextVector, KatClaims
<1>6. CASE ~ (j + 1 < KatIters)
  <2>1. /\ pc' = "new" /\ claimed' = claimed \cup {s}
        /\ \A i \in 0 .. KatIters - 1 : KatCovered(s, i)'
    BY <1>1, <1>2, <1>3, <1>6 DEF K!NextVector
  <2> QED BY <1>4, <2>1 DEF KatClaims, InVector
<1> QED BY <1>5, <1>6

LEMMA KatClaimsStep ==
  ASSUME KatTyped, KatClaims, [K!Next \/ K!Stop]_K!kvars
  PROVE  KatClaims'
<1> USE DEF InVector
<1>1. CASE K!New \/ K!Finish
  <2>1. /\ UNCHANGED <<identical, broken, claimed>>
        /\ (pc' \in InVector => it' = 0)
    BY <1>1 DEF K!New, K!Finish, K!ghosts
  <2>2. \A s, i : KatCovered(s, i) => KatCovered(s, i)'
    BY <2>1, KatCoveredStays
  <2> QED BY <2>1, <2>2 DEF KatClaims
<1>2. CASE K!KatSeed \/ K!Keypair \/ K!Use
  BY <1>2 DEF K!KatSeed, K!Keypair, K!Use, K!Calls, K!loop, K!ghosts, KatClaims, KatCovered
<1>3. CASE K!Fails
  BY <1>3, ClaimsNextVector DEF K!Fails, K!Calls
<1>4. CASE K!Compare
  <2>1. \/ K!NextVector /\ identical' = identical \cup {<<scheme, it>>}
        \/ pc' = "abort" /\ UNCHANGED <<claimed, identical>>
    BY <1>4 DEF K!Compare
  <2>2. pc = "cmp" /\ broken' = broken
    BY <1>4 DEF K!Compare
  <2>3. CASE K!NextVector /\ identical' = identical \cup {<<scheme, it>>}
    BY <2>2, <2>3, ClaimsNextVector
  <2>4. CASE pc' = "abort" /\ UNCHANGED <<claimed, identical>>
    BY <2>2, <2>4 DEF KatClaims, KatCovered
  <2> QED BY <2>1, <2>3, <2>4
<1>5. CASE UNCHANGED K!kvars
  BY <1>5 DEF K!kvars, K!loop, K!ghosts, KatClaims, KatCovered
<1> QED BY <1>1, <1>2, <1>3, <1>4, <1>5 DEF K!Next, K!Stop

(* The line "%ld vectors byte-identical" is right about every vector in    *)
(* which no call failed (pqc_kat_harness.c:119, :153).              *)
THEOREM KatSummary ==
  K!Spec => []K!IdenticalUnlessFailed
<1>1. K!Init => KatClaims
  BY DEF K!Init, KatClaims, InVector
<1>2. KatClaims => K!IdenticalUnlessFailed
  BY DEF KatClaims, KatCovered, K!IdenticalUnlessFailed
<1> QED BY <1>1, <1>2, KatClaimsStep, KatTypedAlways, PTL DEF K!Spec

-----------------------------------------------------------------------------
(* Both programs on the same libraries.                                    *)

DiffInv == DiffTyped /\ Fresh /\ Caught /\ DiffClaims

KatInv ==
  /\ KatTyped /\ SeedBounded /\ Positioned /\ Marked /\ KatClaims
  /\ DrawsAlike => Reseeded

(* pqc_kat's own variables before it runs.                                 *)
KatUntouched ==
  /\ lib = "liboqs" /\ drbg = K!Unseeded /\ seed = K!Top /\ identical = {}
  /\ keys = [l \in K!Libs |-> K!Junk] /\ out = [l \in K!Libs |-> K!Junk]

StageInv ==
  /\ flawed \in MayErr \cup {"none"}
  /\ \/ program = "diff" /\ DiffInv /\ KatUntouched
     \/ program = "kat" /\ KatInv

LEMMA DiffInit ==
  ASSUME I!Init PROVE DiffInv
<1>1. DiffTyped
  BY DiffTypedInit
<1>2. Fresh
  BY DEF I!Init, Fresh
<1>3. Caught
  BY DEF I!Init, Caught, Ordered, Shows
<1>4. DiffClaims
  BY DEF I!Init, DiffClaims, InLoop, KemCalls, SigCalls
<1> QED BY <1>1, <1>2, <1>3, <1>4 DEF DiffInv

LEMMA DiffStep ==
  ASSUME DiffInv, [I!Next \/ I!Stop]_I!ivars PROVE DiffInv'
<1>1. DiffTyped'
  BY DiffTypedStep DEF DiffInv
<1> QED BY <1>1, FreshStep, CaughtStep, DiffClaimsStep DEF DiffInv

LEMMA KatInit ==
  ASSUME K!Init PROVE KatInv
<1>1. KatTyped
  BY KatTypedInit
<1>2. SeedBounded
  BY PqcConstantsOK DEF K!Init, SeedBounded, K!Calls, K!Top
<1>3. Marked /\ Reseeded /\ Positioned
  BY DEF K!Init, Marked, Reseeded, Positioned, K!Calls
<1>4. KatClaims
  BY DEF K!Init, KatClaims, InVector
<1> QED BY <1>1, <1>2, <1>3, <1>4 DEF KatInv

LEMMA KatInitNext == K!Init' => KatInv'
<1>1. K!Init => KatInv
  BY KatInit
<1> QED BY <1>1, PTL

LEMMA KatStep ==
  ASSUME KatInv, [K!Next \/ K!Stop]_K!kvars PROVE KatInv'
<1>1. KatTyped' /\ SeedBounded' /\ Positioned' /\ Marked' /\ KatClaims'
  BY KatTypedStep, SeedStep, PositionedStep, MarkedStep, KatClaimsStep DEF KatInv
<1>2. DrawsAlike' => DrawsAlike
  BY DEF DrawsAlike
<1>3. DrawsAlike => Reseeded'
  BY ReseededStep DEF KatInv
<1> QED BY <1>1, <1>2, <1>3 DEF KatInv

(* The second program starts where it would start alone.                   *)
LEMMA HandoverStarts ==
  ASSUME StageInv, Handover PROVE K!Init'
<1>1. KatUntouched /\ flawed \in MayErr \cup {"none"} /\ UNCHANGED <<flawed, katvars>>
  <2>1. "diff" # "kat"
    OBVIOUS
  <2> QED BY <2>1 DEF StageInv, Handover
<1>2. KatUntouched'
  BY <1>1 DEF KatUntouched, katvars, K!Unseeded, K!Top, K!Junk, K!Libs
<1> QED BY <1>1, <1>2 DEF Handover, KatUntouched, K!Init

LEMMA StageStep ==
  ASSUME StageInv, [Next]_vars PROVE StageInv'
<1>1. CASE Diff
  <2>1. /\ program = "diff" /\ program' = "diff" /\ DiffInv /\ KatUntouched
        /\ I!Next /\ UNCHANGED katvars
    BY <1>1 DEF Diff, StageInv
  <2>2. DiffInv'
    BY <2>1, DiffStep
  <2>3. KatUntouched'
    BY <2>1 DEF KatUntouched, katvars, K!Unseeded, K!Top, K!Junk, K!Libs
  <2>4. flawed' = flawed
    BY <2>1 DEF I!Next
  <2> QED BY <2>1, <2>2, <2>3, <2>4 DEF StageInv
<1>2. CASE Handover
  <2>1. K!Init' /\ program' = "kat" /\ flawed' = flawed
    BY <1>2, HandoverStarts DEF Handover
  <2> QED BY <2>1, KatInitNext DEF StageInv
<1>3. CASE Kat
  <2>1. program = "kat" /\ program' = "kat" /\ KatInv /\ K!Next
    BY <1>3 DEF Kat, StageInv
  <2>2. KatInv'
    BY <2>1, KatStep
  <2>3. flawed' = flawed
    BY <2>1 DEF K!Next
  <2> QED BY <2>1, <2>2, <2>3 DEF StageInv
<1>4. CASE UNCHANGED vars
  <2>1. /\ UNCHANGED <<program, flawed>> /\ UNCHANGED I!ivars /\ UNCHANGED K!kvars
        /\ UNCHANGED katvars
    BY <1>4 DEF vars, diffvars, katvars, I!ivars, I!loop, I!keys, I!secrets, I!signed,
                I!ghosts, K!kvars, K!loop, K!ghosts
  <2>2. (DiffInv => DiffInv') /\ (KatInv => KatInv')
    BY <2>1, DiffStep, KatStep
  <2>3. KatUntouched => KatUntouched'
    BY <2>1 DEF KatUntouched, katvars, K!Unseeded, K!Top, K!Junk, K!Libs
  <2> QED BY <2>1, <2>2, <2>3 DEF StageInv
<1> QED BY <1>1, <1>2, <1>3, <1>4 DEF Next, Done

LEMMA StageAlways == Spec => []StageInv
<1>1. Init => StageInv
  <2> SUFFICES ASSUME Init PROVE StageInv
    OBVIOUS
  <2>1. DiffInv
    BY DiffInit DEF Init
  <2>2. KatUntouched /\ flawed \in MayErr \cup {"none"}
    BY DEF Init, K!Init, KatUntouched
  <2> QED BY <2>1, <2>2 DEF Init, StageInv
<1> QED BY <1>1, StageStep, PTL DEF Spec

(* What the invariants of the two programs say at the end of it all.       *)
LEMMA DiffPromises ==
  ASSUME DiffInv
  PROVE  /\ I!TypeOK /\ I!NoFalseAlarm /\ I!WrongCaught
         /\ I!HonestThenTampered /\ I!ComparedUnlessFailed
<1>1. I!TypeOK
  BY PqcConstantsOK DEF DiffInv, DiffTyped, I!TypeOK, InLoop, KemCalls, SigCalls
<1>2. I!NoFalseAlarm
  BY DEF DiffInv, Fresh, I!NoFalseAlarm
<1>3. I!WrongCaught
  BY DEF DiffInv, Caught, Ordered, I!WrongCaught
<1>4. I!ComparedUnlessFailed
  BY DEF DiffInv, DiffClaims, DiffCovered, I!ComparedUnlessFailed
<1> QED BY <1>1, <1>2, <1>3, <1>4, VerdictsExpected DEF DiffInv

LEMMA KatPromises ==
  ASSUME KatInv
  PROVE  /\ K!TypeOK /\ K!WrongCaught /\ K!Replayable /\ K!IdenticalUnlessFailed
         /\ DrawsAlike => K!NoFalseAlarm
<1>1. K!TypeOK
  BY PqcConstantsOK DEF KatInv, KatTyped, SeedBounded, K!TypeOK
<1>2. K!WrongCaught
  BY DEF KatInv, Marked, K!WrongCaught
<1>5. K!Replayable
  <2> SUFFICES ASSUME pc = "cmp", NEW l \in K!Libs
               PROVE  /\ keys[l].from = K!DrawnAll(K!Seeded(VectorSeed), Draws[l]["keypair"])
                      /\ OwnOut(l)
    BY DEF K!Replayable, VectorSeed, OwnOut
  <2> QED BY DEF KatInv, SeedBounded, Positioned, OwnKeys
<1>3. K!IdenticalUnlessFailed
  BY DEF KatInv, KatClaims, KatCovered, K!IdenticalUnlessFailed
<1>4. DrawsAlike => K!NoFalseAlarm
  BY DEF KatInv, Reseeded, K!NoFalseAlarm
<1> QED BY <1>1, <1>2, <1>3, <1>4, <1>5

(* The loops of both programs stay within their tables and argv[1].        *)
THEOREM StageTypes == Spec => []TypeOK
<1>1. StageInv => TypeOK
  BY DiffPromises, KatPromises DEF StageInv, TypeOK
<1> QED BY <1>1, StageAlways, PTL

(* Neither program blames a library that computed nothing wrong: not for   *)
(* what a failed call left in the buffers pqc_diff shares between          *)
(* directions, and, with libraries that draw alike, not for where a failed *)
(* call left the generator pqc_kat shares between libraries.               *)
THEOREM StageAccusesNobody ==
  ASSUME DrawsAlike PROVE Spec => []NoFalseAlarm
<1>1. StageInv => NoFalseAlarm
  BY DiffPromises, KatPromises DEF StageInv, NoFalseAlarm
<1> QED BY <1>1, StageAlways, PTL

(* No wrong value of a KEM gets past the memcmp of its direction in        *)
(* pqc_diff, and no wrong byte past the cmp of its vector in pqc_kat.      *)
THEOREM StageCatches == Spec => []WrongCaught
<1>1. StageInv => WrongCaught
  BY DiffPromises, KatPromises DEF StageInv, WrongCaught
<1> QED BY <1>1, StageAlways, PTL

(* The verdicts pqc_diff compares are an acceptance of the honest message  *)
(* and a refusal of the tampered one (pqc_diff_harness.c:128-161).         *)
THEOREM StageHonestThenTampered == Spec => []HonestThenTampered
<1>1. StageInv => HonestThenTampered
  BY DiffPromises DEF StageInv, HonestThenTampered
<1> QED BY <1>1, StageAlways, PTL

(* What pqc_kat compares for vector i each library made from the bytes of  *)
(* vector i alone (kat_seed and the two seedings, pqc_kat_harness.c:79-84, *)
(* :101-110): in any scheme, whatever failed before, whatever either       *)
(* library draws, and with libraries that do not draw alike too.           *)
THEOREM StageReplays == Spec => []Replayable
<1>1. StageInv => Replayable
  BY KatPromises DEF StageInv, Replayable
<1> QED BY <1>1, StageAlways, PTL

(* The summary lines of both programs are right about every iteration in   *)
(* which no call failed.                                                   *)
THEOREM StageSummary == Spec => []SummaryUnlessFailed
<1>1. StageInv => SummaryUnlessFailed
  BY DiffPromises, KatPromises DEF StageInv, SummaryUnlessFailed
<1> QED BY <1>1, StageAlways, PTL
=============================================================================
