-------------------------- MODULE ComputeCliProofs --------------------------
(***************************************************************************)
(* Theorems about ComputeCli, for any choice of the six programs.          *)
(*                                                                         *)
(* A function of a CLI is a table, so the argument has two halves.  The    *)
(* first is about the tables alone.  An outline of a function says, before *)
(* each of its calls, which objects are initialised, which may be and      *)
(* which belong to another; WellMade asks that every call finds what it    *)
(* needs and that, wherever the function is left, the releases it then     *)
(* makes are those the outline owes.  Every function of every program is   *)
(* shown to be well made, with its outline.  The second half is about the  *)
(* steps: the objects follow the outline, the releases under way are owed, *)
(* and what is printed is of this request (CliInv).                        *)
(***************************************************************************)
EXTENDS ComputeCli, SequenceTheorems, TLAPS

(* What a function may hold besides the request's blob.                    *)
Objects == (Resources \cup Settings) \ {"blob"}
Held    == Resources \ {"blob"}

StepRec == [do : {"call", "void", "check", "give", "verify"},
            takes : SUBSET Objects, needs : SUBSET Objects, writes : SUBSET Parts,
            orelse : {"next", "return", "tail"}, undo : Seq(Held)]

(* The outline of a function says at each place which objects are          *)
(* initialised for sure, which may be, and which belong to another.        *)
Outline == [sure : SUBSET Objects, maybe : SUBSET Objects, gone : SUBSET Objects]
At(sure, maybe, gone) == [sure |-> sure, maybe |-> maybe, gone |-> gone]
All(sure) == At(sure, sure, {})

Elems(r)   == {r[i] : i \in 1 .. Len(r)}
OneEach(r) == \A i, j \in 1 .. Len(r) : r[i] = r[j] => i = j

(* A list of releases that frees everything once where A holds.            *)
Orderly(r, A) ==
  /\ r \in Seq(Held) /\ OneEach(r)
  /\ A.maybe \cap Held \subseteq Elems(r)
  /\ Pointers \/ Unwinds \/ Elems(r) \subseteq A.sure
  /\ A.gone # {} =>
       /\ Pointers /\ Owner \in A.sure /\ A.gone \subseteq Held \ {Owner}
       /\ \A i, j \in 1 .. Len(r) : r[i] = Owner /\ i < j => r[j] \notin A.gone

MayGoOn(s) == s.do = "call" /\ s.orelse = "next"

(* Step s leads from A to B.                                               *)
Passes(s, A, B) ==
  /\ s.do \in {"call", "void"} =>
       /\ s.needs \subseteq A.sure /\ s.takes \cap A.gone = {}
       /\ B.maybe = A.maybe \cup s.takes /\ B.gone = A.gone
       /\ IF MayGoOn(s)
          THEN /\ B.sure = A.sure /\ s.writes = {}
               /\ s.takes # {} /\ s.takes \cap A.maybe = {}
          ELSE B.sure = A.sure \cup s.takes /\ s.takes \cap A.maybe \subseteq A.sure
  /\ s.do = "check" => B = At(A.sure \cup s.needs, A.maybe, A.gone) /\ s.writes = {}
  /\ s.do = "give" =>
       /\ s.needs = {} /\ s.writes = {} /\ s.takes \subseteq A.sure /\ A.gone = {}
       /\ B = At(A.sure \ s.takes, A.maybe \ s.takes, s.takes)
  /\ s.do = "verify" => s.needs \subseteq A.sure /\ s.writes = {} /\ B = A /\ A.sure = A.maybe

(* Where a step that failed leaves the function, nothing stays behind.     *)
LeavesWell(s, f, A) ==
  /\ s.do = "call" /\ s.orelse # "next" =>
       Orderly(IF s.orelse = "return" /\ ~ Unwinds THEN s.undo ELSE f.tail, A)
  /\ s.do = "check" => Orderly(f.tail, A)

OutlineOf(L, f) ==
  /\ L \in [1 .. Len(f.steps) + 1 -> Outline]
  /\ L[1] = All({})
  /\ \A k \in 1 .. Len(f.steps) :
       Passes(f.steps[k], L[k], L[k + 1]) /\ LeavesWell(f.steps[k], f, L[k])
  /\ Orderly(f.tail, L[Len(f.steps) + 1])

CoversOf(o) == IF o \in AeadOps THEN Parts ELSE {"body"}

(* What an operation asks of its function.                                 *)
Serves(f, o) ==
  /\ o \notin VerifyOps =>
       /\ \A k \in 1 .. Len(f.steps) : ~ MayGoOn(f.steps[k])
       /\ CoversOf(o) \subseteq UNION {f.steps[k].writes : k \in 1 .. Len(f.steps)}
  /\ \A k \in 1 .. Len(f.steps) : f.steps[k].do = "verify" => k = Len(f.steps)

WellMade(f, o) ==
  /\ f.steps \in Seq(StepRec)
  /\ \E L : OutlineOf(L, f)
  /\ Serves(f, o)

-----------------------------------------------------------------------------
(* Each kind of call, and what it makes of an outline.                     *)
LEMMA SomeObjects ==
  /\ {"priv", "peer", "rng", "key", "rsa", "n", "e", "pt", "ctx"} \subseteq Held
  /\ {"stack", "pub", "blinding"} \subseteq Objects /\ Held \subseteq Objects
  /\ {"stack", "pub", "blinding"} \cap Held = {}
BY DEF Held, Objects, Resources, Settings

LEMMA Outlines ==
  ASSUME NEW S \in SUBSET Objects, NEW M \in SUBSET Objects, NEW G \in SUBSET Objects
  PROVE  At(S, M, G) \in Outline /\ All(S) \in Outline
BY DEF At, All, Outline

LEMMA Acquired ==
  ASSUME NEW o \in Held, NEW undo \in Seq(Held), NEW S, NEW T, T = S \cup {o}
  PROVE  /\ AcquireUndo(o, undo) \in StepRec
         /\ Passes(AcquireUndo(o, undo), All(S), All(T))
BY SomeObjects DEF StepRec, AcquireUndo, Step, Passes, MayGoOn, All, At

LEMMA Called ==
  ASSUME NEW needs \in SUBSET Objects, NEW parts \in SUBSET Parts,
         NEW takes \in SUBSET Objects, NEW S, needs \subseteq S, NEW T, T = S \cup takes,
         NEW do \in {"call", "void"}
  PROVE  /\ Step(do, takes, needs, parts, "tail", <<>>) \in StepRec
         /\ Passes(Step(do, takes, needs, parts, "tail", <<>>), All(S), All(T))
BY SomeObjects DEF StepRec, Step, Passes, MayGoOn, All, At

LEMMA Acquires ==
  ASSUME NEW o \in Held, NEW S, NEW T, T = S \cup {o}
  PROVE  Acquire(o) \in StepRec /\ Passes(Acquire(o), All(S), All(T))
<1>1. Acquire(o) = AcquireUndo(o, <<>>) /\ <<>> \in Seq(Held)
  BY DEF Acquire, AcquireUndo
<1> QED BY <1>1, Acquired

(* A step that fails to the releases at the end, or cannot fail.           *)
LEMMA PlainCalls ==
  ASSUME NEW needs \in SUBSET Objects, NEW parts \in SUBSET Parts, NEW S, needs \subseteq S
  PROVE  /\ Call(needs) \in StepRec /\ Passes(Call(needs), All(S), All(S))
         /\ Writes(needs, parts) \in StepRec /\ Passes(Writes(needs, parts), All(S), All(S))
         /\ Verifies(needs) \in StepRec /\ Passes(Verifies(needs), All(S), All(S))
<1>1. {} \in SUBSET Objects /\ {} \in SUBSET Parts /\ S = S \cup {}
  OBVIOUS
<1>2. Call(needs) \in StepRec /\ Passes(Call(needs), All(S), All(S))
  BY <1>1, Called, Zenon DEF Call
<1>3. Writes(needs, parts) \in StepRec /\ Passes(Writes(needs, parts), All(S), All(S))
  BY <1>1, Called, Zenon DEF Writes
<1>4. Verifies(needs) \in StepRec /\ Passes(Verifies(needs), All(S), All(S))
  BY DEF StepRec, Verifies, Step, Passes, MayGoOn, All, At
<1> QED BY <1>2, <1>3, <1>4

LEMMA FreeCalls ==
  ASSUME NEW parts \in SUBSET Parts, NEW S
  PROVE  First(parts) \in StepRec /\ Passes(First(parts), All(S), All(S))
BY DEF StepRec, First, Step, Passes, MayGoOn, All, At

LEMMA VoidCalls ==
  ASSUME NEW needs \in SUBSET Objects, NEW parts \in SUBSET Parts, NEW S, needs \subseteq S
  PROVE  Void(needs, parts) \in StepRec /\ Passes(Void(needs, parts), All(S), All(S))
BY DEF StepRec, Void, Step, Passes, MayGoOn, All, At

LEMMA SetCalls ==
  ASSUME NEW o \in Objects, NEW needs \in SUBSET Objects, NEW S, needs \subseteq S,
         NEW T, T = S \cup {o}
  PROVE  /\ Sets(o, needs) \in StepRec /\ Passes(Sets(o, needs), All(S), All(T))
         /\ Initialises(o) \in StepRec /\ Passes(Initialises(o), All(S), All(T))
BY DEF StepRec, Sets, Initialises, Step, Passes, MayGoOn, All, At

(* RSA and EC keys: allocations whose status is looked at later.           *)
LEMMA LateCalls ==
  ASSUME NEW o \in Held, NEW S, NEW M, o \notin M, NEW N, N = M \cup {o}
  PROVE  Allocate(o) \in StepRec /\ Passes(Allocate(o), At(S, M, {}), At(S, N, {}))
BY SomeObjects DEF StepRec, Allocate, Step, Passes, MayGoOn, All, At

LEMMA Checked ==
  ASSUME NEW objs \in SUBSET Objects, NEW S, NEW M, NEW T, T = S \cup objs
  PROVE  Check(objs) \in StepRec /\ Passes(Check(objs), At(S, M, {}), At(T, M, {}))
BY DEF StepRec, Check, Step, Passes, MayGoOn, All, At

LEMMA GivenAway ==
  ASSUME NEW objs \in SUBSET Objects, NEW S, objs \subseteq S
  PROVE  /\ Gives(objs) \in StepRec
         /\ Passes(Gives(objs), All(S), At(S \ objs, S \ objs, objs))
BY DEF StepRec, Gives, Step, Passes, MayGoOn, All, At

(* Releases of everything that may be held.                                *)
LEMMA NothingHeld ==
  ASSUME NEW A \in Outline, A.maybe \cap Held = {}, A.gone = {} PROVE Orderly(<<>>, A)
BY DEF Orderly, OneEach, Elems, Outline

LEMMA OneHeld ==
  ASSUME NEW a \in Held, NEW A \in Outline, A.maybe \cap Held \subseteq {a}, A.gone = {},
         Pointers \/ Unwinds \/ a \in A.sure
  PROVE  Orderly(<<a>>, A)
<1> DEFINE r == <<a>>
<1>1. r \in Seq(Held) /\ Len(r) = 1 /\ r[1] = a
  OBVIOUS
<1> HIDE DEF r
<1>2. Elems(r) = {a} /\ OneEach(r)
  BY <1>1 DEF Elems, OneEach
<1> QED BY <1>1, <1>2, Zenon DEF Orderly, r

LEMMA TwoHeld ==
  ASSUME NEW a \in Held, NEW b \in Held, a # b,
         NEW A \in Outline, A.maybe \cap Held \subseteq {a, b}, A.gone = {},
         Pointers \/ Unwinds \/ {a, b} \subseteq A.sure
  PROVE  Orderly(<<a, b>>, A)
<1> DEFINE r == <<a, b>>
<1>1. r \in Seq(Held) /\ Len(r) = 2 /\ r[1] = a /\ r[2] = b
  OBVIOUS
<1> HIDE DEF r
<1>2. Elems(r) = {a, b} /\ OneEach(r)
  BY <1>1 DEF Elems, OneEach
<1> QED BY <1>1, <1>2, Zenon DEF Orderly, r

LEMMA ThreeHeld ==
  ASSUME NEW a \in Held, NEW b \in Held, NEW c \in Held, a # b, a # c, b # c,
         NEW A \in Outline, A.maybe \cap Held \subseteq {a, b, c}, A.gone = {},
         Pointers \/ Unwinds \/ {a, b, c} \subseteq A.sure
  PROVE  Orderly(<<a, b, c>>, A)
<1> DEFINE r == <<a, b, c>>
<1>1. r \in Seq(Held) /\ Len(r) = 3 /\ r[1] = a /\ r[2] = b /\ r[3] = c
  OBVIOUS
<1> HIDE DEF r
<1>2. Elems(r) = {a, b, c} /\ OneEach(r)
  BY <1>1 DEF Elems, OneEach
<1> QED BY <1>1, <1>2, Zenon DEF Orderly, r

LEMMA AllOf == \A S : All(S).sure = S /\ All(S).maybe = S /\ All(S).gone = {}
BY DEF All, At

-----------------------------------------------------------------------------
(* The functions that hold one context, and those that hold nothing.       *)

(* A step that uses nothing but S and fails to the end of its function.    *)
Plain(s, S) ==
  /\ s \in StepRec /\ s.takes = {} /\ s.needs \subseteq S
  /\ s.do \in {"call", "void"} /\ (s.do = "call" => s.orelse = "tail")

LEMMA PlainSteps ==
  ASSUME NEW needs \in SUBSET Objects, NEW parts \in SUBSET Parts
  PROVE  /\ Plain(Call(needs), needs) /\ Plain(Writes(needs, parts), needs)
         /\ Plain(Void(needs, parts), needs)
         /\ Call(needs).writes = {} /\ Writes(needs, parts).writes = parts
         /\ Void(needs, parts).writes = parts
BY DEF Plain, StepRec, Call, Writes, Void, Step

LEMMA PlainPasses ==
  ASSUME NEW S, NEW s, Plain(s, S), NEW f, Orderly(f.tail, All(S))
  PROVE  /\ Passes(s, All(S), All(S)) /\ LeavesWell(s, f, All(S))
         /\ ~ MayGoOn(s) /\ s.do # "verify"
<1>1. /\ s.takes = {} /\ s.needs \subseteq S /\ s.do \in {"call", "void"}
      /\ s.do # "check" /\ s.do # "give" /\ s.do # "verify"
      /\ s.do = "call" => s.orelse = "tail"
  BY DEF Plain
<1>2. ~ MayGoOn(s)
  BY <1>1 DEF MayGoOn
<1>3. All(S).sure = S \cup s.takes /\ All(S).maybe = All(S).maybe \cup s.takes
      /\ s.takes \cap All(S).gone = {} /\ s.takes \cap All(S).maybe \subseteq All(S).sure
  BY <1>1, AllOf
<1>4. Passes(s, All(S), All(S))
  BY <1>1, <1>2, <1>3, AllOf, Zenon DEF Passes
<1>5. LeavesWell(s, f, All(S))
  BY <1>1, Zenon DEF LeavesWell
<1> QED BY <1>1, <1>2, <1>4, <1>5

(* One context, made first and released at the end.                        *)
LEMMA ContextMade ==
  ASSUME NEW calls \in Seq(StepRec),
         \A k \in 1 .. Len(calls) : Plain(calls[k], {"ctx"}), NEW o \in Ops,
         CoversOf(o) \subseteq UNION {calls[k].writes : k \in 1 .. Len(calls)}
  PROVE  WellMade(WithContext(calls), o)
<1> DEFINE f == WithContext(calls)
           s == f.steps
           a == Acquire("ctx")
           len == Len(calls)
           L == [k \in 1 .. len + 2 |-> IF k = 1 THEN All({}) ELSE All({"ctx"})]
<1>1. a \in StepRec /\ Passes(a, All({}), All({"ctx"})) /\ a.orelse = "return" /\ a.undo = <<>>
      /\ a.do = "call"
  <2>1. a.orelse = "return" /\ a.undo = <<>> /\ a.do = "call"
    BY DEF Acquire, Step
  <2> QED BY <2>1, SomeObjects, Acquires
<1>2. s = <<a>> \o calls /\ f.tail = <<"ctx">>
  BY DEF WithContext, Function
<1> HIDE DEF f, a
<1>3. len \in Nat /\ <<a>> \in Seq(StepRec) /\ Len(<<a>>) = 1 /\ <<a>>[1] = a
  BY <1>1
<1>4. /\ s \in Seq(StepRec) /\ Len(s) = len + 1 /\ s[1] = a
      /\ \A k \in 1 .. len : s[k + 1] = calls[k]
  BY <1>2, <1>3, ConcatProperties
<1> HIDE DEF s
<1>5. \A k \in 1 .. len + 1 : k = 1 \/ (k - 1 \in 1 .. len /\ (k - 1) + 1 = k)
  BY <1>3
<1>6. /\ All({}) \in Outline /\ All({"ctx"}) \in Outline
      /\ Orderly(<<>>, All({})) /\ Orderly(f.tail, All({"ctx"}))
  <2>1. All({}) \in Outline /\ All({"ctx"}) \in Outline
    BY Outlines, SomeObjects
  <2>2. Orderly(<<>>, All({}))
    BY <2>1, AllOf, NothingHeld
  <2>3. Orderly(<<"ctx">>, All({"ctx"}))
    BY <2>1, AllOf, OneHeld, SomeObjects
  <2> QED BY <1>2, <2>1, <2>2, <2>3
<1>7. \A k \in 1 .. len : /\ Passes(calls[k], All({"ctx"}), All({"ctx"}))
                        /\ LeavesWell(calls[k], f, All({"ctx"}))
                        /\ ~ MayGoOn(calls[k]) /\ calls[k].do # "verify"
  BY <1>6, PlainPasses
<1>8. /\ LeavesWell(a, f, All({})) /\ ~ MayGoOn(a) /\ a.do # "verify"
  <2>1. ASSUME Unwinds PROVE Orderly(f.tail, All({}))
    <3>1. All({}).maybe \cap Held \subseteq {"ctx"} /\ All({}).gone = {}
      BY AllOf
    <3> QED BY <1>2, <1>6, <2>1, <3>1, OneHeld, SomeObjects
  <2> QED BY <1>1, <1>6, <2>1 DEF LeavesWell, MayGoOn
<1>9. /\ L \in [1 .. Len(s) + 1 -> Outline] /\ L[1] = All({}) /\ L[Len(s) + 1] = All({"ctx"})
      /\ \A k \in 1 .. len : L[k + 1] = All({"ctx"}) /\ L[k + 2] = All({"ctx"})
  BY <1>3, <1>4, <1>6
<1> HIDE DEF L
<1>10. \A k \in 1 .. Len(s) : Passes(s[k], L[k], L[k + 1]) /\ LeavesWell(s[k], f, L[k])
  <2> SUFFICES ASSUME NEW k \in 1 .. len + 1
               PROVE  Passes(s[k], L[k], L[k + 1]) /\ LeavesWell(s[k], f, L[k])
    BY <1>4
  <2>1. CASE k = 1
    <3>1. L[2] = All({"ctx"})
      <4>1. len = 0 \/ 1 \in 1 .. len
        BY <1>3
      <4> QED BY <1>3, <1>4, <1>9, <4>1
    <3> QED BY <1>1, <1>4, <1>8, <1>9, <2>1, <3>1
  <2>2. CASE k # 1
    <3>1. PICK j \in 1 .. len : k = j + 1 /\ k + 1 = j + 2
      BY <1>3, <2>2
    <3> QED BY <1>4, <1>7, <1>9, <3>1
  <2> QED BY <2>1, <2>2
<1>11. OutlineOf(L, f)
  BY <1>6, <1>9, <1>10, Zenon DEF OutlineOf, s
<1>12. Serves(f, o)
  <2>1. \A k \in 1 .. Len(s) : ~ MayGoOn(s[k]) /\ s[k].do # "verify"
    <3> SUFFICES ASSUME NEW k \in 1 .. len + 1 PROVE ~ MayGoOn(s[k]) /\ s[k].do # "verify"
      BY <1>4
    <3>1. CASE k = 1
      BY <1>4, <1>8, <3>1
    <3>2. CASE k # 1
      <4>1. s[k] = calls[k - 1] /\ k - 1 \in 1 .. len
        BY <1>4, <1>5, <3>2
      <4> QED BY <1>7, <4>1
    <3> QED BY <3>1, <3>2
  <2>2. UNION {calls[k].writes : k \in 1 .. len} \subseteq UNION {s[k].writes : k \in 1 .. Len(s)}
    <3>1. \A k \in 1 .. len : k + 1 \in 1 .. Len(s) /\ s[k + 1] = calls[k]
      BY <1>3, <1>4
    <3> QED BY <3>1
  <2> QED BY <2>1, <2>2 DEF Serves, s
<1> QED BY <1>4, <1>11, <1>12 DEF WellMade, s, f

(* No object but what is on the stack, and nothing to release.             *)
LEMMA BareMade ==
  ASSUME NEW s \in Seq(StepRec), NEW S \in SUBSET Objects, S \cap Held = {},
         NEW L \in [1 .. Len(s) + 1 -> {All({}), All(S)}], L[1] = All({}),
         \A k \in 1 .. Len(s) :
           /\ Passes(s[k], L[k], L[k + 1]) /\ s[k].do \in {"call", "void"}
           /\ s[k].do = "call" =>
                s[k].orelse = "tail" \/ (s[k].orelse = "return" /\ s[k].undo = <<>>),
         NEW o \in Ops, CoversOf(o) \subseteq UNION {s[k].writes : k \in 1 .. Len(s)}
  PROVE  WellMade(Function(s, <<>>), o)
<1> DEFINE f == Function(s, <<>>)
<1>1. f.steps = s /\ f.tail = <<>>
  BY DEF Function
<1> HIDE DEF f
<1>2. /\ All({}) \in Outline /\ All(S) \in Outline
      /\ Orderly(<<>>, All({})) /\ Orderly(<<>>, All(S))
  <2>1. All({}) \in Outline /\ All(S) \in Outline
    BY Outlines
  <2> QED BY <2>1, AllOf, NothingHeld
<1>3. Len(s) + 1 \in 1 .. Len(s) + 1 /\ \A k \in 1 .. Len(s) : k \in 1 .. Len(s) + 1
  OBVIOUS
<1>4. /\ L \in [1 .. Len(s) + 1 -> Outline]
      /\ \A k \in 1 .. Len(s) + 1 : Orderly(<<>>, L[k])
  BY <1>2
<1>5. \A k \in 1 .. Len(s) : LeavesWell(s[k], f, L[k])
  BY <1>1, <1>3, <1>4 DEF LeavesWell
<1>6. OutlineOf(L, f)
  BY <1>1, <1>3, <1>4, <1>5 DEF OutlineOf
<1>7. Serves(f, o)
  BY <1>1 DEF Serves, MayGoOn
<1> QED BY <1>1, <1>6, <1>7 DEF WellMade, f

(* A list of calls with every one plain.                                   *)
LEMMA TwoPlain ==
  ASSUME NEW a, NEW b, Plain(a, {"ctx"}), Plain(b, {"ctx"})
  PROVE  /\ <<a, b>> \in Seq(StepRec) /\ Len(<<a, b>>) = 2
         /\ \A k \in 1 .. 2 : Plain(<<a, b>>[k], {"ctx"})
         /\ UNION {<<a, b>>[k].writes : k \in 1 .. 2} = a.writes \cup b.writes
<1>1. a \in StepRec /\ b \in StepRec
  BY DEF Plain
<1> QED BY <1>1

LEMMA ThreePlain ==
  ASSUME NEW a, NEW b, NEW c, Plain(a, {"ctx"}), Plain(b, {"ctx"}), Plain(c, {"ctx"})
  PROVE  /\ <<a, b, c>> \in Seq(StepRec) /\ Len(<<a, b, c>>) = 3
         /\ \A k \in 1 .. 3 : Plain(<<a, b, c>>[k], {"ctx"})
         /\ UNION {<<a, b, c>>[k].writes : k \in 1 .. 3} = a.writes \cup b.writes \cup c.writes
<1>1. a \in StepRec /\ b \in StepRec /\ c \in StepRec
  BY DEF Plain
<1> QED BY <1>1

(* What the calls below are.                                               *)
LEMMA ContextCalls ==
  /\ {"ctx"} \in SUBSET Objects /\ {"ctx"} \subseteq Held
  /\ \A parts \in SUBSET Parts :
       /\ Plain(Writes({"ctx"}, parts), {"ctx"}) /\ Writes({"ctx"}, parts).writes = parts
       /\ Plain(Void({"ctx"}, parts), {"ctx"}) /\ Void({"ctx"}, parts).writes = parts
       /\ Plain(Void({}, parts), {"ctx"}) /\ Void({}, parts).writes = parts
  /\ Plain(Call({"ctx"}), {"ctx"}) /\ Call({"ctx"}).writes = {}
  /\ {"body"} \in SUBSET Parts /\ {"tag"} \in SUBSET Parts /\ Parts \in SUBSET Parts
  /\ {} \in SUBSET Parts /\ Parts = {"body", "tag"}
<1>1. {"ctx"} \in SUBSET Objects /\ {"ctx"} \subseteq Held
  BY SomeObjects
<1>2. /\ {"body"} \in SUBSET Parts /\ {"tag"} \in SUBSET Parts /\ Parts \in SUBSET Parts
      /\ {} \in SUBSET Parts /\ Parts = {"body", "tag"}
  BY DEF Parts
<1>3. ASSUME NEW parts \in SUBSET Parts
      PROVE  /\ Plain(Writes({"ctx"}, parts), {"ctx"}) /\ Writes({"ctx"}, parts).writes = parts
             /\ Plain(Void({"ctx"}, parts), {"ctx"}) /\ Void({"ctx"}, parts).writes = parts
  BY <1>1, PlainSteps
<1>4. Plain(Call({"ctx"}), {"ctx"}) /\ Call({"ctx"}).writes = {}
  BY <1>1, <1>2, PlainSteps
<1>5. ASSUME NEW parts \in SUBSET Parts
      PROVE  Plain(Void({}, parts), {"ctx"}) /\ Void({}, parts).writes = parts
  <2>1. {} \in SUBSET Objects
    OBVIOUS
  <2>2. Plain(Void({}, parts), {}) /\ Void({}, parts).writes = parts
    BY <2>1, PlainSteps
  <2> QED BY <2>2 DEF Plain
<1> QED BY <1>1, <1>2, <1>3, <1>4, <1>5, Zenon

LEMMA CoversAre ==
  ASSUME NEW o \in Ops
  PROVE  /\ o \in AeadOps => CoversOf(o) = Parts
         /\ o \notin AeadOps => CoversOf(o) = {"body"}
BY Zenon DEF CoversOf

(* The functions that hold one context.                                    *)
LEMMA TwoCalls ==
  ASSUME NEW a, NEW b, Plain(a, {"ctx"}), Plain(b, {"ctx"}), NEW o \in Ops,
         CoversOf(o) \subseteq a.writes \cup b.writes
  PROVE  WellMade(WithContext(<<a, b>>), o)
<1> DEFINE calls == <<a, b>>
<1>1. /\ calls \in Seq(StepRec) /\ Len(calls) = 2
      /\ \A k \in 1 .. 2 : Plain(calls[k], {"ctx"})
      /\ UNION {calls[k].writes : k \in 1 .. 2} = a.writes \cup b.writes
  BY TwoPlain, Zenon
<1> HIDE DEF calls
<1>2. CoversOf(o) \subseteq UNION {calls[k].writes : k \in 1 .. Len(calls)}
  BY <1>1, Zenon
<1> QED BY <1>1, <1>2, ContextMade, Zenon DEF calls

LEMMA ThreeCalls ==
  ASSUME NEW a, NEW b, NEW c, Plain(a, {"ctx"}), Plain(b, {"ctx"}), Plain(c, {"ctx"}),
         NEW o \in Ops, CoversOf(o) \subseteq a.writes \cup b.writes \cup c.writes
  PROVE  WellMade(WithContext(<<a, b, c>>), o)
<1> DEFINE calls == <<a, b, c>>
<1>1. /\ calls \in Seq(StepRec) /\ Len(calls) = 3
      /\ \A k \in 1 .. 3 : Plain(calls[k], {"ctx"})
      /\ UNION {calls[k].writes : k \in 1 .. 3} = a.writes \cup b.writes \cup c.writes
  BY ThreePlain
<1> HIDE DEF calls
<1>2. CoversOf(o) \subseteq UNION {calls[k].writes : k \in 1 .. Len(calls)}
  BY <1>1, Zenon
<1> QED BY <1>1, <1>2, ContextMade, Zenon DEF calls

LEMMA WolfContexts ==
  /\ \A o \in {7, 8} : WellMade(WolfShake, o)
  /\ WellMade(WolfHmac, 2) /\ WellMade(WolfAesGcm, 4)
<1>1. ASSUME NEW o \in {7, 8} PROVE WellMade(WolfShake, o)
  <2>1. o \in Ops /\ o \notin AeadOps
    BY DEF Ops, AeadOps
  <2> QED BY <2>1, CoversAre, ContextCalls, TwoCalls DEF WolfShake
<1>2. WellMade(WolfHmac, 2)
  <2>1. 2 \in Ops /\ 2 \notin AeadOps
    BY DEF Ops, AeadOps
  <2> QED BY <2>1, CoversAre, ContextCalls, ThreeCalls DEF WolfHmac
<1>3. WellMade(WolfAesGcm, 4)
  <2>1. 4 \in Ops /\ 4 \in AeadOps
    BY DEF Ops, AeadOps
  <2>2. CoversOf(4) \subseteq Call({"ctx"}).writes \cup Writes({"ctx"}, {"body"}).writes
                              \cup Void({}, {"tag"}).writes
    BY <2>1, CoversAre, ContextCalls
  <2> QED BY <2>1, <2>2, ContextCalls, ThreeCalls DEF WolfAesGcm
<1> QED BY <1>1, <1>2, <1>3

LEMMA OneBefore ==
  ASSUME NEW a, NEW b, NEW c, NEW d, NEW e
  PROVE  <<a>> \o <<b, c, d, e>> = <<a, b, c, d, e>>
<1> DEFINE S == {a, b, c, d, e}
           l == <<a>>
           r == <<b, c, d, e>>
           w == l \o r
           u == <<a, b, c, d, e>>
<1>1. l \in Seq(S) /\ r \in Seq(S) /\ Len(l) = 1 /\ Len(r) = 4 /\ u \in Seq(S) /\ Len(u) = 5
  OBVIOUS
<1>2. /\ w \in Seq(S) /\ Len(w) = Len(l) + Len(r)
      /\ \A i \in 1 .. Len(l) : w[i] = l[i]
      /\ \A i \in 1 .. Len(r) : w[Len(l) + i] = r[i]
  BY <1>1, ConcatProperties
<1> HIDE DEF w, S
<1>3. Len(w) = 5 /\ w[1] = l[1] /\ w[1 + 1] = r[1] /\ w[1 + 2] = r[2] /\ w[1 + 3] = r[3] /\ w[1 + 4] = r[4]
  BY <1>1, <1>2
<1>4. \A i \in 1 .. Len(w) : w[i] = u[i]
  BY <1>3
<1> QED BY <1>1, <1>2, <1>3, <1>4, SeqEqual DEF w

-----------------------------------------------------------------------------
(* The functions with more than a context, each with its outline.          *)

LEMMA WolfX25519Made ==
  ASSUME ~ Pointers, ~ Unwinds
  PROVE  WellMade(WolfX25519, 12)
<1> DEFINE f == WolfX25519
           s1 == Acquire("priv")
           s2 == AcquireUndo("peer", <<"priv">>)
           s3 == AcquireUndo("rng", <<"peer", "priv">>)
           s4 == Call({"priv"})
           s5 == Call({"peer"})
           s6 == Sets("blinding", {"priv", "rng"})
           s7 == Writes({"priv", "peer", "blinding"}, {"body"})
           A0 == All({})
           A1 == All({"priv"})
           A2 == All({"priv", "peer"})
           A3 == All({"priv", "peer", "rng"})
           A4 == All({"priv", "peer", "rng", "blinding"})
           L == <<A0, A1, A2, A3, A3, A3, A4, A4>>
<1>1. f.steps = <<s1, s2, s3, s4, s5, s6, s7>> /\ f.tail = <<"rng", "peer", "priv">>
  BY DEF WolfX25519, Function
<1>2. /\ {"peer", "priv", "rng"} \subseteq Held /\ {"blinding", "peer", "priv", "rng"} \subseteq Objects /\ Held \subseteq Objects
      /\ "blinding" \in Objects /\ "peer" \in Held /\ "priv" \in Held /\ "rng" \in Held
      /\ {"body"} \in SUBSET Parts /\ {} \in SUBSET Parts /\ {} \in SUBSET Objects
      /\ <<"priv">> \in Seq(Held)
      /\ <<"peer", "priv">> \in Seq(Held)
  BY SomeObjects DEF Parts
<1>3. s1 \in StepRec /\ Passes(s1, A0, A1)
  BY <1>2, Acquires
<1>4. s2 \in StepRec /\ Passes(s2, A1, A2)
  BY <1>2, Acquired
<1>5. s3 \in StepRec /\ Passes(s3, A2, A3)
  BY <1>2, Acquired
<1>6. s4 \in StepRec /\ Passes(s4, A3, A3)
  BY <1>2, PlainCalls
<1>7. s5 \in StepRec /\ Passes(s5, A3, A3)
  BY <1>2, PlainCalls
<1>8. s6 \in StepRec /\ Passes(s6, A3, A4)
  BY <1>2, SetCalls
<1>9. s7 \in StepRec /\ Passes(s7, A4, A4)
  BY <1>2, PlainCalls
<1>10. /\ A0 \in Outline /\ A1 \in Outline /\ A2 \in Outline /\ A3 \in Outline /\ A4 \in Outline
  BY <1>2, Outlines
<1>11. Orderly(<<>>, A0)
  <2>1. A0.maybe \cap Held \subseteq {} /\ A0.gone = {} /\ A0.sure = {}
    BY SomeObjects DEF All, At
  <2> QED BY <1>2, <1>10, <2>1, NothingHeld
<1>12. Orderly(<<"priv">>, A1)
  <2>1. A1.maybe \cap Held \subseteq {"priv"} /\ A1.gone = {} /\ A1.sure = {"priv"}
    BY SomeObjects DEF All, At
  <2> QED BY <1>2, <1>10, <2>1, OneHeld
<1>13. Orderly(<<"peer", "priv">>, A2)
  <2>1. A2.maybe \cap Held \subseteq {"peer", "priv"} /\ A2.gone = {} /\ A2.sure = {"priv", "peer"}
    BY SomeObjects DEF All, At
  <2> QED BY <1>2, <1>10, <2>1, TwoHeld
<1>14. Orderly(<<"rng", "peer", "priv">>, A3)
  <2>1. A3.maybe \cap Held \subseteq {"rng", "peer", "priv"} /\ A3.gone = {} /\ A3.sure = {"priv", "peer", "rng"}
    BY SomeObjects DEF All, At
  <2> QED BY <1>2, <1>10, <2>1, ThreeHeld
<1>15. Orderly(<<"rng", "peer", "priv">>, A4)
  <2>1. A4.maybe \cap Held \subseteq {"rng", "peer", "priv"} /\ A4.gone = {} /\ A4.sure = {"priv", "peer", "rng", "blinding"}
    BY SomeObjects DEF All, At
  <2> QED BY <1>2, <1>10, <2>1, ThreeHeld
<1> HIDE DEF f, A0, A1, A2, A3, A4
<1>16. /\ LeavesWell(s1, f, A0)
       /\ LeavesWell(s2, f, A1)
       /\ LeavesWell(s3, f, A2)
       /\ LeavesWell(s4, f, A3)
       /\ LeavesWell(s5, f, A3)
       /\ LeavesWell(s6, f, A3)
       /\ LeavesWell(s7, f, A4)
  BY <1>1, <1>11, <1>12, <1>13, <1>14, <1>15 DEF LeavesWell, Step, Acquire, AcquireUndo, Call, Sets, Writes
<1>17. Serves(f, 12)
  BY <1>1 DEF Serves, MayGoOn, CoversOf, AeadOps, VerifyOps, Step, Acquire, AcquireUndo, Call, Sets, Writes
<1> HIDE DEF s1, s2, s3, s4, s5, s6, s7
<1>18. f.steps \in Seq(StepRec) /\ Len(f.steps) = 7
  BY <1>1, <1>3, <1>4, <1>5, <1>6, <1>7, <1>8, <1>9
<1>19. OutlineOf(L, f)
  <2>1. L \in [1 .. 8 -> Outline] /\ L[1] = All({})
    BY <1>10 DEF A0
  <2>2. \A k \in 1 .. 7 : Passes(f.steps[k], L[k], L[k + 1])
    BY <1>1, <1>3, <1>4, <1>5, <1>6, <1>7, <1>8, <1>9
  <2>3. \A k \in 1 .. 7 : LeavesWell(f.steps[k], f, L[k])
    BY <1>1, <1>16
  <2>4. Orderly(f.tail, L[8])
    BY <1>1, <1>15
  <2> QED BY <1>18, <2>1, <2>2, <2>3, <2>4 DEF OutlineOf
<1> QED BY <1>17, <1>18, <1>19, Zenon DEF WellMade, f

LEMMA WolfEd25519Made ==
  ASSUME ~ Pointers, ~ Unwinds
  PROVE  WellMade(WolfEd25519, 11)
<1> DEFINE f == WolfEd25519
           s1 == Acquire("ctx")
           s2 == Call({"ctx"})
           s3 == Call({"ctx"})
           s4 == Sets("pub", {"ctx"})
           s5 == Writes({"ctx", "pub"}, {"body"})
           A0 == All({})
           A1 == All({"ctx"})
           A2 == All({"ctx", "pub"})
           L == <<A0, A1, A1, A1, A2, A2>>
<1>1. f.steps = <<s1, s2, s3, s4, s5>> /\ f.tail = <<"ctx">>
  BY OneBefore, Zenon DEF WolfEd25519, Function, WithContext
<1>2. /\ {"ctx"} \subseteq Held /\ {"ctx", "pub"} \subseteq Objects /\ Held \subseteq Objects
      /\ "ctx" \in Held /\ "pub" \in Objects
      /\ {"body"} \in SUBSET Parts /\ {} \in SUBSET Parts /\ {} \in SUBSET Objects
  BY SomeObjects DEF Parts
<1>3. s1 \in StepRec /\ Passes(s1, A0, A1)
  BY <1>2, Acquires
<1>4. s2 \in StepRec /\ Passes(s2, A1, A1)
  BY <1>2, PlainCalls
<1>5. s3 \in StepRec /\ Passes(s3, A1, A1)
  BY <1>2, PlainCalls
<1>6. s4 \in StepRec /\ Passes(s4, A1, A2)
  BY <1>2, SetCalls
<1>7. s5 \in StepRec /\ Passes(s5, A2, A2)
  BY <1>2, PlainCalls
<1>8. /\ A0 \in Outline /\ A1 \in Outline /\ A2 \in Outline
  BY <1>2, Outlines
<1>9. Orderly(<<>>, A0)
  <2>1. A0.maybe \cap Held \subseteq {} /\ A0.gone = {} /\ A0.sure = {}
    BY SomeObjects DEF All, At
  <2> QED BY <1>2, <1>8, <2>1, NothingHeld
<1>10. Orderly(<<"ctx">>, A1)
  <2>1. A1.maybe \cap Held \subseteq {"ctx"} /\ A1.gone = {} /\ A1.sure = {"ctx"}
    BY SomeObjects DEF All, At
  <2> QED BY <1>2, <1>8, <2>1, OneHeld
<1>11. Orderly(<<"ctx">>, A2)
  <2>1. A2.maybe \cap Held \subseteq {"ctx"} /\ A2.gone = {} /\ A2.sure = {"ctx", "pub"}
    BY SomeObjects DEF All, At
  <2> QED BY <1>2, <1>8, <2>1, OneHeld
<1> HIDE DEF f, A0, A1, A2
<1>12. /\ LeavesWell(s1, f, A0)
       /\ LeavesWell(s2, f, A1)
       /\ LeavesWell(s3, f, A1)
       /\ LeavesWell(s4, f, A1)
       /\ LeavesWell(s5, f, A2)
  BY <1>1, <1>9, <1>10, <1>11 DEF LeavesWell, Step, Acquire, Call, Sets, Writes
<1>13. Serves(f, 11)
  BY <1>1 DEF Serves, MayGoOn, CoversOf, AeadOps, VerifyOps, Step, Acquire, Call, Sets, Writes
<1> HIDE DEF s1, s2, s3, s4, s5
<1>14. f.steps \in Seq(StepRec) /\ Len(f.steps) = 5
  BY <1>1, <1>3, <1>4, <1>5, <1>6, <1>7
<1>15. OutlineOf(L, f)
  <2>1. L \in [1 .. 6 -> Outline] /\ L[1] = All({})
    BY <1>8 DEF A0
  <2>2. \A k \in 1 .. 5 : Passes(f.steps[k], L[k], L[k + 1])
    BY <1>1, <1>3, <1>4, <1>5, <1>6, <1>7
  <2>3. \A k \in 1 .. 5 : LeavesWell(f.steps[k], f, L[k])
    BY <1>1, <1>12
  <2>4. Orderly(f.tail, L[6])
    BY <1>1, <1>11
  <2> QED BY <1>14, <2>1, <2>2, <2>3, <2>4 DEF OutlineOf
<1> QED BY <1>13, <1>14, <1>15, Zenon DEF WellMade, f

LEMMA WolfVerifyMade ==
  ASSUME ~ Pointers, ~ Unwinds, NEW o \in VerifyOps
  PROVE  WellMade(WolfVerify, o)
<1> DEFINE f == WolfVerify
           s1 == ParsePayload
           s2 == First({})
           s3 == Acquire("key")
           s4 == Call({"key"})
           s5 == Verifies({"key"})
           A0 == All({})
           A1 == All({"key"})
           L == <<A0, A0, A0, A1, A1, A1>>
<1>1. f.steps = <<s1, s2, s3, s4, s5>> /\ f.tail = <<"key">>
  BY DEF WolfVerify, Function
<1>2. /\ {"key"} \subseteq Held /\ {"key"} \subseteq Objects /\ Held \subseteq Objects
      /\ "key" \in Held
      /\ {"body"} \in SUBSET Parts /\ {} \in SUBSET Parts /\ {} \in SUBSET Objects
  BY SomeObjects DEF Parts
<1>3. s1 \in StepRec /\ Passes(s1, A0, A0)
  BY <1>2, FreeCalls DEF ParsePayload, All
<1>4. s2 \in StepRec /\ Passes(s2, A0, A0)
  BY <1>2, FreeCalls
<1>5. s3 \in StepRec /\ Passes(s3, A0, A1)
  BY <1>2, Acquires
<1>6. s4 \in StepRec /\ Passes(s4, A1, A1)
  BY <1>2, PlainCalls
<1>7. s5 \in StepRec /\ Passes(s5, A1, A1)
  BY <1>2, PlainCalls
<1>8. /\ A0 \in Outline /\ A1 \in Outline
  BY <1>2, Outlines
<1>9. Orderly(<<>>, A0)
  <2>1. A0.maybe \cap Held \subseteq {} /\ A0.gone = {} /\ A0.sure = {}
    BY SomeObjects DEF All, At
  <2> QED BY <1>2, <1>8, <2>1, NothingHeld
<1>10. Orderly(<<"key">>, A1)
  <2>1. A1.maybe \cap Held \subseteq {"key"} /\ A1.gone = {} /\ A1.sure = {"key"}
    BY SomeObjects DEF All, At
  <2> QED BY <1>2, <1>8, <2>1, OneHeld
<1> HIDE DEF f, A0, A1
<1>11. /\ LeavesWell(s1, f, A0)
       /\ LeavesWell(s2, f, A0)
       /\ LeavesWell(s3, f, A0)
       /\ LeavesWell(s4, f, A1)
       /\ LeavesWell(s5, f, A1)
  BY <1>1, <1>9, <1>10 DEF LeavesWell, Step, Acquire, Call, First, ParsePayload, Verifies
<1>12. Serves(f, o)
  BY <1>1 DEF Serves, MayGoOn, CoversOf, AeadOps, VerifyOps, Step, Acquire, Call, First, ParsePayload, Verifies
<1> HIDE DEF s1, s2, s3, s4, s5
<1>13. f.steps \in Seq(StepRec) /\ Len(f.steps) = 5
  BY <1>1, <1>3, <1>4, <1>5, <1>6, <1>7
<1>14. OutlineOf(L, f)
  <2>1. L \in [1 .. 6 -> Outline] /\ L[1] = All({})
    BY <1>8 DEF A0
  <2>2. \A k \in 1 .. 5 : Passes(f.steps[k], L[k], L[k + 1])
    BY <1>1, <1>3, <1>4, <1>5, <1>6, <1>7
  <2>3. \A k \in 1 .. 5 : LeavesWell(f.steps[k], f, L[k])
    BY <1>1, <1>11
  <2>4. Orderly(f.tail, L[6])
    BY <1>1, <1>10
  <2> QED BY <1>13, <2>1, <2>2, <2>3, <2>4 DEF OutlineOf
<1> QED BY <1>12, <1>13, <1>14, Zenon DEF WellMade, f

LEMMA BoringEcdsaMade ==
  ASSUME Pointers, ~ Unwinds
  PROVE  WellMade(BoringEcdsa, 13)
<1> DEFINE f == BoringEcdsa
           s1 == ParsePayload
           s2 == Void({}, {})
           s3 == Acquire("key")
           s4 == Allocate("pt")
           s5 == Check({"pt"})
           s6 == Call({"pt"})
           s7 == Call({"key", "pt"})
           s8 == Verifies({"key"})
           A0 == All({})
           A1 == All({"key"})
           A2 == At({"key"}, {"key", "pt"}, {})
           A3 == All({"key", "pt"})
           L == <<A0, A0, A0, A1, A2, A3, A3, A3, A3>>
<1>1. f.steps = <<s1, s2, s3, s4, s5, s6, s7, s8>> /\ f.tail = <<"pt", "key">>
  BY DEF BoringEcdsa, Function
<1>2. /\ {"key", "pt"} \subseteq Held /\ {"key", "pt"} \subseteq Objects /\ Held \subseteq Objects
      /\ "key" \in Held /\ "pt" \in Held
      /\ {"body"} \in SUBSET Parts /\ {} \in SUBSET Parts /\ {} \in SUBSET Objects
  BY SomeObjects DEF Parts
<1>3. s1 \in StepRec /\ Passes(s1, A0, A0)
  BY <1>2, FreeCalls DEF ParsePayload, All
<1>4. s2 \in StepRec /\ Passes(s2, A0, A0)
  BY <1>2, VoidCalls
<1>5. s3 \in StepRec /\ Passes(s3, A0, A1)
  BY <1>2, Acquires
<1>6. s4 \in StepRec /\ Passes(s4, A1, A2)
  BY <1>2, LateCalls DEF All
<1>7. s5 \in StepRec /\ Passes(s5, A2, A3)
  BY <1>2, Checked DEF All
<1>8. s6 \in StepRec /\ Passes(s6, A3, A3)
  BY <1>2, PlainCalls
<1>9. s7 \in StepRec /\ Passes(s7, A3, A3)
  BY <1>2, PlainCalls
<1>10. s8 \in StepRec /\ Passes(s8, A3, A3)
  BY <1>2, PlainCalls
<1>11. /\ A0 \in Outline /\ A1 \in Outline /\ A2 \in Outline /\ A3 \in Outline
  BY <1>2, Outlines
<1>12. Orderly(<<>>, A0)
  <2>1. A0.maybe \cap Held \subseteq {} /\ A0.gone = {} /\ A0.sure = {}
    BY SomeObjects DEF All, At
  <2> QED BY <1>2, <1>11, <2>1, NothingHeld
<1>13. Orderly(<<"pt", "key">>, A2)
  <2>1. A2.maybe \cap Held \subseteq {"pt", "key"} /\ A2.gone = {} /\ A2.sure = {"key"}
    BY SomeObjects DEF All, At
  <2> QED BY <1>2, <1>11, <2>1, TwoHeld
<1>14. Orderly(<<"pt", "key">>, A3)
  <2>1. A3.maybe \cap Held \subseteq {"pt", "key"} /\ A3.gone = {} /\ A3.sure = {"key", "pt"}
    BY SomeObjects DEF All, At
  <2> QED BY <1>2, <1>11, <2>1, TwoHeld
<1> HIDE DEF f, A0, A1, A2, A3
<1>15. /\ LeavesWell(s1, f, A0)
       /\ LeavesWell(s2, f, A0)
       /\ LeavesWell(s3, f, A0)
       /\ LeavesWell(s4, f, A1)
       /\ LeavesWell(s5, f, A2)
       /\ LeavesWell(s6, f, A3)
       /\ LeavesWell(s7, f, A3)
       /\ LeavesWell(s8, f, A3)
  BY <1>1, <1>12, <1>13, <1>14 DEF LeavesWell, Step, Acquire, Allocate, Call, Check, ParsePayload, Verifies, Void, First
<1>16. Serves(f, 13)
  BY <1>1 DEF Serves, MayGoOn, CoversOf, AeadOps, VerifyOps, Step, Acquire, Allocate, Call, Check, ParsePayload, Verifies, Void, First
<1> HIDE DEF s1, s2, s3, s4, s5, s6, s7, s8
<1>17. f.steps \in Seq(StepRec) /\ Len(f.steps) = 8
  BY <1>1, <1>3, <1>4, <1>5, <1>6, <1>7, <1>8, <1>9, <1>10
<1>18. OutlineOf(L, f)
  <2>1. L \in [1 .. 9 -> Outline] /\ L[1] = All({})
    BY <1>11 DEF A0
  <2>2. \A k \in 1 .. 8 : Passes(f.steps[k], L[k], L[k + 1])
    BY <1>1, <1>3, <1>4, <1>5, <1>6, <1>7, <1>8, <1>9, <1>10
  <2>3. \A k \in 1 .. 8 : LeavesWell(f.steps[k], f, L[k])
    BY <1>1, <1>15
  <2>4. Orderly(f.tail, L[9])
    BY <1>1, <1>14
  <2> QED BY <1>17, <2>1, <2>2, <2>3, <2>4 DEF OutlineOf
<1> QED BY <1>16, <1>17, <1>18, Zenon DEF WellMade, f

LEMMA BoringRsaPssMade ==
  ASSUME Pointers, ~ Unwinds
  PROVE  WellMade(BoringRsaPss, 14)
<1> DEFINE f == BoringRsaPss
           s1 == ParsePayload
           s2 == Void({}, {})
           s3 == Allocate("rsa")
           s4 == Allocate("n")
           s5 == Allocate("e")
           s6 == Check({"rsa", "n", "e"})
           s7 == Call({"e"})
           s8 == Call({"rsa", "n", "e"})
           s9 == Gives({"n", "e"})
           s10 == Verifies({"rsa"})
           A0 == All({})
           A1 == At({}, {"rsa"}, {})
           A2 == At({}, {"rsa", "n"}, {})
           A3 == At({}, {"rsa", "n", "e"}, {})
           A4 == All({"rsa", "n", "e"})
           A5 == At({"rsa"}, {"rsa"}, {"n", "e"})
           L == <<A0, A0, A0, A1, A2, A3, A4, A4, A4, A5, A5>>
<1>1. f.steps = <<s1, s2, s3, s4, s5, s6, s7, s8, s9, s10>> /\ f.tail = <<"n", "e", "rsa">>
  BY DEF BoringRsaPss, Function
<1>2. /\ {"e", "n", "rsa"} \subseteq Held /\ {"e", "n", "rsa"} \subseteq Objects /\ Held \subseteq Objects
      /\ "e" \in Held /\ "n" \in Held /\ "rsa" \in Held
      /\ {"body"} \in SUBSET Parts /\ {} \in SUBSET Parts /\ {} \in SUBSET Objects
  BY SomeObjects DEF Parts
<1>3. s1 \in StepRec /\ Passes(s1, A0, A0)
  BY <1>2, FreeCalls DEF ParsePayload, All
<1>4. s2 \in StepRec /\ Passes(s2, A0, A0)
  BY <1>2, VoidCalls
<1>5. s3 \in StepRec /\ Passes(s3, A0, A1)
  BY <1>2, LateCalls DEF All
<1>6. s4 \in StepRec /\ Passes(s4, A1, A2)
  BY <1>2, LateCalls DEF All
<1>7. s5 \in StepRec /\ Passes(s5, A2, A3)
  BY <1>2, LateCalls DEF All
<1>8. s6 \in StepRec /\ Passes(s6, A3, A4)
  BY <1>2, Checked DEF All
<1>9. s7 \in StepRec /\ Passes(s7, A4, A4)
  BY <1>2, PlainCalls
<1>10. s8 \in StepRec /\ Passes(s8, A4, A4)
  BY <1>2, PlainCalls
<1>11. s9 \in StepRec /\ Passes(s9, A4, A5)
  BY <1>2, GivenAway
<1>12. s10 \in StepRec /\ Passes(s10, A5, A5)
  BY <1>2 DEF Verifies, Step, StepRec, Passes, At, MayGoOn
<1>13. /\ A0 \in Outline /\ A1 \in Outline /\ A2 \in Outline /\ A3 \in Outline /\ A4 \in Outline /\ A5 \in Outline
  BY <1>2, Outlines
<1>14. Orderly(<<>>, A0)
  <2>1. A0.maybe \cap Held \subseteq {} /\ A0.gone = {} /\ A0.sure = {}
    BY SomeObjects DEF All, At
  <2> QED BY <1>2, <1>13, <2>1, NothingHeld
<1>15. Orderly(<<"n", "e", "rsa">>, A3)
  <2>1. A3.maybe \cap Held \subseteq {"n", "e", "rsa"} /\ A3.gone = {} /\ A3.sure = {}
    BY SomeObjects DEF All, At
  <2> QED BY <1>2, <1>13, <2>1, ThreeHeld
<1>16. Orderly(<<"n", "e", "rsa">>, A4)
  <2>1. A4.maybe \cap Held \subseteq {"n", "e", "rsa"} /\ A4.gone = {} /\ A4.sure = {"rsa", "n", "e"}
    BY SomeObjects DEF All, At
  <2> QED BY <1>2, <1>13, <2>1, ThreeHeld
<1>17. Orderly(<<"n", "e", "rsa">>, A5)
  BY <1>2 DEF Orderly, OneEach, Elems, At, Owner
<1> HIDE DEF f, A0, A1, A2, A3, A4, A5
<1>18. /\ LeavesWell(s1, f, A0)
       /\ LeavesWell(s2, f, A0)
       /\ LeavesWell(s3, f, A0)
       /\ LeavesWell(s4, f, A1)
       /\ LeavesWell(s5, f, A2)
       /\ LeavesWell(s6, f, A3)
       /\ LeavesWell(s7, f, A4)
       /\ LeavesWell(s8, f, A4)
       /\ LeavesWell(s9, f, A4)
       /\ LeavesWell(s10, f, A5)
  BY <1>1, <1>14, <1>15, <1>16, <1>17 DEF LeavesWell, Step, Allocate, Call, Check, Gives, ParsePayload, Verifies, Void, First
<1>19. Serves(f, 14)
  BY <1>1 DEF Serves, MayGoOn, CoversOf, AeadOps, VerifyOps, Step, Allocate, Call, Check, Gives, ParsePayload, Verifies, Void, First
<1> HIDE DEF s1, s2, s3, s4, s5, s6, s7, s8, s9, s10
<1>20. f.steps \in Seq(StepRec) /\ Len(f.steps) = 10
  BY <1>1, <1>3, <1>4, <1>5, <1>6, <1>7, <1>8, <1>9, <1>10, <1>11, <1>12
<1>21. OutlineOf(L, f)
  <2>1. L \in [1 .. 11 -> Outline] /\ L[1] = All({})
    BY <1>13 DEF A0
  <2>2. \A k \in 1 .. 10 : Passes(f.steps[k], L[k], L[k + 1])
    BY <1>1, <1>3, <1>4, <1>5, <1>6, <1>7, <1>8, <1>9, <1>10, <1>11, <1>12
  <2>3. \A k \in 1 .. 10 : LeavesWell(f.steps[k], f, L[k])
    BY <1>1, <1>18
  <2>4. Orderly(f.tail, L[11])
    BY <1>1, <1>17
  <2> QED BY <1>20, <2>1, <2>2, <2>3, <2>4 DEF OutlineOf
<1> QED BY <1>19, <1>20, <1>21, Zenon DEF WellMade, f

LEMMA BotanVerifyMade ==
  ASSUME ~ Pointers, Unwinds, NEW o \in VerifyOps
  PROVE  WellMade(BotanVerify, o)
<1> DEFINE f == BotanVerify
           s1 == ParsePayload
           s2 == Call({})
           s3 == Acquire("key")
           s4 == Acquire("ctx")
           s5 == Verifies({"ctx", "key"})
           A0 == All({})
           A1 == All({"key"})
           A2 == All({"key", "ctx"})
           L == <<A0, A0, A0, A1, A2, A2>>
<1>1. f.steps = <<s1, s2, s3, s4, s5>> /\ f.tail = <<"ctx", "key">>
  BY DEF BotanVerify, Function
<1>2. /\ {"ctx", "key"} \subseteq Held /\ {"ctx", "key"} \subseteq Objects /\ Held \subseteq Objects
      /\ "ctx" \in Held /\ "key" \in Held
      /\ {"body"} \in SUBSET Parts /\ {} \in SUBSET Parts /\ {} \in SUBSET Objects
  BY SomeObjects DEF Parts
<1>3. s1 \in StepRec /\ Passes(s1, A0, A0)
  BY <1>2, FreeCalls DEF ParsePayload, All
<1>4. s2 \in StepRec /\ Passes(s2, A0, A0)
  BY <1>2, PlainCalls
<1>5. s3 \in StepRec /\ Passes(s3, A0, A1)
  BY <1>2, Acquires
<1>6. s4 \in StepRec /\ Passes(s4, A1, A2)
  BY <1>2, Acquires
<1>7. s5 \in StepRec /\ Passes(s5, A2, A2)
  BY <1>2, PlainCalls
<1>8. /\ A0 \in Outline /\ A1 \in Outline /\ A2 \in Outline
  BY <1>2, Outlines
<1>9. Orderly(<<"ctx", "key">>, A0)
  <2>1. A0.maybe \cap Held \subseteq {"ctx", "key"} /\ A0.gone = {} /\ A0.sure = {}
    BY SomeObjects DEF All, At
  <2> QED BY <1>2, <1>8, <2>1, TwoHeld
<1>10. Orderly(<<"ctx", "key">>, A1)
  <2>1. A1.maybe \cap Held \subseteq {"ctx", "key"} /\ A1.gone = {} /\ A1.sure = {"key"}
    BY SomeObjects DEF All, At
  <2> QED BY <1>2, <1>8, <2>1, TwoHeld
<1>11. Orderly(<<"ctx", "key">>, A2)
  <2>1. A2.maybe \cap Held \subseteq {"ctx", "key"} /\ A2.gone = {} /\ A2.sure = {"key", "ctx"}
    BY SomeObjects DEF All, At
  <2> QED BY <1>2, <1>8, <2>1, TwoHeld
<1> HIDE DEF f, A0, A1, A2
<1>12. /\ LeavesWell(s1, f, A0)
       /\ LeavesWell(s2, f, A0)
       /\ LeavesWell(s3, f, A0)
       /\ LeavesWell(s4, f, A1)
       /\ LeavesWell(s5, f, A2)
  BY <1>1, <1>9, <1>10, <1>11 DEF LeavesWell, Step, Acquire, Call, ParsePayload, Verifies, First
<1>13. Serves(f, o)
  BY <1>1 DEF Serves, MayGoOn, CoversOf, AeadOps, VerifyOps, Step, Acquire, Call, ParsePayload, Verifies, First
<1> HIDE DEF s1, s2, s3, s4, s5
<1>14. f.steps \in Seq(StepRec) /\ Len(f.steps) = 5
  BY <1>1, <1>3, <1>4, <1>5, <1>6, <1>7
<1>15. OutlineOf(L, f)
  <2>1. L \in [1 .. 6 -> Outline] /\ L[1] = All({})
    BY <1>8 DEF A0
  <2>2. \A k \in 1 .. 5 : Passes(f.steps[k], L[k], L[k + 1])
    BY <1>1, <1>3, <1>4, <1>5, <1>6, <1>7
  <2>3. \A k \in 1 .. 5 : LeavesWell(f.steps[k], f, L[k])
    BY <1>1, <1>12
  <2>4. Orderly(f.tail, L[6])
    BY <1>1, <1>11
  <2> QED BY <1>14, <2>1, <2>2, <2>3, <2>4 DEF OutlineOf
<1> QED BY <1>13, <1>14, <1>15, Zenon DEF WellMade, f

-----------------------------------------------------------------------------
(* The others that hold one context.                                       *)
LEMMA OneCall ==
  ASSUME NEW a, Plain(a, {"ctx"}), NEW o \in Ops, CoversOf(o) \subseteq a.writes
  PROVE  WellMade(WithContext(<<a>>), o)
<1> DEFINE calls == <<a>>
<1>1. a \in StepRec
  BY DEF Plain
<1>2. calls \in Seq(StepRec) /\ Len(calls) = 1 /\ calls[1] = a
  BY <1>1
<1> HIDE DEF calls
<1>3. \A k \in 1 .. Len(calls) : Plain(calls[k], {"ctx"})
  BY <1>2
<1>4. CoversOf(o) \subseteq UNION {calls[k].writes : k \in 1 .. Len(calls)}
  BY <1>2
<1> QED BY <1>2, <1>3, <1>4, ContextMade, Zenon DEF calls

LEMMA BoringContexts ==
  /\ \A o \in {7, 8} : WellMade(BoringXof, o)
  /\ \A o \in {3, 4} : WellMade(BoringAead, o)
<1>1. ASSUME NEW o \in {7, 8} PROVE WellMade(BoringXof, o)
  <2>1. o \in Ops /\ o \notin AeadOps
    BY DEF Ops, AeadOps
  <2> QED BY <2>1, CoversAre, ContextCalls, ThreeCalls DEF BoringXof
<1>2. ASSUME NEW o \in {3, 4} PROVE WellMade(BoringAead, o)
  <2>1. o \in Ops /\ o \in AeadOps
    BY DEF Ops, AeadOps
  <2> QED BY <2>1, CoversAre, ContextCalls, OneCall DEF BoringAead
<1> QED BY <1>1, <1>2

LEMMA BotanModeMade ==
  ASSUME NEW k \in Nat, NEW parts \in SUBSET Parts, NEW o \in Ops, CoversOf(o) \subseteq parts
  PROVE  WellMade(BotanMode(k, parts), o)
<1> DEFINE l == [i \in 1 .. k |-> Call({"ctx"})]
           v == Void({}, parts)
           r == <<v>>
           calls == l \o r
<1>1. /\ Plain(Call({"ctx"}), {"ctx"}) /\ Call({"ctx"}) \in StepRec
      /\ Plain(v, {"ctx"}) /\ v \in StepRec /\ v.writes = parts
  BY ContextCalls DEF Plain
<1>2. /\ l \in Seq(StepRec) /\ Len(l) = k /\ \A i \in 1 .. k : l[i] = Call({"ctx"})
  BY <1>1
<1>3. r \in Seq(StepRec) /\ Len(r) = 1 /\ r[1] = v
  BY <1>1
<1> HIDE DEF l, r, v
<1> DEFINE all == Len(l) + Len(r)
<1>0. /\ calls \in Seq(StepRec) /\ Len(calls) = all
      /\ \A i \in 1 .. all : calls[i] = IF i <= Len(l) THEN l[i] ELSE r[i - Len(l)]
  <2>1. l \in Seq(StepRec) /\ r \in Seq(StepRec)
    BY <1>2, <1>3
  <2> QED BY <2>1, ConcatProperties, Zenon
<1> HIDE DEF calls
<1>4. calls \in Seq(StepRec) /\ Len(calls) = k + 1
  BY <1>0, <1>2, <1>3
<1>5. /\ \A i \in 1 .. k : calls[i] = Call({"ctx"})
      /\ calls[k + 1] = v
  BY <1>0, <1>2, <1>3
<1> HIDE DEF calls
<1>6. \A i \in 1 .. Len(calls) : Plain(calls[i], {"ctx"})
  <2>1. \A i \in 1 .. k + 1 : i \in 1 .. k \/ i = k + 1
    OBVIOUS
  <2> QED BY <1>1, <1>4, <1>5, <2>1, Zenon
<1>7. CoversOf(o) \subseteq UNION {calls[i].writes : i \in 1 .. Len(calls)}
  <2>1. k + 1 \in 1 .. Len(calls) /\ calls[k + 1].writes = parts
    BY <1>1, <1>4, <1>5
  <2> QED BY <2>1
<1>8. BotanMode(k, parts) = WithContext(calls)
  BY Zenon DEF BotanMode, calls, l, r, v
<1> QED BY <1>4, <1>6, <1>7, <1>8, ContextMade

LEMMA GcryAeadMade == ASSUME NEW o \in AeadOps PROVE WellMade(GcryAead, o)
<1> DEFINE c == Call({"ctx"})
           b == Writes({"ctx"}, {"body"})
           t == Writes({"ctx"}, {"tag"})
           calls == <<c, c, c, b, t>>
<1>1. /\ Plain(c, {"ctx"}) /\ Plain(b, {"ctx"}) /\ Plain(t, {"ctx"})
      /\ c \in StepRec /\ b \in StepRec /\ t \in StepRec
      /\ b.writes = {"body"} /\ t.writes = {"tag"}
  BY ContextCalls DEF Plain
<1>2. o \in Ops /\ CoversOf(o) = {"body", "tag"}
  <2>1. o \in Ops
    BY DEF Ops, AeadOps
  <2> QED BY <2>1, CoversAre, ContextCalls
<1>3. GcryAead = WithContext(calls)
  BY Zenon DEF GcryAead
<1> HIDE DEF c, b, t
<1>4. calls \in Seq(StepRec) /\ Len(calls) = 5 /\ calls[4] = b /\ calls[5] = t
  BY <1>1
<1>5. \A i \in 1 .. 5 : Plain(calls[i], {"ctx"})
  BY <1>1
<1> HIDE DEF calls
<1>6. CoversOf(o) \subseteq UNION {calls[i].writes : i \in 1 .. Len(calls)}
  <2>1. 4 \in 1 .. Len(calls) /\ 5 \in 1 .. Len(calls)
    BY <1>4
  <2> QED BY <1>1, <1>2, <1>4, <2>1
<1> QED BY <1>2, <1>3, <1>4, <1>5, <1>6, ContextMade

-----------------------------------------------------------------------------
(* Those that hold nothing.                                                *)
Bare(s) ==
  /\ s \in StepRec /\ Passes(s, All({}), All({})) /\ s.do \in {"call", "void"}
  /\ s.do = "call" => s.orelse = "return" /\ s.undo = <<>>

LEMMA ShortList ==
  ASSUME NEW a, NEW b, Bare(a), Bare(b), NEW o \in Ops
  PROVE  /\ CoversOf(o) \subseteq a.writes => WellMade(Function(<<a>>, <<>>), o)
         /\ CoversOf(o) \subseteq a.writes \cup b.writes => WellMade(Function(<<a, b>>, <<>>), o)
<1> DEFINE one == <<a>>
           two == <<a, b>>
           L1 == [i \in 1 .. 2 |-> All({})]
           L2 == [i \in 1 .. 3 |-> All({})]
<1>0. a \in StepRec /\ b \in StepRec
  BY DEF Bare
<1>1. one \in Seq(StepRec) /\ Len(one) = 1 /\ one[1] = a
  BY <1>0
<1>2. two \in Seq(StepRec) /\ Len(two) = 2 /\ two[1] = a /\ two[2] = b
  BY <1>0
<1>3. L1 \in [1 .. 2 -> {All({})}] /\ L2 \in [1 .. 3 -> {All({})}]
  OBVIOUS
<1>4. {} \in SUBSET Objects /\ {} \cap Held = {}
  OBVIOUS
<1> HIDE DEF one, two, L1, L2
<1>5. ASSUME CoversOf(o) \subseteq a.writes PROVE WellMade(Function(one, <<>>), o)
  <2>1. CoversOf(o) \subseteq UNION {one[k].writes : k \in 1 .. Len(one)}
    BY <1>1, <1>5
  <2>2. /\ L1 \in [1 .. Len(one) + 1 -> {All({}), All({})}] /\ L1[1] = All({})
        /\ \A k \in 1 .. Len(one) : L1[k] = All({}) /\ L1[k + 1] = All({}) /\ one[k] = a
    BY <1>1, <1>3
  <2>3. \A k \in 1 .. Len(one) :
           /\ Passes(one[k], L1[k], L1[k + 1]) /\ one[k].do \in {"call", "void"}
           /\ one[k].do = "call" =>
                one[k].orelse = "tail" \/ (one[k].orelse = "return" /\ one[k].undo = <<>>)
    BY <2>2 DEF Bare
  <2> QED BY <1>1, <1>4, <2>1, <2>2, <2>3, BareMade
<1>6. ASSUME CoversOf(o) \subseteq a.writes \cup b.writes PROVE WellMade(Function(two, <<>>), o)
  <2>1. CoversOf(o) \subseteq UNION {two[k].writes : k \in 1 .. Len(two)}
    BY <1>2, <1>6
  <2>2. /\ L2 \in [1 .. Len(two) + 1 -> {All({}), All({})}] /\ L2[1] = All({})
        /\ \A k \in 1 .. Len(two) : L2[k] = All({}) /\ L2[k + 1] = All({}) /\ two[k] \in {a, b}
    BY <1>2, <1>3
  <2>3. \A k \in 1 .. Len(two) :
           /\ Passes(two[k], L2[k], L2[k + 1]) /\ two[k].do \in {"call", "void"}
           /\ two[k].do = "call" =>
                two[k].orelse = "tail" \/ (two[k].orelse = "return" /\ two[k].undo = <<>>)
    BY <2>2 DEF Bare
  <2> QED BY <1>2, <1>4, <2>1, <2>2, <2>3, BareMade
<1> QED BY <1>5, <1>6 DEF one, two

LEMMA BareFunctions ==
  ASSUME NEW o \in Ops
  PROVE  /\ o \notin AeadOps => /\ WellMade(OneShot, o) /\ WellMade(BoringEd25519, o)
                                /\ WellMade(Function(<<Void({}, {"body"})>>, <<>>), o)
         /\ o \in AeadOps => WellMade(WolfChachaPoly, o)
<1> DEFINE f == First({"body"})
           v == Void({}, {"body"})
           t == Void({}, {"tag"})
           e == Void({}, {})
<1>1. /\ f.do = "call" /\ f.orelse = "return" /\ f.undo = <<>> /\ f.writes = {"body"}
      /\ v.do = "void" /\ v.writes = {"body"} /\ t.do = "void" /\ t.writes = {"tag"}
      /\ e.do = "void" /\ e.writes = {}
  BY DEF First, Void, Step
<1>2. /\ {"body"} \in SUBSET Parts /\ {"tag"} \in SUBSET Parts /\ {} \in SUBSET Parts
      /\ {} \in SUBSET Objects
  BY DEF Parts
<1>3. f \in StepRec /\ Passes(f, All({}), All({}))
  BY <1>2, FreeCalls
<1>4. v \in StepRec /\ Passes(v, All({}), All({}))
  BY <1>2, VoidCalls
<1>5. t \in StepRec /\ Passes(t, All({}), All({}))
  BY <1>2, VoidCalls
<1>6. e \in StepRec /\ Passes(e, All({}), All({}))
  BY <1>2, VoidCalls
<1> HIDE DEF f, v, t, e
<1>7. Bare(f) /\ Bare(v) /\ Bare(t) /\ Bare(e)
  BY <1>1, <1>3, <1>4, <1>5, <1>6 DEF Bare
<1>8. CASE o \notin AeadOps
  <2>1. CoversOf(o) = {"body"}
    BY <1>8, CoversAre
  <2>2. CoversOf(o) \subseteq f.writes /\ CoversOf(o) \subseteq v.writes
        /\ CoversOf(o) \subseteq e.writes \cup f.writes
    BY <1>1, <2>1
  <2>3. WellMade(Function(<<f>>, <<>>), o) /\ WellMade(Function(<<v>>, <<>>), o)
    BY <1>7, <2>2, ShortList, Zenon
  <2>4. WellMade(Function(<<e, f>>, <<>>), o)
    BY <1>7, <2>2, ShortList, Zenon
  <2> QED BY <1>8, <2>3, <2>4, Zenon DEF OneShot, BoringEd25519, f, v, e
<1>9. CASE o \in AeadOps
  <2>1. CoversOf(o) = {"body", "tag"}
    BY <1>9, CoversAre DEF Parts
  <2>2. CoversOf(o) \subseteq f.writes \cup t.writes
    BY <1>1, <2>1
  <2>3. WellMade(Function(<<f, t>>, <<>>), o)
    BY <1>7, <2>2, ShortList, Zenon
  <2> QED BY <1>9, <2>3, Zenon DEF WolfChachaPoly, f, t
<1> QED BY <1>8, <1>9

-----------------------------------------------------------------------------
(* The contexts nettle keeps on the stack.                                 *)
StackCall(s) == s \in StepRec /\ s.do = "void" /\ s.takes = {} /\ s.needs \subseteq {"stack"}

OnStack(s) ==
  /\ s \in Seq(StepRec) /\ Len(s) >= 1 /\ s[1] = Initialises("stack")
  /\ \A k \in 2 .. Len(s) : StackCall(s[k])

Written(s) == UNION {s[k].writes : k \in 1 .. Len(s)}

LEMMA StackGrows ==
  ASSUME NEW s, OnStack(s), NEW r \in Seq(StepRec), \A k \in 1 .. Len(r) : StackCall(r[k])
  PROVE  OnStack(s \o r) /\ Written(s) \cup Written(r) \subseteq Written(s \o r)
<1> DEFINE w == s \o r
<1>1. s \in Seq(StepRec) /\ Len(s) >= 1 /\ s[1] = Initialises("stack")
      /\ \A k \in 2 .. Len(s) : StackCall(s[k])
  BY DEF OnStack
<1>2. /\ w \in Seq(StepRec) /\ Len(w) = Len(s) + Len(r)
      /\ \A k \in 1 .. Len(s) : w[k] = s[k]
      /\ \A k \in 1 .. Len(r) : w[Len(s) + k] = r[k]
  BY <1>1, ConcatProperties
<1>3. Len(s) \in Nat /\ Len(r) \in Nat
  BY <1>1
<1> HIDE DEF w
<1>4. ASSUME NEW k \in 2 .. Len(w) PROVE StackCall(w[k])
  <2>1. CASE k <= Len(s)
    <3>1. k \in 2 .. Len(s) /\ k \in 1 .. Len(s)
      BY <1>3, <2>1
    <3> QED BY <1>1, <1>2, <3>1
  <2>2. CASE k > Len(s)
    <3>1. k - Len(s) \in 1 .. Len(r) /\ Len(s) + (k - Len(s)) = k
      BY <1>2, <1>3, <2>2
    <3> QED BY <1>2, <3>1
  <2> QED BY <1>3, <2>1, <2>2
<1>5. w[1] = Initialises("stack") /\ Len(w) >= 1
  BY <1>1, <1>2, <1>3
<1>6. OnStack(w)
  BY <1>2, <1>4, <1>5 DEF OnStack
<1>7. Written(s) \subseteq Written(w)
  <2>1. \A k \in 1 .. Len(s) : k \in 1 .. Len(w) /\ w[k] = s[k]
    BY <1>2, <1>3
  <2> QED BY <2>1 DEF Written
<1>8. Written(r) \subseteq Written(w)
  <2>1. \A k \in 1 .. Len(r) : Len(s) + k \in 1 .. Len(w) /\ w[Len(s) + k] = r[k]
    BY <1>2, <1>3
  <2> QED BY <2>1 DEF Written
<1> QED BY <1>6, <1>7, <1>8 DEF w

LEMMA StackMade ==
  ASSUME NEW s, OnStack(s), NEW o \in Ops, CoversOf(o) \subseteq Written(s)
  PROVE  WellMade(Function(s, <<>>), o)
<1> DEFINE S == {"stack"}
           L == [k \in 1 .. Len(s) + 1 |-> IF k = 1 THEN All({}) ELSE All(S)]
<1>1. s \in Seq(StepRec) /\ Len(s) >= 1 /\ s[1] = Initialises("stack")
      /\ \A k \in 2 .. Len(s) : StackCall(s[k])
  BY DEF OnStack
<1>2. S \in SUBSET Objects /\ S \cap Held = {}
  BY SomeObjects
<1>3. Passes(s[1], All({}), All(S)) /\ s[1].do = "void"
  <2>1. "stack" \in Objects /\ {} \in SUBSET Objects /\ {} \subseteq {} /\ S = {} \cup {"stack"}
    BY SomeObjects
  <2>2. Passes(s[1], All({}), All(S))
    BY <1>1, <2>1, SetCalls
  <2> QED BY <1>1, <2>2 DEF Initialises, Step
<1>4. ASSUME NEW k \in 2 .. Len(s) PROVE Passes(s[k], All(S), All(S)) /\ s[k].do = "void"
  <2>1. /\ s[k].do = "void" /\ s[k].takes = {} /\ s[k].needs \subseteq S
    BY <1>1 DEF StackCall
  <2> QED BY <2>1 DEF Passes, MayGoOn, All, At
<1>5. L \in [1 .. Len(s) + 1 -> {All({}), All(S)}] /\ L[1] = All({})
      /\ L[2] = All(S)
      /\ \A k \in 2 .. Len(s) : L[k] = All(S) /\ L[k + 1] = All(S)
  BY <1>1
<1> HIDE DEF L, S
<1>6. ASSUME NEW k \in 1 .. Len(s) PROVE Passes(s[k], L[k], L[k + 1]) /\ s[k].do = "void"
  <2>1. k = 1 \/ k \in 2 .. Len(s)
    OBVIOUS
  <2>2. k = 1 => k + 1 = 2
    OBVIOUS
  <2> QED BY <1>3, <1>4, <1>5, <2>1, <2>2, Zenon
<1>7. CoversOf(o) \subseteq UNION {s[k].writes : k \in 1 .. Len(s)}
  BY DEF Written
<1>8. \A k \in 1 .. Len(s) :
           /\ Passes(s[k], L[k], L[k + 1]) /\ s[k].do \in {"call", "void"}
           /\ s[k].do = "call" =>
                s[k].orelse = "tail" \/ (s[k].orelse = "return" /\ s[k].undo = <<>>)
  BY <1>6
<1> QED BY <1>1, <1>2, <1>5, <1>7, <1>8, BareMade

LEMMA NettleMade ==
  ASSUME NEW k \in Nat, NEW o \in Ops
  PROVE  /\ o \notin AeadOps => WellMade(NettleContext(k, {"body"}), o)
         /\ o \in AeadOps => WellMade(NettleContext(k, Parts), o)
<1> DEFINE i == <<Initialises("stack")>>
           u == [j \in 1 .. k |-> Void({"stack"}, {})]
           vb == Void({"stack"}, {"body"})
           vt == Void({"stack"}, {"tag"})
           b == <<vb>>
           t == <<vt>>
           e == <<>>
           most == (i \o u) \o b
<1>1. /\ Void({"stack"}, {}) \in StepRec /\ vb \in StepRec /\ vt \in StepRec
      /\ StackCall(Void({"stack"}, {})) /\ StackCall(vb) /\ StackCall(vt)
      /\ vb.writes = {"body"} /\ vt.writes = {"tag"} /\ Initialises("stack") \in StepRec
  BY SomeObjects DEF Void, Initialises, Step, StackCall, StepRec, Parts
<1>2. OnStack(i)
  BY <1>1 DEF OnStack
<1>3. u \in Seq(StepRec) /\ \A j \in 1 .. Len(u) : StackCall(u[j])
  BY <1>1
<1>4. e \in Seq(StepRec) /\ Len(e) = 0 /\ \A j \in 1 .. Len(e) : StackCall(e[j])
  OBVIOUS
<1> HIDE DEF vb, vt
<1>5. b \in Seq(StepRec) /\ Len(b) = 1 /\ b[1] = vb /\ t \in Seq(StepRec) /\ Len(t) = 1 /\ t[1] = vt
  BY <1>1
<1> HIDE DEF b, t, u, i, e
<1>6. /\ \A j \in 1 .. Len(b) : StackCall(b[j])
      /\ \A j \in 1 .. Len(t) : StackCall(t[j])
      /\ {"body"} \subseteq Written(b) /\ {"tag"} \subseteq Written(t)
  <2>1. 1 \in 1 .. Len(b) /\ 1 \in 1 .. Len(t)
    BY <1>5
  <2> QED BY <1>1, <1>5, <2>1 DEF Written
<1>7. OnStack(i \o u)
  BY <1>2, <1>3, StackGrows
<1>8. OnStack(most) /\ {"body"} \subseteq Written(most)
  BY <1>5, <1>6, <1>7, StackGrows
<1> HIDE DEF most
<1>9. OnStack(most \o e) /\ {"body"} \subseteq Written(most \o e)
  BY <1>4, <1>8, StackGrows
<1>10. OnStack(most \o t) /\ {"body", "tag"} \subseteq Written(most \o t)
  BY <1>5, <1>6, <1>8, StackGrows
<1>11. /\ NettleContext(k, {"body"}) = Function(most \o e, <<>>)
       /\ NettleContext(k, Parts) = Function(most \o t, <<>>)
  <2>1. "tag" \notin {"body"} /\ "tag" \in Parts
    BY DEF Parts
  <2> QED BY <2>1, Zenon DEF NettleContext, most, t, b, e, u, i, vb, vt
<1>12. /\ o \notin AeadOps => CoversOf(o) = {"body"}
       /\ o \in AeadOps => CoversOf(o) = {"body", "tag"}
  BY CoversAre DEF Parts
<1> QED BY <1>9, <1>10, <1>11, <1>12, StackMade

-----------------------------------------------------------------------------
(* The tables.                                                             *)
LEMMA WolfsslCases ==
  ASSUME NEW o \in Ops
  PROVE  /\ o \in {0, 1, 5, 6, 9, 10} => Wolfssl(o) = OneShot
         /\ o = 2 => Wolfssl(o) = WolfHmac
         /\ o = 3 => Wolfssl(o) = WolfChachaPoly
         /\ o = 4 => Wolfssl(o) = WolfAesGcm
         /\ o \in {7, 8} => Wolfssl(o) = WolfShake
         /\ o = 11 => Wolfssl(o) = WolfEd25519
         /\ o = 12 => Wolfssl(o) = WolfX25519
         /\ o \in VerifyOps => Wolfssl(o) = WolfVerify
         /\ o \in 15 .. 27 => Wolfssl(o) = NotImplemented
BY DEF Wolfssl, VerifyOps

LEMMA BoringCases ==
  ASSUME NEW o \in Ops
  PROVE  /\ o \in {0, 1, 2, 9, 10, 12} => Boring(o) = OneShot
         /\ o \in {5, 6} => Boring(o) \in {OneShot, NotImplemented}
         /\ o \in {7, 8} => Boring(o) \in {BoringXof, NotImplemented}
         /\ o \in {3, 4} => Boring(o) = BoringAead
         /\ o = 11 => Boring(o) = BoringEd25519
         /\ o = 13 => Boring(o) = BoringEcdsa
         /\ o = 14 => Boring(o) = BoringRsaPss
         /\ o \in 15 .. 27 => Boring(o) = NotImplemented
BY DEF Boring

LEMMA LibgcryptCases ==
  ASSUME NEW o \in Ops
  PROVE  /\ o \in {0, 1, 5, 6} \cup (15 .. 19) => Libgcrypt(o) = Function(<<Void({}, {"body"})>>, <<>>)
         /\ o \in {7, 8} => Libgcrypt(o) = WithContext(<<Void({"ctx"}, {}), Writes({"ctx"}, {"body"})>>)
         /\ o \in {2, 20, 21, 22, 25, 26} =>
              Libgcrypt(o) = WithContext(<<Call({"ctx"}), Call({"ctx"}), Writes({"ctx"}, {"body"})>>)
         /\ o \in {3, 4, 23, 24} => Libgcrypt(o) = GcryAead
         /\ o = 10 => Libgcrypt(o) = OneShot
         /\ o \in {9, 11, 12, 13, 14, 27} => Libgcrypt(o) = NotImplemented
<1> DEFINE hash == {0, 1, 5, 6} \cup (15 .. 19)
           xof == {7, 8}
           mac == {2, 20, 21, 22, 25, 26}
           aead == {3, 4, 23, 24}
           fh == Function(<<Void({}, {"body"})>>, <<>>)
           fx == WithContext(<<Void({"ctx"}, {}), Writes({"ctx"}, {"body"})>>)
           fm == WithContext(<<Call({"ctx"}), Call({"ctx"}), Writes({"ctx"}, {"body"})>>)
<1>1. Libgcrypt(o) = CASE o \in hash -> fh [] o \in xof -> fx [] o \in mac -> fm
                       [] o \in aead -> GcryAead [] o = 10 -> OneShot [] OTHER -> NotImplemented
  BY Zenon DEF Libgcrypt
<1>2. /\ hash \cap xof = {} /\ hash \cap mac = {} /\ hash \cap aead = {} /\ 10 \notin hash
      /\ xof \cap mac = {} /\ xof \cap aead = {} /\ 10 \notin xof
      /\ mac \cap aead = {} /\ 10 \notin mac /\ 10 \notin aead
      /\ {9, 11, 12, 13, 14, 27} \cap (hash \cup xof \cup mac \cup aead \cup {10}) = {}
  OBVIOUS
<1> HIDE DEF fh, fx, fm, hash, xof, mac, aead
<1>3. /\ o \in hash => Libgcrypt(o) = fh
      /\ o \in xof => Libgcrypt(o) = fx
      /\ o \in mac => Libgcrypt(o) = fm
      /\ o \in aead => Libgcrypt(o) = GcryAead
      /\ o = 10 => Libgcrypt(o) = OneShot
      /\ o \in {9, 11, 12, 13, 14, 27} => Libgcrypt(o) = NotImplemented
  BY <1>1, <1>2
<1> QED BY <1>3, Zenon DEF fh, fx, fm, hash, xof, mac, aead

LEMMA BotanCases ==
  ASSUME NEW o \in Ops
  PROVE  /\ o \in {0, 1, 5, 6, 7, 8, 11} => Botan(o) = BotanMode(2, {"body"})
         /\ o = 2 => Botan(o) = BotanMode(3, {"body"})
         /\ o \in {3, 4} => Botan(o) = BotanMode(4, Parts)
         /\ o \in {9, 10} => Botan(o) = WithContext(<<Writes({"ctx"}, {"body"})>>)
         /\ o = 12 => Botan(o) = BotanMode(1, {"body"})
         /\ o \in VerifyOps => Botan(o) = BotanVerify
         /\ o \in 15 .. 27 => Botan(o) = NotImplemented
BY DEF Botan, VerifyOps

LEMMA NettleCases ==
  ASSUME NEW o \in Ops
  PROVE  /\ o \in {0, 1, 2, 5, 6, 8, 26} \cup (15 .. 22) => Nettle(o) = NettleContext(1, {"body"})
         /\ o \in {3, 4, 23, 24} => Nettle(o) = NettleContext(2, Parts)
         /\ o = 9 => Nettle(o) = NettleContext(2, {"body"})
         /\ o \in {10, 11, 12} => Nettle(o) = Function(<<Void({}, {"body"})>>, <<>>)
         /\ o \in {7, 13, 14, 25, 27} => Nettle(o) = NotImplemented
<1> DEFINE one == {0, 1, 2, 5, 6, 8, 26} \cup (15 .. 22)
           aead == {3, 4, 23, 24}
           none == {10, 11, 12}
           f1 == NettleContext(1, {"body"})
           f2 == NettleContext(2, Parts)
           f3 == NettleContext(2, {"body"})
           f4 == Function(<<Void({}, {"body"})>>, <<>>)
<1>1. Nettle(o) = CASE o \in one -> f1 [] o \in aead -> f2 [] o = 9 -> f3
                    [] o \in none -> f4 [] OTHER -> NotImplemented
  BY Zenon DEF Nettle
<1>2. /\ one \cap aead = {} /\ one \cap none = {} /\ 9 \notin one
      /\ aead \cap none = {} /\ 9 \notin aead /\ 9 \notin none
      /\ {7, 13, 14, 25, 27} \cap (one \cup aead \cup none \cup {9}) = {}
  OBVIOUS
<1> HIDE DEF f1, f2, f3, f4, one, aead, none
<1>3. /\ o \in one => Nettle(o) = f1
      /\ o \in aead => Nettle(o) = f2
      /\ o = 9 => Nettle(o) = f3
      /\ o \in none => Nettle(o) = f4
      /\ o \in {7, 13, 14, 25, 27} => Nettle(o) = NotImplemented
  BY <1>1, <1>2
<1> QED BY <1>3, Zenon DEF f1, f2, f3, f4, one, aead, none

LEMMA FunctionCases ==
  ASSUME NEW o, cli \in C_Clis
  PROVE  /\ cli = "wolfssl" => FunctionOf(o) = Wolfssl(o)
         /\ cli \in {"aws_lc", "boringssl"} => FunctionOf(o) = Boring(o)
         /\ cli = "botan" => FunctionOf(o) = Botan(o)
         /\ cli = "libgcrypt" => FunctionOf(o) = Libgcrypt(o)
         /\ cli = "nettle" => FunctionOf(o) = Nettle(o)
BY Zenon DEF FunctionOf, C_Clis

LEMMA Kinds ==
  /\ \A o \in Ops : o \in VerifyOps => o \notin AeadOps
  /\ \A o \in {0, 1, 2, 5, 6, 7, 8, 9, 10, 11, 12} \cup (15 .. 22) \cup {25, 26, 27} : o \in Ops /\ o \notin AeadOps
  /\ \A o \in {3, 4, 23, 24} : o \in Ops /\ o \in AeadOps
BY DEF Ops, VerifyOps, AeadOps

(* Every entry of every table is made well.                                *)
LEMMA WolfsslTable ==
  ASSUME cli = "wolfssl", NEW o \in Ops
  PROVE  Wolfssl(o) = NotImplemented \/ WellMade(Wolfssl(o), o)
<1>1. ~ Pointers /\ ~ Unwinds
  BY DEF Pointers, Unwinds
<1>2. CASE o \in {0, 1, 5, 6, 9, 10}
  BY <1>2, WolfsslCases, Kinds, BareFunctions
<1>3. CASE o = 2
  BY <1>3, WolfsslCases, WolfContexts
<1>4. CASE o = 3
  BY <1>4, WolfsslCases, Kinds, BareFunctions
<1>5. CASE o = 4
  BY <1>5, WolfsslCases, WolfContexts
<1>6. CASE o \in {7, 8}
  BY <1>6, WolfsslCases, WolfContexts
<1>7. CASE o = 11
  BY <1>7, WolfsslCases, WolfEd25519Made, <1>1
<1>8. CASE o = 12
  BY <1>8, WolfsslCases, WolfX25519Made, <1>1
<1>9. CASE o \in VerifyOps
  BY <1>9, WolfsslCases, WolfVerifyMade, <1>1
<1>10. CASE o \in 15 .. 27
  BY <1>10, WolfsslCases
<1>11. \/ o \in {0, 1, 5, 6, 9, 10} \/ o = 2 \/ o = 3 \/ o = 4 \/ o \in {7, 8} \/ o = 11
       \/ o = 12 \/ o \in VerifyOps \/ o \in 15 .. 27
  BY DEF Ops, VerifyOps
<1> QED BY <1>2, <1>3, <1>4, <1>5, <1>6, <1>7, <1>8, <1>9, <1>10, <1>11

LEMMA BoringTable ==
  ASSUME cli \in {"aws_lc", "boringssl"}, NEW o \in Ops
  PROVE  Boring(o) = NotImplemented \/ WellMade(Boring(o), o)
<1>1. Pointers /\ ~ Unwinds
  BY DEF Pointers, Unwinds
<1>2. CASE o \in {0, 1, 2, 9, 10, 12}
  BY <1>2, BoringCases, Kinds, BareFunctions
<1>3. CASE o \in {5, 6}
  BY <1>3, BoringCases, Kinds, BareFunctions
<1>4. CASE o \in {7, 8}
  BY <1>4, BoringCases, BoringContexts
<1>5. CASE o \in {3, 4}
  BY <1>5, BoringCases, BoringContexts
<1>6. CASE o = 11
  BY <1>6, BoringCases, Kinds, BareFunctions
<1>7. CASE o = 13
  BY <1>7, BoringCases, BoringEcdsaMade, <1>1
<1>8. CASE o = 14
  BY <1>8, BoringCases, BoringRsaPssMade, <1>1
<1>9. CASE o \in 15 .. 27
  BY <1>9, BoringCases
<1>10. \/ o \in {0, 1, 2, 9, 10, 12} \/ o \in {5, 6} \/ o \in {7, 8} \/ o \in {3, 4}
       \/ o = 11 \/ o = 13 \/ o = 14 \/ o \in 15 .. 27
  BY DEF Ops
<1> QED BY <1>2, <1>3, <1>4, <1>5, <1>6, <1>7, <1>8, <1>9, <1>10

LEMMA BotanTable ==
  ASSUME cli = "botan", NEW o \in Ops
  PROVE  Botan(o) = NotImplemented \/ WellMade(Botan(o), o)
<1>1. ~ Pointers /\ Unwinds
  BY DEF Pointers, Unwinds
<1>2. 1 \in Nat /\ 2 \in Nat /\ 3 \in Nat /\ 4 \in Nat
  OBVIOUS
<1>3. /\ o \notin AeadOps => CoversOf(o) \subseteq {"body"}
      /\ CoversOf(o) \subseteq Parts /\ {"body"} \in SUBSET Parts /\ Parts \in SUBSET Parts
  BY CoversAre DEF Parts
<1>4. CASE o \in {0, 1, 5, 6, 7, 8, 11}
  BY <1>2, <1>3, <1>4, BotanCases, Kinds, BotanModeMade
<1>5. CASE o = 2
  BY <1>2, <1>3, <1>5, BotanCases, Kinds, BotanModeMade
<1>6. CASE o \in {3, 4}
  BY <1>2, <1>3, <1>6, BotanCases, Kinds, BotanModeMade
<1>7. CASE o \in {9, 10}
  <2>1. CoversOf(o) \subseteq Writes({"ctx"}, {"body"}).writes /\ Plain(Writes({"ctx"}, {"body"}), {"ctx"})
    BY <1>3, <1>7, Kinds, ContextCalls
  <2> QED BY <1>7, <2>1, BotanCases, OneCall
<1>8. CASE o = 12
  BY <1>2, <1>3, <1>8, BotanCases, Kinds, BotanModeMade
<1>9. CASE o \in VerifyOps
  BY <1>1, <1>9, BotanCases, BotanVerifyMade
<1>10. CASE o \in 15 .. 27
  BY <1>10, BotanCases
<1>11. \/ o \in {0, 1, 5, 6, 7, 8, 11} \/ o = 2 \/ o \in {3, 4} \/ o \in {9, 10}
       \/ o = 12 \/ o \in VerifyOps \/ o \in 15 .. 27
  BY DEF Ops, VerifyOps
<1> QED BY <1>4, <1>5, <1>6, <1>7, <1>8, <1>9, <1>10, <1>11

LEMMA LibgcryptTable ==
  ASSUME NEW o \in Ops
  PROVE  Libgcrypt(o) = NotImplemented \/ WellMade(Libgcrypt(o), o)
<1>1. CASE o \in {0, 1, 5, 6} \cup (15 .. 19)
  <2>1. o \notin AeadOps
    BY <1>1, Kinds
  <2> QED BY <1>1, <2>1, LibgcryptCases, BareFunctions
<1>2. CASE o \in {7, 8}
  <2>1. o \notin AeadOps
    BY <1>2, Kinds
  <2>2. /\ Plain(Void({"ctx"}, {}), {"ctx"}) /\ Plain(Writes({"ctx"}, {"body"}), {"ctx"})
        /\ CoversOf(o) \subseteq Void({"ctx"}, {}).writes \cup Writes({"ctx"}, {"body"}).writes
    BY <2>1, CoversAre, ContextCalls
  <2>3. WellMade(WithContext(<<Void({"ctx"}, {}), Writes({"ctx"}, {"body"})>>), o)
    BY <2>2, TwoCalls
  <2> QED BY <1>2, <2>3, LibgcryptCases
<1>3. CASE o \in {2, 20, 21, 22, 25, 26}
  <2>1. o \notin AeadOps
    BY <1>3, Kinds
  <2>2. /\ Plain(Call({"ctx"}), {"ctx"}) /\ Plain(Writes({"ctx"}, {"body"}), {"ctx"})
        /\ CoversOf(o) \subseteq Call({"ctx"}).writes \cup Call({"ctx"}).writes \cup Writes({"ctx"}, {"body"}).writes
    BY <2>1, CoversAre, ContextCalls
  <2>3. WellMade(WithContext(<<Call({"ctx"}), Call({"ctx"}), Writes({"ctx"}, {"body"})>>), o)
    BY <2>2, ThreeCalls
  <2> QED BY <1>3, <2>3, LibgcryptCases
<1>4. CASE o \in {3, 4, 23, 24}
  BY <1>4, LibgcryptCases, Kinds, GcryAeadMade
<1>5. CASE o = 10
  BY <1>5, LibgcryptCases, Kinds, BareFunctions
<1>6. CASE o \in {9, 11, 12, 13, 14, 27}
  BY <1>6, LibgcryptCases
<1>7. \/ o \in {0, 1, 5, 6} \cup (15 .. 19) \/ o \in {7, 8} \/ o \in {2, 20, 21, 22, 25, 26}
      \/ o \in {3, 4, 23, 24} \/ o = 10 \/ o \in {9, 11, 12, 13, 14, 27}
  BY DEF Ops
<1> QED BY <1>1, <1>2, <1>3, <1>4, <1>5, <1>6, <1>7

LEMMA NettleTable ==
  ASSUME NEW o \in Ops
  PROVE  Nettle(o) = NotImplemented \/ WellMade(Nettle(o), o)
<1>0. 1 \in Nat /\ 2 \in Nat
  OBVIOUS
<1>1. CASE o \in {0, 1, 2, 5, 6, 8, 26} \cup (15 .. 22)
  <2>1. o \notin AeadOps
    BY <1>1, Kinds
  <2> QED BY <1>0, <1>1, <2>1, NettleCases, NettleMade
<1>2. CASE o \in {3, 4, 23, 24}
  BY <1>0, <1>2, Kinds, NettleCases, NettleMade
<1>3. CASE o = 9
  BY <1>0, <1>3, Kinds, NettleCases, NettleMade
<1>4. CASE o \in {10, 11, 12}
  <2>1. o \notin AeadOps
    BY <1>4, Kinds
  <2> QED BY <1>4, <2>1, NettleCases, BareFunctions
<1>5. CASE o \in {7, 13, 14, 25, 27}
  BY <1>5, NettleCases
<1>6. \/ o \in {0, 1, 2, 5, 6, 8, 26} \cup (15 .. 22) \/ o \in {3, 4, 23, 24} \/ o = 9
      \/ o \in {10, 11, 12} \/ o \in {7, 13, 14, 25, 27}
  BY DEF Ops
<1> QED BY <1>1, <1>2, <1>3, <1>4, <1>5, <1>6

LEMMA Tables ==
  ASSUME cli \in C_Clis, NEW o \in Ops
  PROVE  FunctionOf(o) = NotImplemented \/ WellMade(FunctionOf(o), o)
<1>1. CASE cli = "wolfssl"
  BY <1>1, FunctionCases, WolfsslTable, Zenon
<1>2. CASE cli \in {"aws_lc", "boringssl"}
  BY <1>2, FunctionCases, BoringTable, Zenon
<1>3. CASE cli = "botan"
  BY <1>3, FunctionCases, BotanTable, Zenon
<1>4. CASE cli = "libgcrypt"
  BY <1>4, FunctionCases, LibgcryptTable, Zenon
<1>5. CASE cli = "nettle"
  BY <1>5, FunctionCases, NettleTable, Zenon
<1> QED BY <1>1, <1>2, <1>3, <1>4, <1>5 DEF C_Clis

-----------------------------------------------------------------------------
(* A program stays the same program, and its tables with it.               *)
LEMMA SameTables ==
  ASSUME cli' = cli, NEW o
  PROVE  /\ FunctionOf(o)' = FunctionOf(o)
         /\ \A L, f : OutlineOf(L, f)' <=> OutlineOf(L, f)
<1>1. (Pointers' <=> Pointers) /\ (Unwinds' <=> Unwinds)
  BY DEF Pointers, Unwinds
<1>2. \A r, A : Orderly(r, A)' <=> Orderly(r, A)
  BY <1>1, Zenon DEF Orderly
<1>3. \A s, f, A : LeavesWell(s, f, A)' <=> LeavesWell(s, f, A)
  BY <1>1, <1>2 DEF LeavesWell
<1>4. \A L, f : OutlineOf(L, f)' <=> OutlineOf(L, f)
  BY <1>2, <1>3 DEF OutlineOf
<1>5. FunctionOf(o)' = FunctionOf(o)
  <2>1. Boring(o)' = Boring(o)
    BY Zenon DEF Boring
  <2> QED BY <2>1, Zenon DEF FunctionOf
<1> QED BY <1>4, <1>5

(* The inductive invariant.                                                *)
Fn == FunctionOf(op)

Types ==
  /\ cli \in Clis /\ op \in Ops
  /\ pc \in {"read", "call", "free", "print", "exited"}
  /\ at \in 0 .. Len(Steps)
  /\ obj \in [Resources \cup Settings -> {"unset", "live", "given", "freed"}]
  /\ todo \in Seq(Resources) /\ owned \subseteq Objects /\ n \subseteq Parts
  /\ out \in [Parts -> {"nobody", "an earlier request", "this request"}]
  /\ rc \in {0, -1, -2} /\ ((n = {}) <=> (rc # 0))

(* The objects are as a place of the outline says.                         *)
Matches(A) ==
  /\ \A o \in A.sure : obj[o] = "live"
  /\ \A o \in Objects : obj[o] = "live" => o \in A.maybe
  /\ \A o \in Objects : obj[o] = "given" <=> o \in A.gone
  /\ \A o \in Objects : obj[o] # "freed"
  /\ owned = A.gone

Missed(A) == \E o \in A.maybe \ A.sure : obj[o] # "live"

(* A function that goes on has not failed, or a check will find out.       *)
Follows(L) ==
  /\ OutlineOf(L, Fn) /\ Matches(L[at + 1])
  /\ failed => op \in VerifyOps /\ Missed(L[at + 1])

InCall ==
  pc = "call" =>
    /\ Fn # NotImplemented /\ obj["blob"] = "live" /\ todo = <<>> /\ rc = -1
    /\ \E L : Follows(L)
    /\ \A i \in 1 .. at : \A p \in Steps[i].writes : out[p] = "this request"
    /\ at < Len(Steps) => verdict = "none"
    /\ verdict # "none" => ~ failed

(* What is to be released: everything held, once, an owner last.           *)
Pending ==
  /\ OneEach(todo)
  /\ \A o \in Resources : obj[o] = "live" => o \in Elems(todo)
  /\ \A o \in Elems(todo) : obj[o] = "live" \/ NoRelease(o)
  /\ \A o \in Resources : obj[o] = "given" => o \in owned /\ obj[Owner] = "live"
  /\ obj[Owner] = "live" =>
       /\ Owner \notin owned /\ \A o \in owned : obj[o] = "given"
       /\ \A i, j \in 1 .. Len(todo) : todo[i] = Owner /\ i < j => todo[j] \notin owned

Settled ==
  /\ \A p \in n : out[p] = "this request"
  /\ rc = 0 /\ op \notin VerifyOps => ~ failed
  /\ op \in VerifyOps => rc # -1 /\ (verdict = "valid" => ~ failed)

Answered == ReplyIsFresh /\ AcceptsOnlyVerified

CliInv ==
  /\ Types /\ InCall /\ misuse = {}
  /\ pc = "free" => Pending
  /\ pc \in {"read", "print", "exited"} => \A o \in Resources : obj[o] \in {"unset", "freed"}
  /\ pc \in {"free", "print"} => Settled
  /\ pc \in {"call", "free", "print"} => reply.text = "none"
  /\ pc \in {"read", "exited"} => Answered

-----------------------------------------------------------------------------
ObjType == [Resources \cup Settings -> {"unset", "live", "given", "freed"}]

LEMMA Places == Objects \subseteq Resources \cup Settings /\ Held \subseteq Objects /\ "blob" \in Resources
                /\ "blob" \notin Objects /\ Owner \in Held /\ Resources = Held \cup {"blob"}
                /\ Resources \cup Settings = Objects \cup {"blob"} /\ Held \subseteq Resources
BY DEF Objects, Held, Resources, Settings, Owner

(* A call that does what it is for.                                        *)
LEMMA CallGoes ==
  ASSUME NEW s \in StepRec, NEW A \in Outline, NEW B \in Outline, Passes(s, A, B), Matches(A),
         s.do \in {"call", "void"}, obj \in ObjType, failed => Missed(A),
         obj' = [o \in DOMAIN obj |-> IF o \in s.takes THEN "live" ELSE obj[o]],
         owned' = owned, failed' = failed
  PROVE  /\ Matches(B)' /\ (failed => Missed(B))' /\ NotLive(s.needs) = {}
         /\ obj' \in ObjType /\ obj'["blob"] = obj["blob"]
<1>1. /\ s.needs \subseteq A.sure /\ s.takes \cap A.gone = {}
      /\ B.maybe = A.maybe \cup s.takes /\ B.gone = A.gone
      /\ B.sure \subseteq A.sure \cup s.takes /\ A.sure \subseteq B.sure
      /\ s.takes \cap A.maybe \subseteq A.sure
      /\ B.sure \cap A.maybe \subseteq A.sure
  BY DEF Passes
<1>2. s.takes \subseteq Objects /\ s.needs \subseteq Objects /\ A.sure \subseteq Objects
      /\ A.maybe \subseteq Objects /\ A.gone \subseteq Objects
  BY DEF StepRec, Outline
<1>3. DOMAIN obj = Objects \cup {"blob"}
  BY Places DEF ObjType
<1>4. \A o \in Objects \cup {"blob"} : obj'[o] = IF o \in s.takes THEN "live" ELSE obj[o]
  BY <1>3
<1>5. NotLive(s.needs) = {}
  BY <1>1 DEF NotLive, Matches
<1>6. obj' \in ObjType
  BY <1>3, Places DEF ObjType
<1>7. obj'["blob"] = obj["blob"]
  BY <1>2, <1>4, Places
<1>8. /\ \A o \in B.sure : obj'[o] = "live"
      /\ \A o \in Objects : obj'[o] = "live" => o \in B.maybe
      /\ \A o \in Objects : obj'[o] = "given" <=> o \in B.gone
      /\ \A o \in Objects : obj'[o] # "freed"
      /\ owned' = B.gone
  BY <1>1, <1>2, <1>4 DEF Matches
<1>9. failed => \E o \in B.maybe \ B.sure : obj'[o] # "live"
  BY <1>1, <1>2, <1>4 DEF Missed
<1> QED BY <1>5, <1>6, <1>7, <1>8, <1>9 DEF Matches, Missed

(* One that fails and whose status is looked at later.                     *)
LEMMA CallMissed ==
  ASSUME NEW s \in StepRec, NEW A \in Outline, NEW B \in Outline, Passes(s, A, B), Matches(A),
         MayGoOn(s), obj' = obj, owned' = owned
  PROVE  Matches(B)' /\ Missed(B)' /\ NotLive(s.needs) = {} /\ s.writes = {}
<1>1. /\ s.needs \subseteq A.sure /\ s.takes \cap A.gone = {}
      /\ B.maybe = A.maybe \cup s.takes /\ B.gone = A.gone
      /\ B.sure = A.sure /\ s.takes # {} /\ s.takes \cap A.maybe = {} /\ s.writes = {}
  BY DEF Passes, MayGoOn
<1>2. s.takes \subseteq Objects
  BY DEF StepRec
<1>3. NotLive(s.needs) = {}
  BY <1>1 DEF NotLive, Matches
<1>4. Matches(B)
  BY <1>1 DEF Matches
<1>5. PICK o \in s.takes : o \notin A.maybe /\ o \in Objects
  BY <1>1, <1>2
<1>6. obj[o] # "live" /\ o \in B.maybe
  BY <1>1, <1>5 DEF Matches
<1>7. o \notin B.sure
  BY <1>1, <1>4, <1>6 DEF Matches
<1>8. Missed(B)
  BY <1>6, <1>7 DEF Missed
<1> QED BY <1>1, <1>3, <1>4, <1>8 DEF Matches, Missed

LEMMA CheckGoes ==
  ASSUME NEW s \in StepRec, NEW A \in Outline, NEW B \in Outline, Passes(s, A, B), Matches(A),
         s.do = "check", NotLive(s.needs) = {}, failed => Missed(A),
         obj' = obj, owned' = owned, failed' = failed
  PROVE  Matches(B)' /\ (failed => Missed(B))' /\ s.writes = {}
<1>1. /\ B.sure = A.sure \cup s.needs /\ B.maybe = A.maybe /\ B.gone = A.gone /\ s.writes = {}
  BY DEF Passes, At
<1>2. \A o \in s.needs : obj[o] = "live"
  BY DEF NotLive
<1>3. Matches(B) /\ (failed => Missed(B))
  BY <1>1, <1>2 DEF Matches, Missed
<1> QED BY <1>1, <1>3 DEF Matches, Missed

LEMMA GiveGoes ==
  ASSUME NEW s \in StepRec, NEW A \in Outline, NEW B \in Outline, Passes(s, A, B), Matches(A),
         s.do = "give", obj \in ObjType, failed => Missed(A),
         obj' = [o \in DOMAIN obj |-> Given(s, o)],
         owned' = s.takes, failed' = failed
  PROVE  /\ Matches(B)' /\ (failed => Missed(B))' /\ NotLive(s.needs) = {}
         /\ obj' \in ObjType /\ obj'["blob"] = obj["blob"] /\ s.writes = {}
<1>1. /\ s.needs = {} /\ s.writes = {} /\ s.takes \subseteq A.sure /\ A.gone = {}
      /\ B.sure = A.sure \ s.takes /\ B.maybe = A.maybe \ s.takes /\ B.gone = s.takes
  BY DEF Passes, At
<1>2. s.takes \subseteq Objects /\ A.sure \subseteq Objects /\ A.maybe \subseteq Objects
  BY DEF StepRec, Outline
<1>3. DOMAIN obj = Objects \cup {"blob"}
  BY Places DEF ObjType
<1>4. \A o \in Objects \cup {"blob"} : obj'[o] = IF o \in s.takes THEN "given" ELSE obj[o]
  BY <1>3 DEF Given
<1>5. obj' \in ObjType
  BY <1>3, Places DEF ObjType, Given
<1>6. obj'["blob"] = obj["blob"] /\ NotLive(s.needs) = {}
  BY <1>1, <1>2, <1>4, Places DEF NotLive
<1>7. /\ \A o \in B.sure : obj'[o] = "live"
      /\ \A o \in Objects : obj'[o] = "live" => o \in B.maybe
      /\ \A o \in Objects : obj'[o] = "given" <=> o \in B.gone
      /\ \A o \in Objects : obj'[o] # "freed"
      /\ owned' = B.gone
  BY <1>1, <1>2, <1>4 DEF Matches
<1>8. failed => \E o \in B.maybe \ B.sure : obj'[o] # "live"
  BY <1>1, <1>2, <1>4 DEF Missed
<1> QED BY <1>1, <1>5, <1>6, <1>7, <1>8 DEF Matches, Missed

(* Where a function leaves, the releases are those it owes.                *)
LEMMA LeavesPending ==
  ASSUME NEW r, NEW A \in Outline, Orderly(r, A), Matches(A), obj \in ObjType, obj["blob"] = "live",
         obj' = obj, owned' = owned, cli' = cli, todo' = r \o <<"blob">>
  PROVE  Pending' /\ todo' \in Seq(Resources)
<1> DEFINE t == r \o <<"blob">>
           b == <<"blob">>
<1>1. /\ r \in Seq(Held) /\ OneEach(r) /\ A.maybe \cap Held \subseteq Elems(r)
      /\ Pointers \/ Unwinds \/ Elems(r) \subseteq A.sure
      /\ A.gone # {} =>
           /\ Pointers /\ Owner \in A.sure /\ A.gone \subseteq Held \ {Owner}
           /\ \A i, j \in 1 .. Len(r) : r[i] = Owner /\ i < j => r[j] \notin A.gone
  BY DEF Orderly
<1>2. r \in Seq(Resources) /\ <<"blob">> \in Seq(Resources) /\ Len(<<"blob">>) = 1
      /\ <<"blob">>[1] = "blob"
  <2>1. Held \subseteq Resources /\ "blob" \in Resources
    BY Places
  <2> QED BY <1>1, <2>1
<1>3. /\ t \in Seq(Resources) /\ Len(t) = Len(r) + 1 /\ t[Len(r) + 1] = "blob"
      /\ \A i \in 1 .. Len(r) : t[i] = r[i] /\ r[i] \in Held /\ r[i] # "blob"
  <2>1. \A i \in 1 .. Len(r) : r[i] \in Held /\ r[i] # "blob"
    BY <1>1, Places
  <2> QED BY <1>2, <2>1, ConcatProperties
<1>4. Len(r) \in Nat
  BY <1>1
<1> HIDE DEF t
<1>5. \A i \in 1 .. Len(t) : i \in 1 .. Len(r) \/ i = Len(r) + 1
  BY <1>3, <1>4
<1>6. OneEach(t)
  BY <1>1, <1>3, <1>5 DEF OneEach
<1>7. Elems(t) = Elems(r) \cup {"blob"}
  <2>1. Len(r) + 1 \in 1 .. Len(t) /\ \A i \in 1 .. Len(r) : i \in 1 .. Len(t)
    BY <1>3, <1>4
  <2> QED BY <1>3, <1>5, <2>1 DEF Elems
<1>8. A.sure \subseteq Objects /\ A.maybe \subseteq Objects /\ A.gone \subseteq Objects
  BY DEF Outline
<1>9. /\ \A o \in A.sure : obj[o] = "live"
      /\ \A o \in Objects : obj[o] = "live" => o \in A.maybe
      /\ \A o \in Objects : obj[o] = "given" <=> o \in A.gone
      /\ \A o \in Objects : obj[o] # "freed" /\ o # "blob"
      /\ owned = A.gone
  BY Places DEF Matches
<1>10. \A o \in Resources : obj[o] = "live" => o \in Elems(t)
  BY <1>1, <1>7, <1>9, Places
<1>11. ASSUME NEW o \in Elems(t) PROVE obj[o] = "live" \/ NoRelease(o)
  <2>1. o = "blob" \/ (o \in Elems(r) /\ o \in Held /\ o \in Objects)
    BY <1>3, <1>7, Places DEF Elems
  <2>2. o \in Objects => obj[o] \in {"unset", "live", "given"}
    BY <1>9, Places DEF ObjType
  <2>3. o \in Objects /\ obj[o] = "given" => Pointers
    BY <1>1, <1>9
  <2> QED BY <1>1, <1>9, <2>1, <2>2, <2>3 DEF NoRelease
<1>12. \A o \in Resources : obj[o] = "given" => o \in owned /\ obj[Owner] = "live"
  BY <1>1, <1>9, Places
<1>13. obj[Owner] = "live" =>
         /\ Owner \notin owned /\ \A o \in owned : obj[o] = "given"
         /\ \A i, j \in 1 .. Len(t) : t[i] = Owner /\ i < j => t[j] \notin owned
  <2>1. CASE A.gone = {}
    BY <1>9, <2>1
  <2>2. CASE A.gone # {}
    <3>1. Owner \notin owned /\ \A o \in owned : obj[o] = "given"
      BY <1>1, <1>8, <1>9, <2>2
    <3>2. "blob" \notin owned
      BY <1>8, <1>9, Places
    <3>3. ASSUME NEW i \in 1 .. Len(t), NEW j \in 1 .. Len(t), t[i] = Owner, i < j
          PROVE  t[j] \notin owned
      <4>1. i \in 1 .. Len(r)
        BY <1>3, <1>4, <3>3
      <4>2. CASE j = Len(r) + 1
        BY <1>3, <3>2, <4>2
      <4>3. CASE j \in 1 .. Len(r)
        BY <1>1, <1>3, <1>9, <2>2, <3>3, <4>1, <4>3
      <4> QED BY <1>5, <4>2, <4>3
    <3> QED BY <3>1, <3>3
  <2> QED BY <2>1, <2>2
<1>14. (Pointers' <=> Pointers) /\ (Unwinds' <=> Unwinds)
  BY DEF Pointers, Unwinds
<1>15. \A o : NoRelease(o)' <=> NoRelease(o)
  BY <1>14 DEF NoRelease
<1>16. todo' = t
  BY DEF t
<1> QED BY <1>3, <1>6, <1>10, <1>11, <1>12, <1>13, <1>15, <1>16 DEF Pending

LEMMA Programs ==
  ASSUME cli \in Clis, NEW o \in Ops
  PROVE  /\ FunctionOf(o).steps \in Seq(StepRec) /\ Len(FunctionOf(o).steps) \in Nat
         /\ FunctionOf(o) # NotImplemented => WellMade(FunctionOf(o), o)
<1>1. cli \in C_Clis
  BY ClisOK
<1>2. CASE FunctionOf(o) = NotImplemented
  <2>1. FunctionOf(o).steps = <<>>
    BY <1>2 DEF NotImplemented, Function
  <2>2. <<>> \in Seq(StepRec) /\ Len(<<>>) = 0
    OBVIOUS
  <2> QED BY <1>2, <2>1, <2>2
<1>3. CASE FunctionOf(o) # NotImplemented
  <2>1. WellMade(FunctionOf(o), o)
    BY <1>1, <1>3, Tables
  <2> QED BY <2>1 DEF WellMade
<1> QED BY <1>2, <1>3

LEMMA SameFunction ==
  ASSUME cli' = cli, NEW o, op' = o
  PROVE  Fn' = FunctionOf(o) /\ Steps' = FunctionOf(o).steps
<1>1. FunctionOf(o)' = FunctionOf(o)
  BY SameTables
<1>2. FunctionOf(op)' = FunctionOf(o)
  BY <1>1
<1> QED BY <1>2 DEF Fn, Steps

LEMMA InitInv == Init => CliInv
<1> SUFFICES ASSUME Init PROVE CliInv
  OBVIOUS
<1>1. 0 \in Ops /\ cli \in Clis /\ op = 0
  BY DEF Init, Ops
<1>2. Len(Steps) \in Nat
  BY <1>1, Programs DEF Steps
<1>3. Types
  BY <1>1, <1>2 DEF Init, Types
<1>4. \A o \in Resources : obj[o] = "unset"
  BY DEF Init
<1> QED BY <1>3, <1>4 DEF Init, CliInv, InCall, Answered, ReplyIsFresh, AcceptsOnlyVerified

LEMMA ReadInv == ASSUME CliInv, Read PROVE CliInv'
<1>1. /\ cli \in Clis /\ op \in Ops /\ obj \in ObjType /\ misuse = {}
      /\ out \in [Parts -> {"nobody", "an earlier request", "this request"}]
  BY DEF CliInv, Types, ObjType
<1>2. /\ pc = "read" /\ cli' = cli /\ misuse' = misuse
      /\ at' = 0 /\ owned' = {} /\ n' = {} /\ verdict' = "none" /\ reply' = [text |-> "none"]
  BY DEF Read
<1>3. out' \in [Parts -> {"nobody", "an earlier request", "this request"}]
  <2>1. out' = [p \in Parts |-> IF out[p] = "nobody" THEN "nobody" ELSE "an earlier request"]
    BY DEF Read
  <2> QED BY <2>1
<1>4. ASSUME NEW o \in Ops, op' = o PROVE at' \in 0 .. Len(Steps') /\ Steps' = FunctionOf(o).steps
  <2>1. Len(FunctionOf(o).steps) \in Nat
    BY <1>1, Programs
  <2>2. Steps' = FunctionOf(o).steps
    BY <1>2, <1>4, SameFunction
  <2> QED BY <1>2, <2>1, <2>2
<1>5. reply'.text = "none"
  BY <1>2
<1>6. CASE /\ rc' = -1 /\ failed' = TRUE
           /\ obj' = [o \in DOMAIN obj |-> "unset"]
           /\ pc' = "print" /\ todo' = <<>> /\ op' = 0
  <2>1. 0 \in Ops /\ op' \in Ops /\ op' \notin VerifyOps /\ n' = {} /\ rc' = -1 /\ pc' = "print" /\ todo' = <<>>
    BY <1>2, <1>6 DEF Ops, VerifyOps
  <2>2. obj' \in ObjType /\ \A o \in Resources : obj'[o] = "unset"
    BY <1>1, <1>6 DEF ObjType
  <2>3. at' \in 0 .. Len(Steps')
    BY <1>4, <1>6, <2>1
  <2>4. Types'
    <3>1. <<>> \in Seq(Resources) /\ -1 \in {0, -1, -2} /\ -1 # 0
      OBVIOUS
    <3>2. /\ todo' \in Seq(Resources) /\ rc' \in {0, -1, -2} /\ ((n' = {}) <=> (rc' # 0))
          /\ n' \subseteq Parts /\ owned' \subseteq Objects /\ cli' \in Clis
      BY <1>1, <1>2, <2>1, <3>1, Zenon
    <3> QED BY <1>3, <2>1, <2>2, <2>3, <3>2, Zenon DEF Types, ObjType
  <2>5. Settled'
    BY <2>1 DEF Settled
  <2> QED BY <1>1, <1>2, <1>5, <2>1, <2>2, <2>4, <2>5 DEF CliInv, InCall
<1>7. ASSUME NEW o \in Ops, op' = o, failed' = FALSE,
             obj' = [x \in DOMAIN obj |-> IF x = "blob" THEN "live" ELSE "unset"],
             IF FunctionOf(o) = NotImplemented
             THEN rc' = -2 /\ pc' = "free" /\ todo' = <<"blob">>
             ELSE rc' = -1 /\ pc' = "call" /\ todo' = <<>>
      PROVE  CliInv'
  <2>1. /\ obj' \in ObjType /\ obj'["blob"] = "live"
        /\ \A x \in Objects : obj'[x] = "unset" /\ x # "blob"
    BY <1>1, <1>7, Places DEF ObjType
  <2>2. "blob" \in Resources /\ <<"blob">> \in Seq(Resources) /\ <<>> \in Seq(Resources)
        /\ Len(<<"blob">>) = 1 /\ <<"blob">>[1] = "blob"
    BY Places
  <2>3. at' \in 0 .. Len(Steps') /\ Steps' = FunctionOf(o).steps /\ Fn' = FunctionOf(o)
    BY <1>2, <1>4, <1>7, SameFunction
  <2>4. CASE FunctionOf(o) = NotImplemented
    <3>1. rc' = -2 /\ pc' = "free" /\ todo' = <<"blob">> /\ n' = {} /\ verdict' = "none"
      BY <1>2, <1>7, <2>4
    <3>2. Types'
      <4>1. -2 \in {0, -1, -2} /\ -2 # 0
        OBVIOUS
      <4>2. /\ todo' \in Seq(Resources) /\ rc' \in {0, -1, -2} /\ ((n' = {}) <=> (rc' # 0))
            /\ n' \subseteq Parts /\ owned' \subseteq Objects /\ cli' \in Clis /\ op' \in Ops
        BY <1>1, <1>2, <1>7, <2>2, <3>1, <4>1, Zenon
      <4> QED BY <1>3, <2>1, <2>3, <3>1, <4>2, Zenon DEF Types, ObjType
    <3>3. Settled'
      BY <3>1 DEF Settled
    <3>4. Pending'
      <4>1. Len(todo') = 1 /\ todo'[1] = "blob"
        BY <2>2, <3>1
      <4>2. Elems(todo)' = {"blob"}
        BY <4>1 DEF Elems
      <4>3. OneEach(todo)'
        BY <4>1 DEF OneEach
      <4>4. \A x \in Resources : x # "blob" => obj'[x] = "unset"
        BY <2>1, Places
      <4>5. obj'[Owner] = "unset"
        BY <2>1, Places
      <4> QED BY <2>1, <4>2, <4>3, <4>4, <4>5 DEF Pending
    <3> QED BY <1>1, <1>2, <1>5, <3>1, <3>2, <3>3, <3>4 DEF CliInv, InCall
  <2>5. CASE FunctionOf(o) # NotImplemented
    <3>1. rc' = -1 /\ pc' = "call" /\ todo' = <<>> /\ n' = {} /\ verdict' = "none" /\ ~ failed'
      BY <1>2, <1>7, <2>5
    <3>2. Types'
      <4>1. -1 \in {0, -1, -2} /\ -1 # 0
        OBVIOUS
      <4>2. /\ todo' \in Seq(Resources) /\ rc' \in {0, -1, -2} /\ ((n' = {}) <=> (rc' # 0))
            /\ n' \subseteq Parts /\ owned' \subseteq Objects /\ cli' \in Clis /\ op' \in Ops
        BY <1>1, <1>2, <1>7, <2>2, <3>1, <4>1, Zenon
      <4> QED BY <1>3, <2>1, <2>3, <3>1, <4>2, Zenon DEF Types, ObjType
    <3>3. WellMade(FunctionOf(o), o)
      BY <1>1, <2>5, Programs
    <3>4. PICK L : OutlineOf(L, FunctionOf(o))
      BY <3>3 DEF WellMade
    <3>5. L[1] = All({}) /\ at' + 1 = 1
      BY <1>2, <3>4 DEF OutlineOf
    <3>6. Matches(All({}))'
      BY <1>2, <2>1 DEF Matches, All, At
    <3>7. OutlineOf(L, Fn)'
      <4>1. OutlineOf(L, FunctionOf(o))'
        BY <1>2, <3>4, SameTables
      <4> QED BY <1>2, <2>3, <4>1, SameTables, Zenon
    <3>8. Follows(L)'
      BY <3>1, <3>5, <3>6, <3>7 DEF Follows
    <3>9. \A i \in 1 .. at' : FALSE
      BY <1>2
    <3>10. InCall'
      BY <2>1, <2>3, <2>5, <3>1, <3>8, <3>9 DEF InCall
    <3> QED BY <1>1, <1>2, <1>5, <3>1, <3>2, <3>10 DEF CliInv
  <2> QED BY <2>4, <2>5
<1> QED BY <1>6, <1>7 DEF Read

LEMMA InACall ==
  ASSUME CliInv, pc = "call"
  PROVE  /\ WellMade(Fn, op) /\ Fn # NotImplemented /\ Steps = Fn.steps /\ AtTheEnd = Fn.tail
         /\ Steps \in Seq(StepRec) /\ Len(Steps) \in Nat /\ at \in 0 .. Len(Steps)
         /\ obj \in ObjType /\ obj["blob"] = "live" /\ todo = <<>> /\ rc = -1 /\ n = {}
         /\ misuse = {} /\ (\E L : Follows(L)) /\ \A i \in 1 .. at : Steps[i].writes \subseteq Parts
<1>1. /\ Types /\ misuse = {} /\ Fn # NotImplemented /\ obj["blob"] = "live" /\ todo = <<>> /\ rc = -1
      /\ \E L : Follows(L)
  BY DEF CliInv, InCall
<1>2. WellMade(Fn, op) /\ Steps \in Seq(StepRec) /\ Len(Steps) \in Nat
  BY <1>1, Programs DEF Types, Fn, Steps
<1>3. Steps = Fn.steps /\ AtTheEnd = Fn.tail
  BY DEF Steps, Fn, AtTheEnd
<1>4. n = {}
  <2>1. rc = -1 /\ ((n = {}) <=> (rc # 0))
    BY <1>1, Zenon DEF Types
  <2> QED BY <2>1
<1>5. at \in 0 .. Len(Steps)
  BY <1>1 DEF Types
<1>6. ASSUME NEW i \in 1 .. at PROVE Steps[i].writes \subseteq Parts
  <2>1. i \in 1 .. Len(Steps)
    BY <1>2, <1>5
  <2>2. Steps[i] \in StepRec
    BY <1>2, <2>1
  <2> QED BY <2>2 DEF StepRec
<1> QED BY <1>1, <1>2, <1>3, <1>4, <1>6 DEF Types, ObjType

LEMMA NextPlace ==
  ASSUME CliInv, pc = "call", at < Len(Steps), NEW L, Follows(L)
  PROVE  /\ at + 1 \in 1 .. Len(Steps) /\ Now \in StepRec /\ verdict = "none"
         /\ L[at + 1] \in Outline /\ L[(at + 1) + 1] \in Outline /\ Matches(L[at + 1])
         /\ Passes(Now, L[at + 1], L[(at + 1) + 1]) /\ LeavesWell(Now, Fn, L[at + 1])
<1>1. /\ Steps = Fn.steps /\ Steps \in Seq(StepRec) /\ Len(Steps) \in Nat /\ at \in 0 .. Len(Steps)
  BY InACall
<1>2. verdict = "none"
  BY DEF CliInv, InCall
<1>3. /\ L \in [1 .. Len(Steps) + 1 -> Outline] /\ Matches(L[at + 1])
      /\ \A k \in 1 .. Len(Steps) : Passes(Steps[k], L[k], L[k + 1]) /\ LeavesWell(Steps[k], Fn, L[k])
  BY <1>1 DEF Follows, OutlineOf
<1>4. at + 1 \in 1 .. Len(Steps) /\ at + 1 \in 1 .. Len(Steps) + 1 /\ (at + 1) + 1 \in 1 .. Len(Steps) + 1
  BY <1>1
<1> QED BY <1>1, <1>2, <1>3, <1>4 DEF Now

LEMMA Onward ==
  ASSUME NEW l \in Nat, NEW a \in 0 .. l, a < l
  PROVE  a + 1 \in 0 .. l /\ \A i \in 1 .. a + 1 : i \in 1 .. a \/ i = a + 1
OBVIOUS

(* The function goes on to its next call.                                  *)
LEMMA GoesOn ==
  ASSUME CliInv, pc = "call", at < Len(Steps), NEW L, Follows(L), NEW B, B = L[(at + 1) + 1],
         at' = at + 1, UNCHANGED <<cli, pc, op, todo, n, rc, reply>>,
         Matches(B)', failed' => op \in VerifyOps /\ Missed(B)',
         obj' \in ObjType, obj'["blob"] = "live", owned' \subseteq Objects,
         out' \in [Parts -> {"nobody", "an earlier request", "this request"}],
         \A p \in Parts : out[p] = "this request" => out'[p] = "this request",
         \A p \in Now.writes : out'[p] = "this request",
         misuse' = {}, at + 1 < Len(Steps) => verdict' = "none",
         verdict' = "none" \/ ~ failed'
  PROVE  CliInv'
<1>1. /\ Types /\ Fn # NotImplemented /\ todo = <<>> /\ rc = -1 /\ n = {} /\ reply.text = "none"
      /\ \A i \in 1 .. at : \A p \in Steps[i].writes : out[p] = "this request"
  BY InACall DEF CliInv, InCall
<1>2. /\ Steps \in Seq(StepRec) /\ Len(Steps) \in Nat /\ at \in 0 .. Len(Steps)
  BY InACall
<1>3. Steps' = Steps /\ Fn' = Fn
  BY SameFunction DEF Fn, Steps
<1>0. at + 1 \in 0 .. Len(Steps) /\ \A i \in 1 .. at + 1 : i \in 1 .. at \/ i = at + 1
  BY <1>2, Onward, Zenon
<1>4. Types'
  <2>1. at' \in 0 .. Len(Steps')
    BY <1>0, <1>3, Zenon
  <2>2. /\ cli' \in Clis /\ op' \in Ops /\ pc' \in {"read", "call", "free", "print", "exited"}
        /\ todo' \in Seq(Resources) /\ n' \subseteq Parts
        /\ rc' \in {0, -1, -2} /\ ((n' = {}) <=> (rc' # 0))
    BY <1>1, Zenon DEF Types
  <2> QED BY <2>1, <2>2, Zenon DEF Types, ObjType
<1>5. at' + 1 = (at + 1) + 1
  OBVIOUS
<1>6. OutlineOf(L, Fn)'
  <2>1. OutlineOf(L, Fn)
    BY DEF Follows
  <2>2. \A g : OutlineOf(L, g)' <=> OutlineOf(L, g)
    BY SameTables
  <2> QED BY <1>3, <2>1, <2>2, Zenon
<1>7. Follows(L)'
  BY <1>5, <1>6 DEF Follows
<1>8. ASSUME NEW i \in 1 .. at', NEW p \in Steps'[i].writes PROVE out'[p] = "this request"
  <2>1. i \in 1 .. at \/ i = at + 1
    BY <1>0, <1>8, Zenon
  <2>2. CASE i = at + 1
    <3>1. p \in Now.writes
      BY <1>3, <1>8, <2>2, Zenon DEF Now
    <3> QED BY <3>1
  <2>3. CASE i \in 1 .. at
    <3>1. Steps[i].writes \subseteq Parts
      BY <2>3, InACall, Zenon
    <3>2. p \in Steps[i].writes
      BY <1>3, <1>8, Zenon
    <3>3. p \in Parts /\ out[p] = "this request"
      BY <1>1, <2>3, <3>1, <3>2, Zenon
    <3> QED BY <3>3, Zenon
  <2> QED BY <2>1, <2>2, <2>3
<1>9. InCall'
  <2>1. Fn' # NotImplemented /\ todo' = <<>> /\ rc' = -1 /\ (\E M : Follows(M)')
    BY <1>1, <1>3, <1>7, Zenon
  <2>2. at' < Len(Steps') => verdict' = "none"
    BY <1>3
  <2> QED BY <1>8, <2>1, <2>2, Zenon DEF InCall
<1> QED BY <1>1, <1>4, <1>9 DEF CliInv

LEMMA ReturnCodes ==
  /\ -1 # 0 /\ -2 # 0 /\ -1 # -2 /\ 0 # -1
  /\ 0 \in {0, -1} /\ -1 \in {0, -1} /\ \A x \in {0, -1} : x \in {0, -1, -2}
OBVIOUS

(* The function leaves, through its releases.                              *)
LEMMA Leaving ==
  ASSUME CliInv, pc = "call", NEW r, NEW done \in BOOLEAN, NEW A \in Outline, Orderly(r, A),
         Matches(A), Leaves(r, done), UNCHANGED <<cli, op, at, obj, owned, verdict, reply>>,
         misuse' = {}, verdict = "none" \/ ~ failed',
         op \notin VerifyOps /\ done => ~ failed' /\ \A p \in Covers : out[p] = "this request"
  PROVE  CliInv'
<1>1. /\ Types /\ obj \in ObjType /\ obj["blob"] = "live" /\ reply.text = "none"
  BY InACall DEF CliInv
<1>2. /\ pc' = "free" /\ todo' = r \o <<"blob">>
      /\ rc' = IF done \/ op \in VerifyOps THEN 0 ELSE -1
      /\ n' = IF op \in VerifyOps THEN {"body"} ELSE IF done THEN Covers ELSE {}
      /\ out' = IF op \in VerifyOps THEN [out EXCEPT !["body"] = "this request"] ELSE out
  BY DEF Leaves
<1>3. Pending' /\ todo' \in Seq(Resources)
  BY <1>1, <1>2, LeavesPending
<1>4. out \in [Parts -> {"nobody", "an earlier request", "this request"}] /\ "body" \in Parts
      /\ Covers \subseteq Parts /\ Covers # {}
  BY <1>1 DEF Types, Parts, Covers
<1>5. /\ n' \subseteq Parts /\ rc' \in {0, -1} /\ ((n' = {}) <=> (rc' # 0))
      /\ op \in VerifyOps => rc' # -1
      /\ op \notin VerifyOps /\ rc' = 0 => done
      /\ op \notin VerifyOps /\ n' # {} => done /\ n' = Covers
  <2>1. {"body"} \subseteq Parts /\ {"body"} # {} /\ -1 # 0 /\ 0 \in {0, -1} /\ -1 \in {0, -1}
    BY <1>4, ReturnCodes, Zenon
  <2>2. CASE op \in VerifyOps
    <3>1. rc' = 0 /\ n' = {"body"}
      BY <1>2, <2>2, Zenon
    <3> QED BY <2>1, <2>2, <3>1, Zenon
  <2>3. CASE op \notin VerifyOps /\ done
    <3>1. rc' = 0 /\ n' = Covers
      BY <1>2, <2>3, Zenon
    <3> QED BY <1>4, <2>1, <2>3, <3>1, Zenon
  <2>4. CASE op \notin VerifyOps /\ ~ done
    <3>1. rc' = -1 /\ n' = {}
      BY <1>2, <2>4, Zenon
    <3> QED BY <1>4, <2>1, <2>4, <3>1, Zenon
  <2> QED BY <2>2, <2>3, <2>4, Zenon
<1>6. /\ out' \in [Parts -> {"nobody", "an earlier request", "this request"}]
      /\ op \in VerifyOps => n' = {"body"} /\ out'["body"] = "this request"
      /\ op \notin VerifyOps => out' = out
  BY <1>2, <1>4
<1>7. \A p \in n' : out'[p] = "this request"
  BY <1>5, <1>6, Zenon
<1>8. Settled'
  <2>1. verdict = "valid" => ~ failed'
    OBVIOUS
  <2> QED BY <1>5, <1>7, <2>1, Zenon DEF Settled
<1>9. Types'
  <2>1. cli \in Clis /\ op \in Ops /\ obj \in ObjType /\ owned \subseteq Objects /\ at \in 0 .. Len(Steps)
    BY <1>1 DEF Types
  <2>2. Steps' = Steps
    BY SameFunction DEF Steps
  <2>3. rc' \in {0, -1, -2} /\ pc' \in {"read", "call", "free", "print", "exited"}
    BY <1>2, <1>5, Zenon
  <2>4. /\ cli' \in Clis /\ op' \in Ops /\ obj' \in ObjType /\ owned' \subseteq Objects
        /\ at' \in 0 .. Len(Steps')
    BY <2>1, <2>2, Zenon
  <2> QED BY <1>3, <1>5, <1>6, <2>3, <2>4, Zenon DEF Types, ObjType
<1>10. pc' # "call" /\ pc' # "read" /\ pc' # "print" /\ pc' # "exited" /\ reply'.text = "none"
  BY <1>1, <1>2
<1> QED BY <1>3, <1>8, <1>9, <1>10 DEF CliInv, InCall

LEMMA SucceedsInv == ASSUME CliInv, Succeeds PROVE CliInv'
<1>1. /\ pc = "call" /\ at < Len(Steps) /\ Now.do \in {"call", "void", "give"}
      /\ at' = at + 1 /\ UNCHANGED <<cli, pc, op, todo, n, rc, verdict, failed, reply>>
      /\ out' = [p \in Parts |-> IF p \in Now.writes THEN "this request" ELSE out[p]]
      /\ misuse' = misuse \cup [what : {"used"}, obj : NotLive(Now.needs)]
      /\ obj' = IF Now.do = "give" THEN [o \in DOMAIN obj |-> Given(Now, o)]
                ELSE [o \in DOMAIN obj |-> IF o \in Now.takes THEN "live" ELSE obj[o]]
      /\ owned' = IF Now.do = "give" THEN Now.takes ELSE owned
  BY DEF Succeeds, Calling, Misused
<1>2. PICK L : Follows(L)
  BY <1>1, InACall
<1> DEFINE A == L[at + 1]
           B == L[(at + 1) + 1]
<1>3. /\ Now \in StepRec /\ verdict = "none" /\ A \in Outline /\ B \in Outline /\ Matches(A)
      /\ Passes(Now, A, B) /\ obj \in ObjType /\ obj["blob"] = "live" /\ misuse = {}
      /\ failed => op \in VerifyOps /\ Missed(A)
      /\ owned \subseteq Objects /\ out \in [Parts -> {"nobody", "an earlier request", "this request"}]
  BY <1>1, <1>2, NextPlace, InACall DEF Follows, CliInv, Types
<1> HIDE DEF A
<1>4. /\ out' \in [Parts -> {"nobody", "an earlier request", "this request"}]
      /\ \A p \in Parts : out[p] = "this request" => out'[p] = "this request"
      /\ \A p \in Now.writes : out'[p] = "this request"
  <2>1. Now.writes \subseteq Parts
    BY <1>3 DEF StepRec
  <2> QED BY <1>1, <1>3, <2>1
<1> SUFFICES ASSUME NEW C, C = L[(at + 1) + 1], Passes(Now, A, C), C \in Outline PROVE CliInv'
  BY <1>3
<1>5. Matches(C)' /\ (failed => Missed(C))' /\ NotLive(Now.needs) = {} /\ obj' \in ObjType
      /\ obj'["blob"] = "live" /\ owned' \subseteq Objects
  <2>1. CASE Now.do = "give"
    <3>1. owned' = Now.takes /\ obj' = [o \in DOMAIN obj |-> Given(Now, o)] /\ failed' = failed
      BY <1>1, <2>1
    <3>2. Matches(C)' /\ (failed => Missed(C))' /\ NotLive(Now.needs) = {} /\ obj' \in ObjType
          /\ obj'["blob"] = obj["blob"]
      BY <1>3, <2>1, <3>1, GiveGoes
    <3>3. Now.takes \subseteq Objects
      BY <1>3 DEF StepRec
    <3> QED BY <1>3, <3>1, <3>2, <3>3
  <2>2. CASE Now.do # "give"
    <3>1. /\ owned' = owned /\ failed' = failed /\ Now.do \in {"call", "void"}
          /\ obj' = [o \in DOMAIN obj |-> IF o \in Now.takes THEN "live" ELSE obj[o]]
      BY <1>1, <2>2
    <3> QED BY <1>3, <3>1, CallGoes
  <2> QED BY <2>1, <2>2
<1>6. misuse' = {}
  BY <1>1, <1>3, <1>5
<1>7. failed' => op \in VerifyOps /\ Missed(C)'
  BY <1>1, <1>3, <1>5
<1>8. verdict' = "none"
  BY <1>1, <1>3
<1> QED BY <1>1, <1>2, <1>4, <1>5, <1>6, <1>7, <1>8, GoesOn

LEMMA FailsInv == ASSUME CliInv, Fails PROVE CliInv'
<1>1. /\ pc = "call" /\ at < Len(Steps) /\ Now.do = "call" /\ failed' = TRUE
      /\ misuse' = misuse \cup [what : {"used"}, obj : NotLive(Now.needs)]
      /\ UNCHANGED <<cli, op, obj, owned, verdict, reply>>
  BY DEF Fails, Calling, Misused
<1>2. PICK L : Follows(L)
  BY <1>1, InACall
<1> DEFINE A == L[at + 1]
           B == L[(at + 1) + 1]
<1>3. /\ Now \in StepRec /\ verdict = "none" /\ A \in Outline /\ B \in Outline /\ Matches(A)
      /\ Passes(Now, A, B) /\ LeavesWell(Now, Fn, A) /\ obj \in ObjType /\ obj["blob"] = "live"
      /\ misuse = {} /\ AtTheEnd = Fn.tail /\ owned \subseteq Objects
      /\ out \in [Parts -> {"nobody", "an earlier request", "this request"}]
  BY <1>1, <1>2, NextPlace, InACall DEF CliInv, Types
<1>4. misuse' = {}
  <2>1. Now.needs \subseteq A.sure
    BY <1>1, <1>3 DEF Passes
  <2>2. NotLive(Now.needs) = {}
    BY <1>3, <2>1 DEF NotLive, Matches
  <2> QED BY <1>1, <1>3, <2>2
<1> HIDE DEF A
<1>5. CASE Now.orelse = "next"
  <2>1. at' = at + 1 /\ UNCHANGED <<pc, todo, out, n, rc>>
    BY <1>5 DEF Fails
  <2> SUFFICES ASSUME NEW C, C = L[(at + 1) + 1], Passes(Now, A, C), C \in Outline PROVE CliInv'
    BY <1>3
  <2>2. MayGoOn(Now)
    BY <1>1, <1>5 DEF MayGoOn
  <2>3. Matches(C)' /\ Missed(C)' /\ Now.writes = {}
    BY <1>1, <1>3, <2>2, CallMissed
  <2>4. op \in VerifyOps
    <3>1. Serves(Fn, op) /\ Steps = Fn.steps /\ at + 1 \in 1 .. Len(Steps)
      BY <1>1, <1>2, InACall, NextPlace DEF WellMade
    <3> QED BY <2>2, <3>1 DEF Serves, Now
  <2>5. obj' \in ObjType /\ obj'["blob"] = "live" /\ verdict' = "none" /\ owned' \subseteq Objects
    BY <1>1, <1>3
  <2>6. /\ out' \in [Parts -> {"nobody", "an earlier request", "this request"}]
        /\ \A p \in Parts : out[p] = "this request" => out'[p] = "this request"
        /\ \A p \in Now.writes : out'[p] = "this request"
    BY <1>3, <2>1, <2>3
  <2> QED BY <1>1, <1>2, <1>4, <2>1, <2>3, <2>4, <2>5, <2>6, GoesOn
<1>6. CASE Now.orelse # "next"
  <2> DEFINE r == IF Now.orelse = "return" /\ ~ Unwinds THEN Now.undo ELSE AtTheEnd
  <2>1. UNCHANGED at /\ Leaves(r, FALSE)
    BY <1>6 DEF Fails
  <2>2. Orderly(r, A)
    BY <1>1, <1>3, <1>6 DEF LeavesWell
  <2> HIDE DEF r
  <2> QED BY <1>1, <1>3, <1>4, <2>1, <2>2, Leaving
<1> QED BY <1>5, <1>6

LEMMA ChecksInv == ASSUME CliInv, Checks PROVE CliInv'
<1>1. /\ pc = "call" /\ at < Len(Steps) /\ Now.do = "check"
      /\ UNCHANGED <<cli, op, obj, owned, verdict, failed, misuse, reply>>
  BY DEF Checks, Calling
<1>2. PICK L : Follows(L)
  BY <1>1, InACall
<1> DEFINE A == L[at + 1]
           B == L[(at + 1) + 1]
<1>3. /\ Now \in StepRec /\ verdict = "none" /\ A \in Outline /\ B \in Outline /\ Matches(A)
      /\ Passes(Now, A, B) /\ LeavesWell(Now, Fn, A) /\ obj \in ObjType /\ obj["blob"] = "live"
      /\ misuse = {} /\ AtTheEnd = Fn.tail /\ owned \subseteq Objects
      /\ failed => op \in VerifyOps /\ Missed(A)
      /\ out \in [Parts -> {"nobody", "an earlier request", "this request"}]
  BY <1>1, <1>2, NextPlace, InACall DEF CliInv, Types, Follows
<1> HIDE DEF A
<1>4. CASE NotLive(Now.needs) = {}
  <2>1. at' = at + 1 /\ UNCHANGED <<pc, todo, out, n, rc>>
    BY <1>4 DEF Checks
  <2> SUFFICES ASSUME NEW C, C = L[(at + 1) + 1], Passes(Now, A, C), C \in Outline PROVE CliInv'
    BY <1>3
  <2>2. Matches(C)' /\ (failed => Missed(C))' /\ Now.writes = {}
    BY <1>1, <1>3, <1>4, CheckGoes
  <2>3. obj' \in ObjType /\ obj'["blob"] = "live" /\ verdict' = "none" /\ owned' \subseteq Objects
        /\ misuse' = {} /\ (failed' => op \in VerifyOps /\ Missed(C)')
    BY <1>1, <1>3, <2>2
  <2>4. /\ out' \in [Parts -> {"nobody", "an earlier request", "this request"}]
        /\ \A p \in Parts : out[p] = "this request" => out'[p] = "this request"
        /\ \A p \in Now.writes : out'[p] = "this request"
    BY <1>3, <2>1, <2>2
  <2> QED BY <1>1, <1>2, <2>1, <2>2, <2>3, <2>4, GoesOn
<1>5. CASE NotLive(Now.needs) # {}
  <2>1. UNCHANGED at /\ Leaves(AtTheEnd, FALSE)
    BY <1>5 DEF Checks
  <2>2. Orderly(AtTheEnd, A)
    BY <1>1, <1>3 DEF LeavesWell
  <2>3. misuse' = {} /\ verdict = "none"
    BY <1>1, <1>3
  <2> QED BY <1>1, <1>3, <2>1, <2>2, <2>3, Leaving
<1> QED BY <1>4, <1>5

LEMMA VerifiesInv == ASSUME CliInv, VerifiesNow PROVE CliInv'
<1>1. /\ pc = "call" /\ at < Len(Steps) /\ Now.do = "verify" /\ at' = at + 1
      /\ misuse' = misuse \cup [what : {"used"}, obj : NotLive(Now.needs)]
      /\ UNCHANGED <<cli, pc, op, todo, obj, owned, out, n, rc, failed, reply>>
  BY DEF VerifiesNow, Calling, Misused
<1>2. PICK L : Follows(L)
  BY <1>1, InACall
<1> DEFINE A == L[at + 1]
           B == L[(at + 1) + 1]
<1>3. /\ Now \in StepRec /\ A \in Outline /\ B \in Outline /\ Matches(A)
      /\ Passes(Now, A, B) /\ obj \in ObjType /\ obj["blob"] = "live"
      /\ misuse = {} /\ owned \subseteq Objects /\ (failed => Missed(A))
      /\ out \in [Parts -> {"nobody", "an earlier request", "this request"}]
  BY <1>1, <1>2, NextPlace, InACall DEF CliInv, Types, Follows
<1>4. Now.needs \subseteq A.sure /\ Now.writes = {} /\ B = A /\ A.sure = A.maybe
  BY <1>1, <1>3 DEF Passes
<1>5. misuse' = {} /\ ~ failed
  <2>1. NotLive(Now.needs) = {}
    BY <1>3, <1>4 DEF NotLive, Matches
  <2>2. ~ Missed(A)
    BY <1>4 DEF Missed
  <2>3. misuse' = {}
    BY <1>1, <1>3, <2>1
  <2>4. ~ failed
    BY <1>3, <2>2, Zenon
  <2> QED BY <2>3, <2>4
<1>6. ~ (at + 1 < Len(Steps))
  <2>1. Serves(Fn, op) /\ Steps = Fn.steps /\ at + 1 \in 1 .. Len(Steps)
    BY <1>1, <1>2, InACall, NextPlace DEF WellMade
  <2>2. at + 1 = Len(Steps)
    BY <1>1, <2>1 DEF Serves, Now
  <2>3. Len(Steps) \in Nat
    BY <1>1, InACall
  <2> QED BY <2>2, <2>3
<1> HIDE DEF A
<1> SUFFICES ASSUME NEW C, C = L[(at + 1) + 1], C = A, C \in Outline PROVE CliInv'
  BY <1>3, <1>4
<1>7. Matches(C)'
  BY <1>1, <1>3 DEF Matches
<1>8. obj' \in ObjType /\ obj'["blob"] = "live" /\ owned' \subseteq Objects /\ ~ failed'
  BY <1>1, <1>3, <1>5, Zenon
<1>9. /\ out' \in [Parts -> {"nobody", "an earlier request", "this request"}]
      /\ \A p \in Parts : out[p] = "this request" => out'[p] = "this request"
      /\ \A p \in Now.writes : out'[p] = "this request"
  BY <1>1, <1>3, <1>4
<1> QED BY <1>1, <1>2, <1>5, <1>6, <1>7, <1>8, <1>9, GoesOn

LEMMA FinishesInv == ASSUME CliInv, Finishes PROVE CliInv'
<1>1. /\ pc = "call" /\ at = Len(Steps) /\ Leaves(AtTheEnd, TRUE)
      /\ UNCHANGED <<cli, op, at, obj, owned, verdict, failed, misuse, reply>>
  BY DEF Finishes
<1>2. PICK L : Follows(L)
  BY <1>1, InACall
<1> DEFINE A == L[at + 1]
<1>3. /\ WellMade(Fn, op) /\ Steps = Fn.steps /\ AtTheEnd = Fn.tail /\ Len(Steps) \in Nat /\ misuse = {}
  BY <1>1, InACall
<1>0. /\ \A i \in 1 .. at : \A p \in Steps[i].writes : out[p] = "this request"
      /\ failed => op \in VerifyOps /\ verdict = "none"
  BY <1>1, <1>2, Zenon DEF CliInv, InCall, Follows
<1>4. A \in Outline /\ Orderly(AtTheEnd, A) /\ Matches(A)
  <2>1. at + 1 \in 1 .. Len(Steps) + 1
    BY <1>1, <1>3
  <2> QED BY <1>1, <1>2, <1>3, <2>1 DEF Follows, OutlineOf
<1> HIDE DEF A
<1>5. op \notin VerifyOps => \A p \in Covers : out[p] = "this request"
  <2>1. Covers = CoversOf(op)
    BY Zenon DEF Covers, CoversOf
  <2>2. op \notin VerifyOps => CoversOf(op) \subseteq UNION {Steps[k].writes : k \in 1 .. Len(Steps)}
    BY <1>3 DEF WellMade, Serves
  <2> SUFFICES ASSUME op \notin VerifyOps, NEW p \in CoversOf(op) PROVE out[p] = "this request"
    BY <2>1, Zenon
  <2>3. PICK k \in 1 .. Len(Steps) : p \in Steps[k].writes
    BY <2>2
  <2> QED BY <1>0, <1>1, <2>3, Zenon
<1>6. misuse' = {} /\ (verdict = "none" \/ ~ failed') /\ (op \notin VerifyOps => ~ failed')
  BY <1>0, <1>1, <1>3, Zenon
<1> QED BY <1>1, <1>4, <1>5, <1>6, Leaving

(* One release of a list: what it leaves.                                  *)
LEMMA TailOf ==
  ASSUME NEW S, NEW t \in Seq(S), t # <<>>
  PROVE  /\ Tail(t) \in Seq(S) /\ Head(t) = t[1] /\ Len(t) \in Nat /\ 1 \in 1 .. Len(t)
         /\ Len(Tail(t)) = Len(t) - 1
         /\ \A i \in 1 .. Len(Tail(t)) : i + 1 \in 1 .. Len(t) /\ Tail(t)[i] = t[i + 1]
         /\ Elems(t) = {Head(t)} \cup Elems(Tail(t))
         /\ OneEach(t) => OneEach(Tail(t)) /\ Head(t) \notin Elems(Tail(t))
<1>1. /\ Tail(t) \in Seq(S) /\ Head(t) = t[1] /\ Len(t) \in Nat /\ 1 \in 1 .. Len(t)
      /\ Len(Tail(t)) = Len(t) - 1
  BY EmptySeq
<1>2. \A i \in 1 .. Len(Tail(t)) : i + 1 \in 1 .. Len(t) /\ Tail(t)[i] = t[i + 1] /\ i + 1 # 1
  BY <1>1
<1> DEFINE u == Tail(t)
<1> HIDE DEF u
<1>3. \A i \in 1 .. Len(t) : i = 1 \/ (i - 1 \in 1 .. Len(u) /\ u[i - 1] = t[i])
  <2> SUFFICES ASSUME NEW i \in 1 .. Len(t), i # 1 PROVE i - 1 \in 1 .. Len(u) /\ u[i - 1] = t[i]
    OBVIOUS
  <2>1. i - 1 \in 1 .. Len(u) /\ (i - 1) + 1 = i
    BY <1>1 DEF u
  <2>2. u[i - 1] = t[(i - 1) + 1]
    BY <1>2, <2>1 DEF u
  <2> QED BY <2>1, <2>2
<1>4. Elems(t) = {Head(t)} \cup Elems(u)
  <2>1. \A i \in 1 .. Len(t) : t[i] = Head(t) \/ t[i] \in {u[j] : j \in 1 .. Len(u)}
    BY <1>1, <1>3
  <2>2. \A j \in 1 .. Len(u) : u[j] \in {t[i] : i \in 1 .. Len(t)}
    BY <1>2 DEF u
  <2>3. Head(t) \in {t[i] : i \in 1 .. Len(t)}
    BY <1>1
  <2> QED BY <2>1, <2>2, <2>3 DEF Elems
<1>5. ASSUME OneEach(t) PROVE OneEach(u) /\ Head(t) \notin Elems(u)
  <2>1. ASSUME NEW i \in 1 .. Len(u), NEW j \in 1 .. Len(u), u[i] = u[j] PROVE i = j
    <3>1. i + 1 \in 1 .. Len(t) /\ j + 1 \in 1 .. Len(t) /\ t[i + 1] = t[j + 1]
      BY <1>2, <2>1 DEF u
    <3>2. i + 1 = j + 1
      BY <1>5, <3>1 DEF OneEach
    <3> QED BY <3>2
  <2>2. ASSUME NEW i \in 1 .. Len(u), u[i] = Head(t) PROVE FALSE
    <3>1. i + 1 \in 1 .. Len(t) /\ t[i + 1] = t[1] /\ i + 1 # 1
      BY <1>1, <1>2, <2>2 DEF u
    <3> QED BY <1>1, <1>5, <3>1 DEF OneEach
  <2> QED BY <2>1, <2>2 DEF OneEach, Elems
<1> QED BY <1>1, <1>2, <1>4, <1>5 DEF u

LEMMA ReleasesInv == ASSUME CliInv, Releases PROVE CliInv'
<1> DEFINE o == Head(todo)
           along == IF o = Owner /\ obj[o] = "live" THEN owned ELSE {}
<1>1. /\ pc = "free" /\ todo # <<>> /\ todo' = Tail(todo)
      /\ UNCHANGED <<cli, pc, op, at, owned, out, n, rc, verdict, failed, reply>>
  BY DEF Releases
<1>2. /\ obj[o] = "live" =>
           /\ obj' = [x \in DOMAIN obj |-> IF x \in {o} \cup along THEN "freed" ELSE obj[x]]
           /\ misuse' = misuse \cup [what : {"released twice"}, obj : {x \in along : obj[x] = "freed"}]
      /\ obj[o] # "live" =>
           /\ obj' = obj
           /\ misuse' = misuse \cup [what : {"released"}, obj : IF NoRelease(o) THEN {} ELSE {o}]
  BY DEF Releases, Misused
<1>3. /\ Types /\ Pending /\ Settled /\ misuse = {} /\ reply.text = "none"
  BY <1>1 DEF CliInv
<1>4. /\ obj \in ObjType /\ todo \in Seq(Resources) /\ owned \subseteq Objects
      /\ OneEach(todo)
      /\ \A x \in Resources : obj[x] = "live" => x \in Elems(todo)
      /\ \A x \in Elems(todo) : obj[x] = "live" \/ NoRelease(x)
      /\ \A x \in Resources : obj[x] = "given" => x \in owned /\ obj[Owner] = "live"
      /\ obj[Owner] = "live" =>
           /\ Owner \notin owned /\ \A x \in owned : obj[x] = "given"
           /\ \A i, j \in 1 .. Len(todo) : todo[i] = Owner /\ i < j => todo[j] \notin owned
  BY <1>3 DEF Types, Pending, ObjType
<1>5. /\ Tail(todo) \in Seq(Resources) /\ o = todo[1] /\ 1 \in 1 .. Len(todo)
      /\ \A i \in 1 .. Len(Tail(todo)) : i + 1 \in 1 .. Len(todo) /\ Tail(todo)[i] = todo[i + 1]
      /\ Elems(todo) = {o} \cup Elems(Tail(todo))
      /\ OneEach(Tail(todo)) /\ o \notin Elems(Tail(todo))
  BY <1>1, <1>4, TailOf
<1>6. o \in Resources /\ o \in Elems(todo)
  BY <1>1, <1>4, <1>5
<1>7. along \subseteq owned /\ (along # {} => o = Owner /\ obj[Owner] = "live" /\ along = owned)
      /\ (obj[o] = "live" /\ o = Owner => along = owned)
  OBVIOUS
<1> HIDE DEF o, along
<1>8. misuse' = {}
  <2>1. CASE obj[o] = "live"
    <3>1. {x \in along : obj[x] = "freed"} = {}
      BY <1>4, <1>7
    <3> QED BY <1>2, <1>3, <2>1, <3>1
  <2>2. CASE obj[o] # "live"
    BY <1>2, <1>3, <1>4, <1>6, <2>2
  <2> QED BY <2>1, <2>2
<1>9. Owner \in Resources /\ Owner \in Objects /\ DOMAIN obj = Objects \cup {"blob"} /\ Resources \subseteq DOMAIN obj
  BY <1>4, Places DEF ObjType
(* Elements behind the owner are none of those it frees along.             *)
<1>10. \A x \in Elems(Tail(todo)) : x \notin along
  <2> SUFFICES ASSUME NEW i \in 1 .. Len(Tail(todo)), Tail(todo)[i] \in along PROVE FALSE
    BY DEF Elems
  <2>1. o = Owner /\ obj[Owner] = "live" /\ along = owned
    BY <1>7
  <2>2. i + 1 \in 1 .. Len(todo) /\ Tail(todo)[i] = todo[i + 1] /\ 1 < i + 1
    BY <1>5
  <2> QED BY <1>4, <1>5, <2>1, <2>2
<1>11. /\ obj' \in ObjType
       /\ \A x \in Resources : obj'[x] = "live" => obj[x] = "live" /\ x # o
       /\ \A x \in Elems(Tail(todo)) : obj'[x] = obj[x]
       /\ \A x \in Resources : obj'[x] = "given" => obj[x] = "given" /\ obj'[Owner] = "live"
       /\ obj'[Owner] = "live" => obj[Owner] = "live" /\ \A x \in owned : obj'[x] = obj[x]
  <2>1. CASE obj[o] = "live"
    <3>1. \A x \in Objects \cup {"blob"} : obj'[x] = IF x \in {o} \cup along THEN "freed" ELSE obj[x]
      BY <1>2, <1>9, <2>1
    <3>2. obj' \in ObjType
      BY <1>2, <1>4, <1>9, <2>1 DEF ObjType
    <3>3. \A x \in Elems(Tail(todo)) : x \in Objects \cup {"blob"} /\ x # o
      BY <1>5, <1>9 DEF Elems
    <3>4. \A x \in Elems(Tail(todo)) : obj'[x] = obj[x]
      BY <1>10, <3>1, <3>3
    <3>5. \A x \in Resources : obj'[x] = "live" => obj[x] = "live" /\ x # o
      BY <1>9, <3>1
    <3>6. ASSUME NEW x \in Resources, obj'[x] = "given" PROVE obj[x] = "given" /\ obj'[Owner] = "live"
      <4>1. obj[x] = "given" /\ x \notin along /\ x # o
        BY <1>9, <3>1, <3>6
      <4>2. x \in owned /\ obj[Owner] = "live"
        BY <1>4, <4>1
      <4>3. o # Owner
        BY <1>7, <2>1, <4>1, <4>2
      <4>4. along = {}
        BY <1>7, <4>3
      <4> QED BY <1>9, <3>1, <4>1, <4>2, <4>3, <4>4
    <3>7. ASSUME obj'[Owner] = "live" PROVE obj[Owner] = "live" /\ \A x \in owned : obj'[x] = obj[x]
      <4>1. obj[Owner] = "live" /\ Owner # o
        BY <1>9, <3>1, <3>7
      <4>2. along = {}
        BY <1>7, <4>1
      <4>3. \A x \in owned : x # o
        BY <1>4, <2>1, <4>1
      <4> QED BY <1>4, <3>1, <4>1, <4>2, <4>3
    <3> QED BY <3>2, <3>4, <3>5, <3>6, <3>7
  <2>2. CASE obj[o] # "live"
    BY <1>2, <1>4, <2>2
  <2> QED BY <2>1, <2>2
<1>12. Pending'
  <2>1. \A x \in Resources : obj'[x] = "live" => x \in Elems(Tail(todo))
    BY <1>4, <1>5, <1>11
  <2>2. ASSUME NEW x \in Elems(Tail(todo)) PROVE obj'[x] = "live" \/ NoRelease(x)'
    <3>1. x \in Elems(todo) /\ obj'[x] = obj[x]
      BY <1>5, <1>11
    <3>2. (Pointers' <=> Pointers) /\ (Unwinds' <=> Unwinds)
      BY <1>1 DEF Pointers, Unwinds
    <3>3. NoRelease(x) => NoRelease(x)'
      BY <3>1, <3>2 DEF NoRelease
    <3> QED BY <1>4, <3>1, <3>3
  <2>3. \A x \in Resources : obj'[x] = "given" => x \in owned' /\ obj'[Owner] = "live"
    BY <1>1, <1>4, <1>11
  <2>4. ASSUME obj'[Owner] = "live"
        PROVE  /\ Owner \notin owned' /\ \A x \in owned' : obj'[x] = "given"
               /\ \A i, j \in 1 .. Len(Tail(todo)) :
                    Tail(todo)[i] = Owner /\ i < j => Tail(todo)[j] \notin owned'
    <3>1. obj[Owner] = "live" /\ owned' = owned /\ \A x \in owned : obj'[x] = obj[x]
      BY <1>1, <1>11, <2>4
    <3>2. ASSUME NEW i \in 1 .. Len(Tail(todo)), NEW j \in 1 .. Len(Tail(todo)),
                 Tail(todo)[i] = Owner, i < j
          PROVE  Tail(todo)[j] \notin owned
      <4>1. /\ i + 1 \in 1 .. Len(todo) /\ j + 1 \in 1 .. Len(todo) /\ i + 1 < j + 1
            /\ todo[i + 1] = Owner /\ Tail(todo)[j] = todo[j + 1]
        BY <1>5, <3>2
      <4> QED BY <1>4, <3>1, <4>1
    <3> QED BY <1>4, <3>1, <3>2
  <2>5. todo' = Tail(todo)
    BY <1>1
  <2> QED BY <1>5, <2>1, <2>2, <2>3, <2>4, <2>5 DEF Pending
<1>13. Types'
  <2>1. Steps' = Steps
    BY <1>1, SameFunction DEF Steps
  <2> QED BY <1>1, <1>3, <1>5, <1>11, <2>1, Zenon DEF Types, ObjType
<1>14. Settled'
  BY <1>1, <1>3, Zenon DEF Settled
<1> QED BY <1>1, <1>3, <1>8, <1>12, <1>13, <1>14 DEF CliInv, InCall

LEMMA ReleasedInv == ASSUME CliInv, Released PROVE CliInv'
<1>1. /\ pc = "free" /\ todo = <<>> /\ pc' = "print"
      /\ UNCHANGED <<cli, op, at, todo, obj, owned, out, n, rc, verdict, failed, misuse, reply>>
  BY DEF Released
<1>2. /\ Types /\ Pending /\ Settled /\ misuse = {} /\ reply.text = "none"
  BY <1>1 DEF CliInv
<1>3. \A o \in Resources : obj[o] \in {"unset", "freed"}
  <2>1. Elems(todo) = {}
    BY <1>1 DEF Elems
  <2>2. Owner \in Resources /\ obj \in ObjType
    BY <1>2, Places DEF Types, ObjType
  <2>3. \A o \in Resources : obj[o] # "live" /\ obj[o] # "given"
    BY <1>2, <2>1, <2>2 DEF Pending
  <2>4. \A o \in Resources : obj[o] \in {"unset", "live", "given", "freed"}
    BY <2>2 DEF ObjType
  <2> QED BY <2>3, <2>4
<1>4. Types'
  <2>1. Steps' = Steps
    BY <1>1, SameFunction DEF Steps
  <2> QED BY <1>1, <1>2, <2>1, Zenon DEF Types
<1>5. Settled'
  BY <1>1, <1>2, Zenon DEF Settled
<1> QED BY <1>1, <1>2, <1>3, <1>4, <1>5 DEF CliInv, InCall

LEMMA PrintsInv == ASSUME CliInv, Prints PROVE CliInv'
<1>1. /\ pc = "print" /\ pc' = "read"
      /\ UNCHANGED <<cli, op, at, todo, obj, owned, out, n, rc, verdict, failed, misuse>>
      /\ reply' = CASE rc = -2 -> [text |-> "NA"]
                    [] rc = -1 -> [text |-> "ERR"]
                    [] OTHER   -> [text |-> "hex", by |-> {out[p] : p \in n},
                                   accept |-> Accepts(verdict)]
  BY DEF Prints
<1>2. /\ Types /\ Settled /\ misuse = {} /\ \A o \in Resources : obj[o] \in {"unset", "freed"}
  BY <1>1 DEF CliInv
<1>3. rc \in {0, -1, -2} /\ ((n = {}) <=> (rc # 0))
  BY <1>2, Zenon DEF Types
<1>4. Answered'
  <2>1. CASE rc = -2
    <3>1. reply' = [text |-> "NA"]
      BY <1>1, <2>1
    <3>2. reply'.text = "NA"
      BY <3>1
    <3> QED BY <3>2 DEF Answered, ReplyIsFresh, AcceptsOnlyVerified
  <2>2. CASE rc = -1
    <3>1. reply' = [text |-> "ERR"]
      BY <1>1, <2>2
    <3>2. reply'.text = "ERR"
      BY <3>1
    <3>3. op \notin VerifyOps /\ op' = op
      BY <1>1, <1>2, <2>2, Zenon DEF Settled
    <3> QED BY <3>2, <3>3 DEF Answered, ReplyIsFresh, AcceptsOnlyVerified
  <2>3. CASE rc = 0
    <3>1. reply' = [text |-> "hex", by |-> {out[p] : p \in n}, accept |-> Accepts(verdict)]
      BY <1>1, <2>3
    <3>2. reply'.text = "hex" /\ reply'.by = {out[p] : p \in n} /\ reply'.accept = Accepts(verdict)
      BY <3>1
    <3>3. n # {} /\ \A p \in n : out[p] = "this request"
      BY <1>2, <1>3, <2>3 DEF Settled
    <3>4. reply'.by = {"this request"}
      BY <3>2, <3>3
    <3>5. reply'.accept => verdict = "valid"
      BY <3>2 DEF Accepts
    <3>6. /\ op \notin VerifyOps => ~ failed
          /\ op \in VerifyOps => (verdict = "valid" => ~ failed)
      BY <1>2, <2>3, Zenon DEF Settled
    <3>7. reply'.text # "ERR" /\ op' = op /\ verdict' = verdict /\ failed' = failed
      BY <1>1, <3>2
    <3>8. ReplyIsFresh'
      BY <3>4, <3>6, <3>7, Zenon DEF ReplyIsFresh
    <3>9. AcceptsOnlyVerified'
      BY <3>5, <3>6, <3>7, Zenon DEF AcceptsOnlyVerified
    <3> QED BY <3>8, <3>9 DEF Answered
  <2> QED BY <1>3, <2>1, <2>2, <2>3
<1>5. Types'
  <2>1. Steps' = Steps
    BY <1>1, SameFunction DEF Steps
  <2> QED BY <1>1, <1>2, <2>1, Zenon DEF Types
<1> QED BY <1>1, <1>2, <1>4, <1>5 DEF CliInv, InCall

LEMMA EndsInv == ASSUME CliInv, EndOfInput PROVE CliInv'
<1>1. /\ pc = "read" /\ pc' = "exited"
      /\ UNCHANGED <<cli, op, at, todo, obj, owned, out, n, rc, verdict, failed, misuse, reply>>
  BY DEF EndOfInput
<1>2. Steps' = Steps
  BY <1>1, SameFunction DEF Steps
<1>3. Types'
  BY <1>1, <1>2, Zenon DEF CliInv, Types
<1>4. Answered'
  BY <1>1 DEF CliInv, Answered, ReplyIsFresh, AcceptsOnlyVerified
<1> QED BY <1>1, <1>3, <1>4 DEF CliInv, InCall

LEMMA StaysInv == ASSUME CliInv, UNCHANGED cvars PROVE CliInv'
<1>1. UNCHANGED <<cli, pc, op, at, todo, obj, owned, out, n, rc, verdict, failed, misuse, reply>>
  BY DEF cvars
<1>2. Steps' = Steps /\ Fn' = Fn
  BY <1>1, SameFunction DEF Steps, Fn
<1>3. Types' <=> Types
  BY <1>1, <1>2 DEF Types
<1>4. \A L : OutlineOf(L, Fn)' <=> OutlineOf(L, Fn)
  <2>1. \A L, g : OutlineOf(L, g)' <=> OutlineOf(L, g)
    BY <1>1, SameTables
  <2> QED BY <1>2, <2>1, Zenon
<1>5. \A A : (Matches(A)' <=> Matches(A)) /\ (Missed(A)' <=> Missed(A))
  BY <1>1 DEF Matches, Missed
<1>6. \A L : Follows(L)' <=> Follows(L)
  BY <1>1, <1>4, <1>5 DEF Follows
<1>7. InCall' <=> InCall
  BY <1>1, <1>2, <1>6 DEF InCall
<1>8. \A x : NoRelease(x)' <=> NoRelease(x)
  BY <1>1 DEF NoRelease, Pointers, Unwinds
<1>9. Pending' <=> Pending
  BY <1>1, <1>8 DEF Pending
<1>10. Settled' <=> Settled
  BY <1>1 DEF Settled
<1>11. Answered' <=> Answered
  BY <1>1 DEF Answered, ReplyIsFresh, AcceptsOnlyVerified
<1> QED BY <1>1, <1>3, <1>7, <1>9, <1>10, <1>11 DEF CliInv

LEMMA NextInv == CliInv /\ [Next]_cvars => CliInv'
<1> SUFFICES ASSUME CliInv, [Next]_cvars PROVE CliInv'
  OBVIOUS
<1> QED BY ReadInv, EndsInv, SucceedsInv, FailsInv, ChecksInv, VerifiesInv, FinishesInv,
           ReleasesInv, ReleasedInv, PrintsInv, StaysInv DEF Next, Exited

LEMMA CliInvariant == Spec => []CliInv
BY InitInv, NextInv, PTL DEF Spec

-----------------------------------------------------------------------------
(* TypeOK of compute_*.c: *n covers something exactly when the return code *)
(* is 0, and a function is never left without its blob to free.            *)
THEOREM CliTypes == Spec => []TypeOK
<1>1. CliInv => TypeOK
  <2> SUFFICES ASSUME CliInv PROVE TypeOK
    OBVIOUS
  <2>1. Types /\ InCall
    BY DEF CliInv
  <2> QED BY <2>1, Zenon DEF Types, InCall, TypeOK
<1> QED BY <1>1, CliInvariant, PTL

(* ReleasedOnce: whichever call of whichever function of the six programs  *)
(* fails, what it has acquired is released once, in an order that leaves   *)
(* nothing to an owner twice, and nothing else is released or used.        *)
THEOREM CliReleasesOnce == Spec => []ReleasedOnce
<1>1. CliInv => ReleasedOnce
  BY DEF CliInv, ReleasedOnce
<1> QED BY <1>1, CliInvariant, PTL

(* Every reply still standing is one that may stand.                       *)
LEMMA InvAnswered == CliInv => Answered
<1> SUFFICES ASSUME CliInv PROVE Answered
  OBVIOUS
<1>1. CASE pc \in {"read", "exited"}
  BY <1>1 DEF CliInv
<1>2. CASE reply.text = "none"
  BY <1>2 DEF Answered, ReplyIsFresh, AcceptsOnlyVerified
<1> QED BY <1>1, <1>2 DEF CliInv, Types

(* ReplyIsFresh: no line of hexadecimal holds a byte an earlier request    *)
(* left in out[], and no computation with a failed call prints one.        *)
THEOREM CliRepliesFresh == Spec => []ReplyIsFresh
<1>1. CliInv => ReplyIsFresh
  BY InvAnswered DEF Answered
<1> QED BY <1>1, CliInvariant, PTL

(* AcceptsOnlyVerified: a signature is accepted only when the library said *)
(* it is valid and no call on the way failed.                              *)
THEOREM CliAcceptsVerified == Spec => []AcceptsOnlyVerified
<1>1. CliInv => AcceptsOnlyVerified
  BY InvAnswered DEF Answered
<1> QED BY <1>1, CliInvariant, PTL
=============================================================================
