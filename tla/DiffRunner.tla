----------------------------- MODULE DiffRunner -----------------------------
(***************************************************************************)
(* The subprocess differential runner, diff_subproc_runner.c, together     *)
(* with the batch loop of the compute CLIs it drives.                      *)
(*                                                                         *)
(* The runner is sequential: it draws all vectors and answers them with    *)
(* in-process OpenSSL (Build), runs one child after the other on the       *)
(* request file (Spawn .. Reap), judges the vectors (JudgeVector) and      *)
(* prints a summary (Summarise).  While it collects, one child runs next   *)
(* to it: it reads request lines, appends replies to its stdio buffer,     *)
(* flushes that to a pipe of bounded capacity, and may die or hang at any  *)
(* point.  Vectors are numbered 1 .. N, backends 0 .. NB-1.                *)
(***************************************************************************)
EXTENDS DiffVote, Sequences

CONSTANTS
  N,             \* argv[1], the number of vectors
  NB,            \* argc - 3, the number of backends
  MaxVoters,     \* 16, the size of vv[], vn[] and vb[]
  PipeCap,       \* lines the pipe holds
  BufCap,        \* backend -> lines its stdio buffer holds; 1: flush per line
  Supports,      \* backend -> the kinds it implements; it replies NA to others
  Inject,        \* backend -> fault injection: "off", "every" or "first" reply
  DrawnKinds,    \* the kinds op = rnd() % CMF_NUM_OPS can give
  MaxFaulty,     \* how many implementations may compute wrong answers
  Mortal,        \* backends that may crash, or fail to exec
  Stuck,         \* backends that may hang
  Chatty,        \* backends that print one line of their own at exit
  SyscallsFail   \* whether open, pipe, fork or fdopen may fail

Backends == 0 .. NB - 1
Voters   == {Ref} \cup Backends
Vectors  == 1 .. N

ASSUME ConstantsOK ==
  /\ N \in Nat /\ NB \in Nat /\ MaxFaulty \in Nat
  /\ MaxVoters \in Nat \ {0} /\ PipeCap \in Nat \ {0}
  /\ BufCap \in [Backends -> Nat \ {0}]
  /\ Supports \in [Backends -> SUBSET Kinds]
  /\ Inject \in [Backends -> {"off", "every", "first"}]
  /\ DrawnKinds \subseteq Kinds /\ DrawnKinds # {}
  /\ Mortal \subseteq Backends /\ Stuck \subseteq Backends /\ Chatty \subseteq Backends
  /\ SyscallsFail \in BOOLEAN

VARIABLES
  pc,            \* where main() is
  faulty,        \* which implementations are wrong (fixed by the environment)
  req, ops, refhex,          \* the request file; ops[] and refhex[]
  tmpfile,       \* whether /tmp/cmf_diff_req_* exists
  b,             \* the loop variable a - 3
  bo, bprod, bna,            \* collected replies, bprod[], bna[]
  child,         \* state of the current child process
  cin, obuf,     \* request lines it has read; its unflushed stdout
  died,          \* backends whose process crashed or never started
  pipe, rd, wr,  \* lines in the pipe; read end open; holders of the write end
  iv,            \* vectors judged so far
  bdiv, failures, refOutlier,
  reports,       \* the CMF_VIOLATION lines printed
  exit           \* the exit status, -1 while running

setupVars == <<faulty, req, ops, refhex>>
tableVars == <<bo, bprod, bna>>
childVars == <<child, cin, obuf, died>>
ioVars    == <<pipe, rd, wr>>
judgeVars == <<iv, bdiv, failures, refOutlier, reports>>
vars == <<pc, setupVars, tmpfile, b, tableVars, childVars, ioVars, judgeVars, exit>>

-----------------------------------------------------------------------------
(* What the implementations compute.  "h1" is the right hex of a compute   *)
(* vector, "h2" and "h3" wrong ones, "ZERO" the all-zero X25519 secret,    *)
(* "FLIP" a reply whose first byte a fault-injected CLI has corrupted,     *)
(* "CUT" the head of a line whose tail never reached the pipe.             *)

Truths(kind) ==
  CASE kind = "x25519" -> {"h1", "ZERO"}
    [] kind = "verify" -> {"01", "00"}
    [] OTHER           -> {"h1"}

WrongAnswers(kind) ==
  CASE kind = "x25519" -> {"h1", "h2", "ZERO", "ERR"}
    [] kind = "verify" -> {"01", "00", "ERR"}
    [] OTHER           -> {"h2", "h3", "ERR"}

(* A right implementation may reject a low-order point, or report a bad    *)
(* signature by raising an error.                                          *)
RightAnswers(truth) == {truth} \cup IF truth \in {"ZERO", "00"} THEN {"ERR"} ELSE {}

Answers(who, kind, truth) ==
  IF who \in faulty THEN WrongAnswers(kind) ELSE RightAnswers(truth)

(* Mutation: every CLI corrupts only the reply to its first line.          *)
Inject1_FirstOnly(who, n, x) ==
  IF Inject[who] # "off" /\ n = 1 /\ x \notin {"NA", "ERR"} THEN "FLIP" ELSE x

(* The dispatch of a compute CLI on one request line: NA for what it does  *)
(* not implement, then the self-test fault.  The C, Java and Python CLIs   *)
(* corrupt every successful reply, the Go and Rust ones only the reply to  *)
(* the first line, and only when that is not NA.                           *)
Inject1(who, n, x) ==
  CASE Inject[who] = "every" /\ x \notin {"NA", "ERR"}    -> "FLIP"
    [] Inject[who] = "first" /\ n = 1 /\ x # "NA"         -> "FLIP"
    [] OTHER                                              -> x

Replies(who, n) ==
  LET kind == req[n].op
  IN  IF kind \notin Supports[who] THEN {"NA"}
      ELSE {Inject1(who, n, x) : x \in Answers(who, kind, req[n].truth)}

Texts == {"h1", "h2", "h3", "ZERO", "01", "00", "ERR", "NA", "FLIP", "CUT", "EXTRA"}
Reply == [n : 0 .. N, v : Texts]

-----------------------------------------------------------------------------
Init ==
  /\ pc = "build"
  /\ faulty \in {F \in SUBSET Voters : Cardinality(F) <= MaxFaulty}
  /\ req = <<>> /\ ops = <<>> /\ refhex = <<>>
  /\ tmpfile = TRUE                                        \* mkstemp
  /\ b = 0
  /\ bo = [x \in Backends |-> <<>>]
  /\ bprod = [x \in Backends |-> 0]
  /\ bna = [x \in Backends |-> 0]
  /\ child = "none" /\ cin = 0 /\ obuf = <<>> /\ died = {}
  /\ pipe = <<>> /\ rd = FALSE /\ wr = {}
  /\ iv = 0
  /\ bdiv = [x \in Backends |-> 0]
  /\ failures = 0 /\ refOutlier = 0 /\ reports = {}
  /\ exit = -1

-----------------------------------------------------------------------------
(* Mutation: "i <= N" in the loop that draws the vectors.                  *)
BuildVector_OneTooMany(kind, truth, x) ==
  /\ pc = "build" /\ Len(refhex) <= N
  /\ ops' = Append(ops, kind)
  /\ req' = Append(req, [op |-> kind, truth |-> truth])
  /\ refhex' = Append(refhex, Normalize(kind, x))
  /\ UNCHANGED <<pc, faulty, tmpfile, b, tableVars, childVars, ioVars, judgeVars, exit>>

(* Phase 1: draw a vector, write its request line, answer it in process.   *)
(* The reference verdict of a verify vector is what OpenSSL says of its    *)
(* own, possibly tampered, signature; a compute failure is "ERR".          *)
BuildVector(kind, truth, x) ==
  /\ pc = "build" /\ Len(refhex) < N
  /\ ops' = Append(ops, kind)
  /\ req' = Append(req, [op |-> kind, truth |-> truth])
  /\ refhex' = Append(refhex, IF kind = "verify" /\ x # "01" THEN "00"
                              ELSE Normalize(kind, x))
  /\ UNCHANGED <<pc, faulty, tmpfile, b, tableVars, childVars, ioVars, judgeVars, exit>>

(* Mutation: "continue" before the request line is printed.                *)
BuildEmptyVerify_NoLine ==
  /\ pc = "build" /\ Len(refhex) < N
  /\ "verify" \in DrawnKinds
  /\ ops' = Append(ops, "verify")
  /\ refhex' = Append(refhex, "00")
  /\ UNCHANGED <<pc, faulty, req, tmpfile, b, tableVars, childVars, ioVars, judgeVars, exit>>

(* The payload generator of a verify vector failed: an empty payload is    *)
(* still sent "so the line count stays in lockstep".                       *)
BuildEmptyVerify ==
  /\ pc = "build" /\ Len(refhex) < N
  /\ "verify" \in DrawnKinds
  /\ ops' = Append(ops, "verify")
  /\ req' = Append(req, [op |-> "verify", truth |-> "00"])
  /\ refhex' = Append(refhex, "00")
  /\ UNCHANGED <<pc, faulty, tmpfile, b, tableVars, childVars, ioVars, judgeVars, exit>>

CloseRequests ==
  /\ pc = "build" /\ Len(refhex) = N
  /\ pc' = "next"
  /\ UNCHANGED <<setupVars, tmpfile, b, tableVars, childVars, ioVars, judgeVars, exit>>

Build ==
  \/ \E kind \in DrawnKinds : \E truth \in Truths(kind) :
       \E x \in Answers(Ref, kind, truth) : BuildVector(kind, truth, x)
  \/ BuildEmptyVerify
  \/ CloseRequests

-----------------------------------------------------------------------------
(* Phase 2, the parent: one backend after the other.                       *)

(* open, pipe, fork; the child owns a copy of the write end, the parent    *)
(* another one.                                                            *)
Spawn ==
  /\ pc = "next" /\ b < NB
  /\ pc' = "forked"
  /\ child' = "run" /\ cin' = 0 /\ obuf' = <<>>
  /\ pipe' = <<>> /\ rd' = TRUE /\ wr' = {"parent", "child"}
  /\ UNCHANGED <<setupVars, tmpfile, b, tableVars, died, judgeVars, exit>>

(* A bad specification, or open, pipe or fork failing: return 2 at once.   *)
SpawnFails ==
  /\ SyscallsFail
  /\ pc = "next" /\ b < NB
  /\ pc' = "done" /\ exit' = 2
  /\ UNCHANGED <<setupVars, tmpfile, b, tableVars, childVars, ioVars, judgeVars>>

(* Mutation: the parent keeps its copy of the write end open.              *)
CloseWriteEnd_Kept ==
  /\ pc = "forked"
  /\ pc' = "collect"
  /\ UNCHANGED <<setupVars, tmpfile, b, tableVars, childVars, ioVars, judgeVars, exit>>

(* close(fin); close(fd[1]); fdopen(fd[0]).                                *)
CloseWriteEnd ==
  /\ pc = "forked"
  /\ wr' = wr \ {"parent"}
  /\ pc' = "collect"
  /\ UNCHANGED <<setupVars, tmpfile, b, tableVars, childVars, pipe, rd, judgeVars, exit>>

(* fdopen failed: close(fd[0]), and the child is still waited for.         *)
FdopenFails ==
  /\ SyscallsFail
  /\ pc = "forked"
  /\ wr' = wr \ {"parent"}
  /\ rd' = FALSE /\ pipe' = <<>>
  /\ pc' = "giveup"
  /\ UNCHANGED <<setupVars, tmpfile, b, tableVars, childVars, judgeVars, exit>>

(* One turn of "while (i < N && getline > 0)": NA is stored and counted, a *)
(* reply to operation 12 is normalised, anything else is stored as it is.  *)
ReadReply ==
  LET i == Len(bo[b]) + 1
      x == Head(pipe)
  IN  /\ pc = "collect" /\ Len(bo[b]) < N
      /\ pipe # <<>>
      /\ pipe' = Tail(pipe)
      /\ IF x.v = "NA"
         THEN /\ bo' = [bo EXCEPT ![b] = Append(@, x)]
              /\ bna' = [bna EXCEPT ![b] = @ + 1]
         ELSE /\ bo' = [bo EXCEPT ![b] = Append(@, [x EXCEPT !.v = Normalize(ops[i], x.v)])]
              /\ UNCHANGED bna
      /\ UNCHANGED <<pc, setupVars, tmpfile, b, bprod, childVars, rd, wr, judgeVars, exit>>

(* Mutation: a momentarily empty pipe is taken for the end of the output.  *)
EndOfFile_Eager == pipe = <<>>

(* End of file needs an empty pipe nobody can write to any more.           *)
EndOfFile == pipe = <<>> /\ wr = {}

(* The loop ends; fclose(p) closes the read end before waitpid.            *)
CloseReadEnd ==
  /\ pc = "collect"
  /\ Len(bo[b]) = N \/ EndOfFile
  /\ pc' = "wait"
  /\ rd' = FALSE /\ pipe' = <<>>
  /\ UNCHANGED <<setupVars, tmpfile, b, tableVars, childVars, wr, judgeVars, exit>>

(* Mutation: the child is not waited for.                                  *)
Reap_NoWait ==
  /\ pc = "wait"
  /\ bprod' = [bprod EXCEPT ![b] = Len(bo[b])]
  /\ b' = b + 1
  /\ pc' = "next"
  /\ UNCHANGED <<setupVars, tmpfile, bo, bna, childVars, ioVars, judgeVars, exit>>

(* waitpid returns when the child is gone; its status is not looked at.    *)
Reap ==
  /\ pc = "wait" /\ child = "zombie"
  /\ child' = "none"
  /\ bprod' = [bprod EXCEPT ![b] = Len(bo[b])]
  /\ b' = b + 1
  /\ pc' = "next"
  /\ UNCHANGED <<setupVars, tmpfile, bo, bna, cin, obuf, died, ioVars, judgeVars, exit>>

(* The waitpid of the fdopen error path, then return 2.                    *)
ReapAndGiveUp ==
  /\ pc = "giveup" /\ child = "zombie"
  /\ child' = "none"
  /\ pc' = "done" /\ exit' = 2
  /\ UNCHANGED <<setupVars, tmpfile, b, tableVars, cin, obuf, died, ioVars, judgeVars>>

StartJudging ==
  /\ pc = "next" /\ b = NB
  /\ pc' = "judge"
  /\ UNCHANGED <<setupVars, tmpfile, b, tableVars, childVars, ioVars, judgeVars, exit>>

-----------------------------------------------------------------------------
(* Phase 2, the child: the batch loop of a compute CLI.                    *)

(* Read one request line, append the reply to stdout.  stdio writes it out *)
(* when the buffer is full and when the input is exhausted; a CLI that     *)
(* flushes every line has a buffer of one.                                 *)
ChildCompute ==
  /\ child = "run" /\ cin < Len(req)
  /\ cin' = cin + 1
  /\ \E x \in Replies(b, cin + 1) : obuf' = Append(obuf, [n |-> cin + 1, v |-> x])
  /\ child' = IF Len(obuf') = BufCap[b] \/ cin' = Len(req) THEN "flush" ELSE "run"
  /\ UNCHANGED <<pc, setupVars, tmpfile, b, tableVars, died, ioVars, judgeVars, exit>>

(* write(2) blocks while the pipe is full.                                 *)
ChildWrite ==
  /\ child \in {"flush", "bye"} /\ obuf # <<>>
  /\ rd /\ Len(pipe) < PipeCap
  /\ pipe' = Append(pipe, Head(obuf))
  /\ obuf' = Tail(obuf)
  /\ child' = IF child = "flush" /\ obuf' = <<>> THEN "run" ELSE child
  /\ UNCHANGED <<pc, setupVars, tmpfile, b, tableVars, cin, died, rd, wr, judgeVars, exit>>

(* Nobody reads any more: SIGPIPE ends the child, or the CLI ignores the   *)
(* error (Rust, Java) and carries on.                                      *)
ChildBrokenPipe ==
  /\ child \in {"flush", "bye"} /\ obuf # <<>>
  /\ ~ rd
  /\ obuf' = <<>>
  /\ \/ child' = "zombie" /\ wr' = wr \ {"child"}
     \/ child' = (IF child = "flush" THEN "run" ELSE "bye") /\ UNCHANGED wr
  /\ UNCHANGED <<pc, setupVars, tmpfile, b, tableVars, cin, died, pipe, rd, judgeVars, exit>>

(* Something in the process prints a line of its own on the way out.       *)
ChildChatter ==
  /\ child = "run" /\ cin = Len(req) /\ obuf = <<>> /\ b \in Chatty
  /\ obuf' = <<[n |-> 0, v |-> "EXTRA"]>>
  /\ child' = "bye"
  /\ UNCHANGED <<pc, setupVars, tmpfile, b, tableVars, cin, died, ioVars, judgeVars, exit>>

ChildExit ==
  /\ cin = Len(req) /\ obuf = <<>>
  /\ child = IF b \in Chatty THEN "bye" ELSE "run"
  /\ child' = "zombie"
  /\ wr' = wr \ {"child"}
  /\ UNCHANGED <<pc, setupVars, tmpfile, b, tableVars, cin, obuf, died, pipe, rd, judgeVars, exit>>

(* execl fails, or the CLI aborts: what stdio holds is lost, but when a    *)
(* big buffer was being written out the head of a line may be in the pipe. *)
ChildDies ==
  /\ child \in {"run", "flush"} /\ b \in Mortal
  /\ child' = "zombie"
  /\ died' = died \cup {b}
  /\ wr' = wr \ {"child"}
  /\ obuf' = <<>>
  /\ \/ UNCHANGED pipe
     \/ /\ child = "flush" /\ BufCap[b] > 1 /\ obuf # <<>>
        /\ rd /\ Len(pipe) < PipeCap
        /\ pipe' = Append(pipe, [Head(obuf) EXCEPT !.v = "CUT"])
  /\ UNCHANGED <<pc, setupVars, tmpfile, b, tableVars, cin, rd, judgeVars, exit>>

ChildHangs ==
  /\ child \in {"run", "flush"} /\ b \in Stuck
  /\ child' = "hung"
  /\ UNCHANGED <<pc, setupVars, tmpfile, b, tableVars, cin, obuf, died, ioVars, judgeVars, exit>>

-----------------------------------------------------------------------------
(* Phase 3: the oracle, one vector after the other.                        *)

(* bprod[b] > i and the reply is not NA.                                   *)
Answering(i) == {x \in Backends : bprod[x] >= i /\ bo[x][i].v # "NA"}

(* Voters take the slots in order, "nv < 16" leaves the others standing.   *)
Seated(i) ==
  {Ref} \cup {x \in Answering(i) :
                Cardinality({y \in Answering(i) : y < x}) < MaxVoters - 1}

Ballot(i) == [w \in Seated(i) |-> IF w = Ref THEN refhex[i] ELSE bo[w][i].v]

Nobody == -2
Line(oracle, i, who) == [oracle |-> oracle, vec |-> i, who |-> who]

Findings(i) ==
  {Line(IF ops[i] = "verify" THEN "VERIFY_mismatch" ELSE "DIFF_mismatch", i, w) :
      w \in Outliers(ops[i], Ballot(i))}
  \cup (IF NoConsensus(ops[i], Ballot(i))
        THEN {Line("DIFF_noconsensus", i, Nobody)} ELSE {})

(* Mutation: failures is counted once per vector, not once per line.       *)
JudgeVector_OncePerVector ==
  LET i   == iv + 1
      bad == Outliers(ops[i], Ballot(i))
  IN  /\ pc = "judge" /\ iv < N
      /\ iv' = i
      /\ reports' = reports \cup Findings(i)
      /\ failures' = failures + (IF Findings(i) # {} THEN 1 ELSE 0)
      /\ bdiv' = [x \in Backends |-> bdiv[x] + (IF x \in bad THEN 1 ELSE 0)]
      /\ refOutlier' = refOutlier + (IF Ref \in bad THEN 1 ELSE 0)
      /\ UNCHANGED <<pc, setupVars, tmpfile, b, tableVars, childVars, ioVars, exit>>

JudgeVector ==
  LET i   == iv + 1
      bad == Outliers(ops[i], Ballot(i))
  IN  /\ pc = "judge" /\ iv < N
      /\ iv' = i
      /\ reports' = reports \cup Findings(i)
      /\ failures' = failures + Cardinality(bad)
                     + (IF NoConsensus(ops[i], Ballot(i)) THEN 1 ELSE 0)
      /\ bdiv' = [x \in Backends |-> bdiv[x] + (IF x \in bad THEN 1 ELSE 0)]
      /\ refOutlier' = refOutlier + (IF Ref \in bad THEN 1 ELSE 0)
      /\ UNCHANGED <<pc, setupVars, tmpfile, b, tableVars, childVars, ioVars, exit>>

(* Mutation: the exit status looks at the backends' counters only.         *)
Summarise_BackendsOnly ==
  /\ pc = "judge" /\ iv = N
  /\ pc' = "done"
  /\ tmpfile' = FALSE
  /\ exit' = IF \E x \in Backends : bdiv[x] > 0 THEN 1 ELSE 0
  /\ UNCHANGED <<setupVars, b, tableVars, childVars, ioVars, judgeVars>>

(* Phase 4: the summary, remove(reqpath), the exit status.                 *)
Summarise ==
  /\ pc = "judge" /\ iv = N
  /\ pc' = "done"
  /\ tmpfile' = FALSE
  /\ exit' = IF failures > 0 THEN 1 ELSE 0
  /\ UNCHANGED <<setupVars, b, tableVars, childVars, ioVars, judgeVars>>

(* The process has exited.                                                 *)
Halted == pc = "done" /\ UNCHANGED vars

-----------------------------------------------------------------------------
Parent ==
  \/ Build \/ Spawn \/ SpawnFails \/ CloseWriteEnd \/ FdopenFails
  \/ ReadReply \/ CloseReadEnd \/ Reap \/ ReapAndGiveUp
  \/ StartJudging \/ JudgeVector \/ Summarise

ChildStep == ChildCompute \/ ChildWrite \/ ChildBrokenPipe \/ ChildChatter \/ ChildExit

Next == Parent \/ ChildStep \/ ChildDies \/ ChildHangs \/ Halted

Spec == Init /\ [][Next]_vars

(* The scheduler runs every process that can run.  Dying and hanging are   *)
(* never forced.                                                           *)
FairSpec == Spec /\ WF_vars(Parent) /\ WF_vars(ChildStep)

-----------------------------------------------------------------------------
TypeControl ==
  /\ pc \in {"build", "next", "forked", "collect", "giveup", "wait", "judge", "done"}
  /\ tmpfile \in BOOLEAN
  /\ b \in 0 .. NB
  /\ exit \in {-1, 0, 1, 2}

TypeSetup ==
  /\ faulty \subseteq Voters
  /\ req \in Seq([op : Kinds, truth : Texts])
  /\ ops \in Seq(Kinds)
  /\ refhex \in Seq(Texts)
  /\ Len(req) = Len(refhex) /\ Len(ops) = Len(refhex) /\ Len(refhex) <= N

TypeTable ==
  /\ bo \in [Backends -> Seq(Reply)]
  /\ \A x \in Backends : Len(bo[x]) <= N
  /\ bprod \in [Backends -> 0 .. N]
  /\ bna \in [Backends -> Nat]

TypeChild ==
  /\ child \in {"none", "run", "flush", "bye", "zombie", "hung"}
  /\ cin \in 0 .. N
  /\ obuf \in Seq(Reply)
  /\ died \subseteq Backends
  /\ pipe \in Seq(Reply) /\ Len(pipe) <= PipeCap
  /\ rd \in BOOLEAN
  /\ wr \subseteq {"parent", "child"}

TypeJudge ==
  /\ iv \in 0 .. N
  /\ bdiv \in [Backends -> Nat]
  /\ failures \in Nat /\ refOutlier \in Nat
  /\ reports \subseteq [oracle : {"DIFF_mismatch", "VERIFY_mismatch", "DIFF_noconsensus"},
                         vec : Vectors, who : Voters \cup {Nobody}]

(* Types, with the bounds of the arrays and of the pipe.                   *)
TypeOK == TypeControl /\ TypeSetup /\ TypeTable /\ TypeChild /\ TypeJudge

(* The reply stored in slot i of a backend is its reply to request line i, *)
(* and that line is the one whose operation and reference answer the       *)
(* oracle will use for slot i: the request file, ops[], refhex[] and every *)
(* bo[b][] stay in lockstep through draws that fail, buffering and deaths. *)
Lockstep ==
  /\ \A x \in Backends : \A i \in 1 .. Len(bo[x]) : bo[x][i].n = i
  /\ \A i \in 1 .. Len(ops) : i <= Len(req) /\ req[i].op = ops[i]
  /\ pc # "build" => Len(req) = N /\ Len(ops) = N

(* A backend whose process ran to completion is a voter of every vector    *)
(* unless it replied NA: no reply is lost in its stdio buffer, in the pipe *)
(* or to an end of file seen too early.                                    *)
CompleteUnlessDied ==
  \A x \in Backends : x < b /\ x \notin died => bprod[x] = N

(* The exit status speaks for the whole table of answers: 0 when on every  *)
(* vector all voters agree (on the accept bit for a verify vector), 1 when *)
(* on some vector two of them differ.  The voting rule decides whom to     *)
(* blame, it never hides a difference.                                     *)
Differ(i) ==
  \E w, u \in Seated(i) :
    IF ops[i] = "verify" THEN Accepts(Ballot(i)[w]) # Accepts(Ballot(i)[u])
                         ELSE Ballot(i)[w] # Ballot(i)[u]

ExitTellsDifference ==
  /\ exit = 0 => \A i \in Vectors : ~ Differ(i)
  /\ exit = 1 => \E i \in Vectors : Differ(i)

(* "A bug in ANY single implementation -- including OpenSSL itself --      *)
(* surfaces as the outlier": on a compute vector where three or more       *)
(* answered and a strict majority of them is right, exactly the voters     *)
(* that are wrong are named, OpenSSL included, and no right one is.        *)
RightAt(i) == {w \in Seated(i) : Ballot(i)[w] = Normalize(ops[i], req[i].truth)}

OutliersAreTheWrongOnes ==
  \A i \in 1 .. iv :
    (/\ ops[i] # "verify"
     /\ Cardinality(Seated(i)) >= 3
     /\ 2 * Cardinality(RightAt(i)) > Cardinality(Seated(i)))
    => {r.who : r \in {q \in reports : q.vec = i}} = Seated(i) \ RightAt(i)

(* On a verify vector with a right reference, forgeries accepted and valid *)
(* signatures refused are named, and raising an error to refuse is not.    *)
VerifyVerdictsJudged ==
  \A i \in 1 .. iv :
    ops[i] = "verify" /\ Ref \notin faulty =>
      {r.who : r \in {q \in reports : q.vec = i}}
        = {x \in Seated(i) \ {Ref} : Accepts(bo[x][i].v) # Accepts(req[i].truth)}

(* The counters of the summary add up to the lines printed.                *)
LedgerBalances ==
  /\ failures = Cardinality(reports)
  /\ refOutlier = Cardinality({r \in reports : r.who = Ref})
  /\ \A x \in Backends :
       /\ bdiv[x] = Cardinality({r \in reports : r.who = x})
       /\ bna[x] = Cardinality({i \in 1 .. Len(bo[x]) : bo[x][i].v = "NA"})

(* A CLI built with its self-test fault is caught: when a wrong reply of   *)
(* it could be seen at all (it implements the operation of some compute    *)
(* vector with a plain answer), a DIFF_mismatch line names it.  This is    *)
(* what tests/negative_tests.sh greps the output for.                      *)
SelfTestFires ==
  exit \in {0, 1} /\ faulty = {} =>
    \A x \in Backends \ died :
      (Inject[x] # "off" /\ \E i \in Vectors : /\ ops[i] \in Supports[x] \ {"verify"}
                                              /\ req[i].truth = "h1")
      => \E r \in reports : r.oracle = "DIFF_mismatch" /\ r.who = x

(* Stated by the runner's own header: it "feeds all requests to every      *)
(* backend and checks the backend agrees byte-for-byte.  Any divergence    *)
(* ... exits non-zero".  So exit status 0 needs the answer of every        *)
(* backend to every request.                                               *)
ZeroMeansAllAnswered == exit = 0 => \A x \in Backends : bprod[x] = N

(* When main() returns, on the error paths too, no child is left behind:   *)
(* it was waited for, and both ends of its pipe are closed.                *)
NoChildLeftBehind ==
  pc \in {"next", "judge", "done"} => child = "none" /\ ~ rd /\ wr = {}

(* The runner ends, whatever backends do about buffering, dying or output  *)
(* nobody asked for, as long as none of them hangs.                        *)
Terminates == <>(pc = "done" \/ child = "hung")

-----------------------------------------------------------------------------
(* Refinement: the runner implements DifferentialTest.                     *)
Test == INSTANCE DifferentialTest WITH
  Reference <- Ref,
  kind    <- [v \in Vectors |-> IF v > Len(ops) THEN "unset"
                                ELSE IF ops[v] = "verify" THEN "verify" ELSE "compute"],
  answer  <- [v \in Vectors |-> IF v > Len(refhex) THEN [w \in {} |-> ""] ELSE Ballot(v)],
  judged  <- 1 .. iv,
  blame   <- {<<r.vec, r.who>> : r \in {q \in reports : q.who # Nobody}},
  split   <- {r.vec : r \in {q \in reports : q.who = Nobody}},
  verdict <- CASE exit = 0 -> "agree" [] exit = 1 -> "diverge"
               [] exit = 2 -> "error" [] OTHER -> "pending"

(* Every behaviour of the runner is a behaviour of DifferentialTest.       *)
Implements == Test!ASpec
=============================================================================
