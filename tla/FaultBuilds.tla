----------------------------- MODULE FaultBuilds ----------------------------
(***************************************************************************)
(* Clean and fault-injected programs, built by scripts/build_*.sh and by   *)
(* tests/negative_tests.sh.  A script is a sequence of commands; one run   *)
(* with "set -e" stops at the first that fails, the others go on.  Any     *)
(* command may fail, a script may be interrupted, and the sources may      *)
(* change between scripts.                                                 *)
(***************************************************************************)
EXTENDS Integers, Sequences

CONSTANTS
  Families,        \* the kinds of stage of negative_tests.sh, see Script
  MaxScripts,      \* bound on the scripts started
  MaxRev           \* bound on the revisions of the sources

VARIABLES
  family, script, at,   \* what is run, and its next command
  scripts,              \* scripts started
  rev,                  \* revision of the sources
  disk,                 \* what each path holds
  result,               \* PASS or FAIL of the self-test, and what it ran
  smooth                \* whether every command of this script succeeded

buildvars == <<family, script, at, scripts, rev, disk, result, smooth>>

Nothing == [rev |-> 0, fault |-> FALSE]           \* no program, or half of one
Paths   == {"clean", "fault", "release", "test"}  \* "test": in $TMP

-----------------------------------------------------------------------------
(* A command; in: the "set -e" script it belongs to, 0 when none.          *)
Make(to, faulty)  == [do |-> "make", from |-> to, to |-> to, fault |-> faulty, in |-> 0]
Copy(from, dest)  == [do |-> "copy", from |-> from, to |-> dest, fault |-> FALSE, in |-> 0]
Run(path)         == [do |-> "run", from |-> path, to |-> path, fault |-> FALSE, in |-> 0]
Strict(id, cmds)  == [k \in DOMAIN cmds |-> [cmds[k] EXCEPT !.in = id]]

(* build_pqc_kat.sh, build_fhe_diff.sh, build_go_diff.sh: one output per   *)
(* variant.                                                                *)
BuildKat(faulty) == <<Make(IF faulty THEN "fault" ELSE "clean", faulty)>>

(* build_rust_diff.sh: both variants come from target/release.             *)
BuildRust(faulty) ==
  <<Make("release", faulty), Copy("release", IF faulty THEN "fault" ELSE "clean")>>

(* build_tfhe.sh, build_zk.sh: clean, and on request fault and clean again.*)
BuildTfhe(faulty) ==
  <<Make("release", FALSE), Copy("release", "clean")>>
    \o IF faulty
       THEN <<Make("release", TRUE), Copy("release", "fault"),
              Make("release", FALSE), Copy("release", "clean")>>
       ELSE <<>>

Build(f, faulty) ==
  CASE f \in {"kat", "go"} -> BuildKat(faulty)
    [] f = "rust" -> BuildRust(faulty)
    [] f = "tfhe" -> BuildTfhe(faulty)
    [] OTHER      -> <<Make("clean", FALSE)>>

(* A stage of negative_tests.sh, which runs with set -uo pipefail only.    *)
SelfTest(f) ==
  CASE f = "kat"  -> Strict(1, BuildKat(TRUE)) \o <<Run("fault")>>
                       \o Strict(2, BuildKat(FALSE))
    [] f = "rust" -> <<Make("release", TRUE), Copy("release", "test"),
                       Run("test"), Make("release", FALSE)>>
    [] f = "tfhe" -> Strict(1, BuildTfhe(TRUE)) \o <<Run("fault")>>
    [] OTHER      -> <<Make("test", TRUE), Run("test")>>

Script(f, s) ==
  CASE s = "selftest"   -> SelfTest(f)
    [] s = "build"      -> Strict(1, Build(f, FALSE))
    [] s = "buildfault" -> Strict(1, Build(f, TRUE))
    [] OTHER            -> <<>>

Commands == Script(family, script)
Command  == Commands[at]

NoResult == [says |-> "none", ran |-> Nothing]

Init ==
  /\ family = "none" /\ script = "none" /\ at = 1 /\ scripts = 0 /\ rev = 1
  /\ disk = [p \in Paths |-> Nothing]
  /\ result = NoResult /\ smooth = TRUE

Idle == script = "none"

(* Mutation: the stages of two runs share a directory.                     *)
Begin_SharedTmp ==
  /\ Idle /\ scripts < MaxScripts
  /\ \E f \in IF family = "none" THEN Families ELSE {family},
        s \in {"selftest", "build", "buildfault"} :
       /\ s = "selftest" /\ f = "tfhe" => disk["clean"] # Nothing
       /\ family' = f /\ script' = s
  /\ at' = 1 /\ scripts' = scripts + 1 /\ result' = NoResult /\ smooth' = TRUE
  /\ UNCHANGED <<rev, disk>>

(* TMP="$(mktemp -d)"; the TFHE and ZK stages want a built oracle.         *)
Begin ==
  /\ Idle /\ scripts < MaxScripts
  /\ \E f \in IF family = "none" THEN Families ELSE {family},
        s \in {"selftest", "build", "buildfault"} :
       /\ s = "selftest" /\ f = "tfhe" => disk["clean"] # Nothing
       /\ family' = f /\ script' = s
       /\ disk' = [disk EXCEPT !["test"] = Nothing]
  /\ at' = 1 /\ scripts' = scripts + 1 /\ result' = NoResult /\ smooth' = TRUE
  /\ UNCHANGED rev

Edit ==
  /\ Idle /\ rev < MaxRev
  /\ rev' = rev + 1 /\ result' = NoResult /\ smooth' = TRUE
  /\ UNCHANGED <<family, script, at, scripts, disk>>

Proceed(next) ==
  IF next > Len(Commands) THEN script' = "none" /\ at' = 1
                          ELSE at' = next /\ UNCHANGED script

(* Mutation: no set -e.                                                    *)
AfterFailure_Lax == at + 1

(* The first command that is not of the "set -e" script that failed.       *)
AfterFailure ==
  CHOOSE k \in (at + 1) .. (Len(Commands) + 1) :
    /\ k = Len(Commands) + 1 \/ Command.in = 0 \/ Commands[k].in # Command.in
    /\ \A j \in (at + 1) .. (k - 1) : Command.in # 0 /\ Commands[j].in = Command.in

Produced == IF Command.do = "make" THEN [rev |-> rev, fault |-> Command.fault]
                                   ELSE disk[Command.from]

Succeeds ==
  /\ ~Idle /\ Command.do \in {"make", "copy"} /\ Produced # Nothing
  /\ disk' = [disk EXCEPT ![Command.to] = Produced]
  /\ Proceed(at + 1)
  /\ UNCHANGED <<family, scripts, rev, result, smooth>>

(* A compiler or cp that fails leaves its output alone, or spoils it.      *)
Fails ==
  /\ ~Idle /\ Command.do \in {"make", "copy"}
  /\ \/ UNCHANGED disk
     \/ disk' = [disk EXCEPT ![Command.to] = Nothing]
  /\ smooth' = FALSE
  /\ Proceed(AfterFailure)
  /\ UNCHANGED <<family, scripts, rev, result>>

(* The fault of compute_go and compute_rust is put into their first reply  *)
(* or, when that is NA, nowhere.                                           *)
FirstReplyOnly == {"go", "rust"}

(* The program's output is searched for the oracle the fault must trip.    *)
Judge ==
  /\ ~Idle /\ Command.do = "run"
  /\ \E trips \in BOOLEAN :
       /\ trips => disk[Command.from].fault
       /\ disk[Command.from].fault => trips \/ family \in FirstReplyOnly
       /\ result' = [says |-> IF trips THEN "PASS" ELSE "FAIL",
                     ran |-> disk[Command.from]]
  /\ Proceed(at + 1)
  /\ UNCHANGED <<family, scripts, rev, disk, smooth>>

Interrupt ==
  /\ ~Idle
  /\ \/ UNCHANGED disk
     \/ Command.do # "run" /\ disk' = [disk EXCEPT ![Command.to] = Nothing]
  /\ script' = "none" /\ at' = 1 /\ smooth' = FALSE
  /\ UNCHANGED <<family, scripts, rev, result>>

Over == Idle /\ scripts = MaxScripts /\ rev = MaxRev /\ UNCHANGED buildvars

Next == Begin \/ Edit \/ Succeeds \/ Fails \/ Judge \/ Interrupt \/ Over

Spec == Init /\ [][Next]_buildvars

-----------------------------------------------------------------------------
(* What a later stage or campaign takes for the clean program is never a   *)
(* fault-injected one, whatever failed or was interrupted before; and a    *)
(* script of whose commands none failed leaves none in target/release for  *)
(* a plain cargo build, build_rust_diff.sh fault excepted.                 *)
CleanMeansClean ==
  /\ ~disk["clean"].fault
  /\ Idle /\ smooth /\ result # NoResult => ~disk["release"].fault

(* A PASS is about a fault-injected program; one of the present sources    *)
(* unless a command of the self-test failed unseen; and always of the      *)
(* present sources when the stage builds straight into $TMP.  A FAIL means *)
(* that a command failed, or that a good fault build of a CLI that         *)
(* corrupts its first reply only had NA to say first.                      *)
SelfTestHonest ==
  /\ result.says = "PASS" =>
       /\ result.ran.fault
       /\ result.ran.rev = rev \/ (~smooth /\ family \notin {"tmp", "go"})
  /\ result.says = "FAIL" =>
       ~smooth \/ (result.ran.fault /\ family \in FirstReplyOnly)
=============================================================================
