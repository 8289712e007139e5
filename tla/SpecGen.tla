------------------------------- MODULE SpecGen ------------------------------
(***************************************************************************)
(* spec_gen/generate_specs.py: one JSON file per algorithm the headers of  *)
(* liboqs name, from a language model when there is one and from a         *)
(* template otherwise.  A file is opened for writing and filled, but never *)
(* closed: what is still in its buffer is written when the file object is  *)
(* finalised, where an error is ignored.  A run may end anywhere, and the  *)
(* library may change between runs.                                        *)
(***************************************************************************)
EXTENDS Integers, FiniteSets

CONSTANTS
  NAlgs,           \* algorithms a header may name, kem.h or sig.h
  FileOf,          \* the file of each: its directory, and its name with
                   \* "_" for "/", which two names may share
  MaxRuns          \* bound on the runs of the script

(* Every KEM in the order of sorted(), then every signature scheme.        *)
Algs == 1 .. NAlgs

GenConstantsOK == NAlgs \in Nat /\ MaxRuns \in Nat /\ DOMAIN FileOf = Algs

Files == {FileOf[a] : a \in Algs}

VARIABLES
  run,             \* runs so far
  gpc,             \* "idle", "extract", "open", "dump", "exit0", "exit1"
  llm,             \* whether --llm was given and a key is set
  header,          \* kem_algs and sig_algs
  todo,            \* algorithms the loops have still to do
  spec,            \* the spec in memory: where it is from, the run, and of what
  count,
  specs,           \* specs/: absent, truncated or a spec
  lost             \* files of which this run did not see the write fail

genvars == <<run, gpc, llm, header, todo, spec, count, specs, lost>>

Sources == {"nowhere", "absent", "truncated", "template", "llm"}

NoSpec == [from |-> "nowhere", run |-> 0, of |-> 0]
Absent == [from |-> "absent", run |-> 0, of |-> 0]
Truncated == [from |-> "truncated", run |-> 0, of |-> 0]

Init ==
  /\ run = 0 /\ gpc = "idle" /\ llm = FALSE /\ header = {} /\ todo = {}
  /\ spec = NoSpec /\ count = 0
  /\ specs = [f \in Files |-> Absent] /\ lost = {}

(* Both headers are parsed before the first file is written; open() of a   *)
(* missing one raises.                                                     *)
Parse ==
  /\ gpc \in {"idle", "exit0", "exit1"} /\ run < MaxRuns
  /\ run' = run + 1 /\ llm' \in BOOLEAN /\ count' = 0 /\ spec' = NoSpec /\ lost' = {}
  /\ \E named \in SUBSET Algs, found \in BOOLEAN :
       /\ header' = named /\ todo' = named
       /\ gpc' = IF ~found THEN "exit1" ELSE IF named = {} THEN "exit0" ELSE "extract"
  /\ UNCHANGED specs

(* The algorithm the loops are at.                                         *)
name == CHOOSE a \in todo : \A b \in todo : a <= b

(* extract_spec catches every exception and returns None, as it does       *)
(* without a key; the template takes over.                                 *)
Extract ==
  /\ gpc = "extract"
  /\ \E answered \in BOOLEAN :
       spec' = [from |-> IF llm /\ answered THEN "llm" ELSE "template",
                run |-> run, of |-> name]
  /\ gpc' = "open"
  /\ UNCHANGED <<run, llm, header, todo, count, specs, lost>>

(* Mutation: an algorithm that has a file already is left alone.           *)
Open_SkipExisting ==
  /\ gpc = "open"
  /\ IF specs[FileOf[name]] = Absent
     THEN /\ specs' = [specs EXCEPT ![FileOf[name]] = Truncated]
          /\ gpc' = "dump" /\ UNCHANGED <<todo, count>>
     ELSE /\ todo' = todo \ {name} /\ count' = count + 1
          /\ gpc' = IF todo = {name} THEN "exit0" ELSE "extract"
          /\ UNCHANGED specs
  /\ UNCHANGED <<run, llm, header, spec, lost>>

(* open(out, "w") empties a file that is there, one of an algorithm of     *)
(* this run with the same file name too.                                   *)
Open ==
  /\ gpc = "open"
  /\ specs' = [specs EXCEPT ![FileOf[name]] = Truncated]
  /\ lost' = lost \ {FileOf[name]}
  /\ gpc' = "dump"
  /\ UNCHANGED <<run, llm, header, todo, spec, count>>

(* json.dump, and the finalisation of the file right after it: it writes   *)
(* the rest of the spec, or fails and nobody is told.                      *)
Dump ==
  /\ gpc = "dump"
  /\ \/ /\ specs' = [specs EXCEPT ![FileOf[name]] = spec]
        /\ UNCHANGED lost
     \/ /\ lost' = lost \cup {FileOf[name]}
        /\ UNCHANGED specs
  /\ todo' = todo \ {name} /\ count' = count + 1
  /\ gpc' = IF todo = {name} THEN "exit0" ELSE "extract"
  /\ UNCHANGED <<run, llm, header, spec>>

(* A signal, or an OSError that main does not catch: of open(), or of a    *)
(* write in json.dump itself when the spec is longer than the buffer.      *)
Die ==
  /\ gpc \in {"extract", "open", "dump"}
  /\ gpc' = "exit1"
  /\ UNCHANGED <<run, llm, header, todo, spec, count, specs, lost>>

Over == gpc \in {"exit0", "exit1"} /\ run = MaxRuns /\ UNCHANGED genvars

Next == Parse \/ Extract \/ Open \/ Dump \/ Die \/ Over

Spec == Init /\ [][Next]_genvars

-----------------------------------------------------------------------------
(* When main returns 0, the file of every algorithm of the headers holds a *)
(* whole spec of this run, of that algorithm or of a later one whose name  *)
(* gives the same file, whatever truncated files and answers of a language *)
(* model earlier runs left; only where the disk refused the end of it      *)
(* unseen is it truncated.  The count that is printed is of algorithms.    *)
SpecsWhole ==
  gpc = "exit0" =>
    /\ \A a \in header :
         LET s == specs[FileOf[a]] IN
         IF FileOf[a] \in lost
         THEN s = Truncated
         ELSE /\ s.run = run /\ s.from \in {"llm", "template"}
              /\ ~llm => s.from = "template"
              /\ s.of \in header /\ s.of >= a /\ FileOf[s.of] = FileOf[a]
    /\ count = Cardinality(header)
=============================================================================
