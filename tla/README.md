# CMFuzz in TLA+

CMFuzz tests cryptographic libraries against each other and against
metamorphic oracles. This directory holds TLA+ models of the program's own
logic (what CMFuzz decides, in which order, and what it does when a library, a
process or a call fails), the TLC configurations that check them and the TLAPS
proofs about them. The cryptography itself is never modelled bit by bit: a
library is a participant that gives right or wrong answers.

Paths below are relative to the repository's `cmfuzz/` directory.

## The system

| # | Component | State it keeps | Operations | Hard behaviour | What makes it correct |
|---|---|---|---|---|---|
| 1 | Subprocess differential runner, `harness/subproc/diff_subproc_runner.c` | request file, `ops[]`, `refhex[]`, `bo[b][i]`, `bprod[]`, `bdiv[]`, `bna[]`, `failures`, `ref_outlier` | draw vectors, fork one backend at a time, collect replies, vote, summarise | a child process and two pipes' ends, end-of-file, buffering, a backend that dies or hangs, majority voting | replies stay matched to requests, none is lost, exit status tells the truth, the right implementation is blamed |
| 2 | Wire protocol and compute CLIs, `compute_*.{c,cpp,py}`, `gobridge`, `rustbridge`, `bcbridge` | stdio buffer | one reply line per request line, `NA`, `ERR`, the self-test fault | output buffered per line or per run, broken pipe | one reply per request, in order; the self-test fault is visible |
| 3 | liboqs harnesses, `liboqs_kem_harness.c`, `liboqs_sig_harness.c` | key pair, ciphertext or signature, one mutation of it | metamorphic relations MR1.. on one fuzz input | a mutation that is undone too early, a relation that cannot fail | no alarm for a correct scheme, an alarm for each broken relation |
| 4 | Compositions (L2), `comp_{hpke,authkem,kdfchain,trad}_harness.c` | keys and ciphertexts of one exchange | seal, open, tamper, open again | the tampered value must reach the check | as 3 |
| 5 | API call sequences (L3), `seq_*_harness.*` | used nonces, contexts, key lists | a history of calls driven by the input | long legal sequences | as 3 |
| 6 | In-process differentials, `diff_multilib_harness.cpp`, `openssl_classic_harness.c`, `trad_metamorphic_harness.c` | the outputs of one operation | compute with each library, compare | which library is the odd one | as 1 |
| 7 | PQC interop and KAT, `pqc_diff_harness.c`, `pqc_kat_harness.c` | buffers of one iteration, one deterministic generator | iterations in two directions; two libraries from one seed | a call that fails skips a part of an iteration; the generator must be reset | every comparison is of fresh values of both libraries; the summary is true |
| 8 | Engine, `engine/cmfuzz_common.h`, `engine/ct_dudect*.c` | the PRNG state, the class samples | seed from the input, read fields, classify timings | hidden state between inputs | same input, same behaviour |
| 9 | Scripts, `scripts/*.sh`, `tests/negative_tests.sh` | files and directories that outlive a run, counters | campaign, builds, self-tests | stale files, failed builds | the summary speaks of this run |
| 10 | `spec_gen/` | JSON files | enumerate algorithms, write a spec each | interruption, name collisions | one complete file per algorithm |
| 11 | FHE and ZK oracles | ciphertexts | compute, decrypt, compare | approximate arithmetic | error stays within the bound |

## The subprocess differential runner

### Modules

* `DiffVote` — the oracle of one vector as operators on a *ballot* (voter ->
  text): the counting loop (`Count`, `BestVoter`), the strict majority
  (`NoConsensus`) and whom a violation line names (`Outliers`).
* `DiffRunner` — `main()` as a state machine next to the child process it is
  currently reading from.
* `DifferentialTest` — what a differential run promises, with no processes,
  pipes or counters: implementations hand in answers, the answers are frozen,
  blame and verdict are declared from them.
* `MCDiffRunner` — values of the constants.
* `DiffRunnerProofs`, `DiffRunnerJudgeProofs` — theorems.

### State and actions

| Code | Model |
|---|---|
| `main()`'s position | `pc`: `build`, `next`, `forked`, `collect`, `giveup`, `wait`, `judge`, `done` |
| request file, `ops[]`, `refhex[]` | `req`, `ops`, `refhex`; `tmpfile` says whether the file exists |
| `a - 3`, `bo[][]`, `bprod[]`, `bna[]` | `b`, `bo`, `bprod`, `bna` |
| `bdiv[]`, `failures`, `ref_outlier`, printed lines | `bdiv`, `failures`, `refOutlier`, `reports` |
| the pipe | `pipe` (lines), `rd` (read end open), `wr` (who holds a write end) |
| the child | `child`, `cin` (request lines read), `obuf` (its stdio buffer), `died` |

`BuildVector` and `BuildEmptyVerify` are the two ways through the drawing
loop; `Spawn`, `SpawnFails`, `CloseWriteEnd`, `FdopenFails`, `ReadReply`,
`CloseReadEnd`, `Reap`, `ReapAndGiveUp` the collecting loop with its error
returns; `JudgeVector` one turn of the oracle; `Summarise` the end. The child
computes a reply into its buffer (`ChildCompute`), writes it out when the
buffer is full or the input is exhausted (`ChildWrite`), meets a closed pipe
(`ChildBrokenPipe`), and exits, dies or hangs. `faulty` is the environment's choice of
implementations that may answer wrongly; `Answers` lists what a right and a
wrong one may say, with the two legitimate variations the code folds together:
an all-zero X25519 secret is `ERR`, and refusing a signature may be an error.

Abstractions. A reply is one of eleven texts. A request carries its operation
and the right answer. Operations are grouped in four kinds, the distinctions
the oracle and the backends make. A line is written and read whole, except for
the head of a line a dying backend leaves behind. The two verify
operations' reference verdict is taken from OpenSSL in process as the code does.

### Bounds

`N`, `NB`, `PipeCap`, `BufCap`, `MaxFaulty` are the bounds. One or two vectors
are enough for the oracle, which judges vectors one by one; a second one shows
what is carried over (lockstep, counters). Three vectors and a one-line pipe
make a child block, finish early, be cut short and leave a partial column.
Two backends are the smallest number where the state of one child could leak
into the next. The four backends of `runner_oracle`, no two of which implement
the same (`Graded`), give with OpenSSL five voters on a digest, four on X25519 and
three on a later operation; because any of them may die before its reply is out,
ballots of one and two are met, too. So are an even split (2:2), a 3:2 majority,
three answers of five voters and a reply that is lost or cut short.
`MaxVoters` is the 16 of the code's arrays; `Seated` leaves a sixteenth
answering backend out of the vote as the code does, and `ExitTellsDifference`
speaks of the seated ones. `failures` counts violation lines, not backends,
which the last line of a failing run ("%d backend(s) diverged") does not say.

### Fairness

`FairSpec` asks for weak fairness of the parent's step and of the child's
step: both are ordinary processes and the scheduler runs whatever can run.
Dying and hanging are in neither. `Terminates` therefore promises an end of
the run or a hung child: the runner has no timeout.

### Runs

| Run | What it shows |
|---|---|
| `runner_process` | Two backends, one flushing per line and one buffering, a one-line pipe, deaths, hangs, extra output, failing `open`/`pipe`/`fork`/`fdopen`. No reply of a child that ran to completion is lost (`CompleteUnlessDied`), no child or descriptor is left behind (`NoChildLeftBehind`), the run ends (`Terminates`). Deadlock is not checked because a hung child stops the system for good. |
| `runner_oracle` | Up to five voters, up to three of them wrong, any backend dying on the way, every kind of vector: `ExitTellsDifference`, `OutliersAreTheWrongOnes`, `VerifyVerdictsJudged`. |
| `runner_table` | Two vectors and two backends, any one implementation wrong or the second CLI built to corrupt every reply: `Lockstep`, `LedgerBalances`, the corrupting CLI is always reported (`SelfTestFires`), and `Implements`, the refinement of `DifferentialTest`. |
| `runner_selftest_first` (violated) | The Go and Rust CLIs corrupt only the first reply, and only if it is not `NA`: the self-test can stay silent. |
| `runner_deadbackend` (violated) | The header's "feeds all requests to every backend and checks the backend agrees": a backend that never started leaves exit status 0. |

### Refinement

`Implements` maps the ballots of `DiffRunner` to `answer` of
`DifferentialTest`: reading a reply is a stutter, and a backend's whole column
is delivered when `bprod[b]` is set (`Reap`). Blame, split and verdict are
declared in the abstract module by comprehension over strict majorities, where
the code counts and compares. TLC checks `Implements` on the instance of
`runner_table`, and `RunnerImplementsTest` proves it for every instance.

### Proofs

Everything below holds for every number of vectors and backends, every
pipe and buffer capacity and every set of faulty, mortal, stuck or chatty
backends that `ConstantsOK` allows.

| Theorem | Property | Module |
|---|---|---|
| `TypeCorrect` | `TypeOK` | `DiffRunnerProofs` |
| `NoOrphans` | `NoChildLeftBehind` | `DiffRunnerProofs` |
| `ExitSound` | `ExitTellsDifference` | `DiffRunnerProofs` |
| `RepliesInLockstep` | `Lockstep` | `DiffRunnerProofs` |
| `NothingLost` | `CompleteUnlessDied` | `DiffRunnerProofs` |
| `NeverStuck`, `StepsRunOut` | the safety half of `Terminates` | `DiffRunnerProofs` |
| `MajorityJudgesRightly` | `OutliersAreTheWrongOnes` | `DiffRunnerJudgeProofs` |
| `VerdictsNamed` | `VerifyVerdictsJudged` | `DiffRunnerJudgeProofs` |
| `SummaryAddsUp` | `LedgerBalances` | `DiffRunnerJudgeProofs` |
| `RunnerImplementsTest` | `Implements` | `DiffRunnerJudgeProofs` |
| `SelfTestNamesIt` (under `SelfTestBuild`) | `SelfTestFires` | `DiffRunnerJudgeProofs` |

The first three follow from `IInv == TypeOK /\ Control /\ Judged`. `Control`
ties the phase to the child and to the ends of the pipe (for instance a zombie
holds no write end, and in `giveup` the read end is closed); without it `Reap`
could not be shown to leave nothing behind. `Judged` says of the vectors judged
so far that `failures = 0` exactly when none of them is in dispute; it needs two
lemmas on `DiffVote`: a ballot with a difference always yields an outlier or a
no-consensus line, and one without never does.

`Stream` (Numbered, Aligned, Untouched, InFlight, Collected) follows a reply on
its way: what lies in the table, then in the pipe, then in the child's buffer is
one run of consecutive replies (`InPipe`, `InBuffer`), and unless the child
died their number is what it has read (`InFull`). It is what makes `Lockstep`
survive a death in the middle of a line, and turns "end of file" into "nothing
more can come".

`JInv` (Reported, RefKnows, Counted, NaCounted) says that the reports are
exactly the findings of the vectors judged, and that every counter is the
cardinality of a set of them. `MajorityWins` is the heart of the rest: the
slot the counting loop stops at is in the camp of any strict majority, because
two majorities of a finite set intersect.

The refinement's step simulation (`MappedDraw`, `MappedDeliver`, `MappedJudge`,
`MappedConclude`, `MappedGiveUp`, `MappedStutter`) uses one more invariant,
`NotYet`: no count of replies exists before its backend was waited for, which
makes reading a reply a stutter. `MappedOracle` shows that the code's
`Outliers` and `NoConsensus` are the abstract `Blamed` and an empty `Authority`.

`SelfTestNamesIt` is the one theorem with a hypothesis beyond `ConstantsOK`. It
needs `SelfTestBuild`, because `SelfTestFires` is false of other builds:

* At most one CLI corrupts, and it corrupts every reply. One that corrupts only
  the first reply can stay silent (`runner_selftest_first`).
* That CLI is among the first `MaxVoters - 1` backends: a later one has no slot
  in the counting loop and is never named.
* A right CLI that may die writes line by line. One that buffers can leave the
  head of a line behind when it dies; the three voices of a small vote may then
  all differ, and the line printed is `DIFF_noconsensus`, which names nobody.

The other conditions (right implementations, a compute vector with a plain
answer which the CLI implements, the CLI alive to the end, exit status 0 or 1)
are in the property itself. The constants of `runner_table` satisfy
`SelfTestBuild`. The proof adds two invariants: `AllPlain` says what a right CLI
and the corrupting one may have said of a vector with a plain answer, in the
table, in the pipe and in the child's buffer; `AllAsked` says that a run which
judged has been to all backends. Then the corrupting CLI differs from all others
on the vector, and OpenSSL's answer has at most that one against it.

`NeverStuck` and `StepsRunOut` are what can be proved of `Terminates` without
liveness. `NeverStuck`: until `main()` has returned or the child hangs, a guard of
`Parent` or of `ChildStep` holds (`ParentMay`, `ChildMay`, which write the guards
out; that they are what TLA+ calls `ENABLED` was compared in every state of the
instances of `runner_process` and `runner_table`). The argument is the one a
reader of the code makes: the parent has closed its copy of the write end before
it reads, so an empty pipe means a child that can go on or end of file; it has
closed the read end before it waits, so a full pipe holds nobody up.
`ChildTidy` is the invariant it needs: the child's position tells whether its
buffer holds anything and whether it has input left. It also needs `DrawnKinds` not
to be empty, as the code's 27 operations are not (lines 296, 373).
`StepsRunOut`: every step, also one of fate, lowers `<<Major, Minor>>`, ordered
lexicographically and so without infinite descents. `Major` counts
vectors to draw and to judge, backends to run and the phase, `Minor` what the present
child has to read, write and have read. With weak fairness of `Parent`
and `ChildStep` the two are the proof of `Terminates`; the last step, from `ENABLED`
and fairness to an eventuality, is the prover's limit, so the property itself is
model-checked.

## The wire format

`WireFormat` models the bytes of the line protocol: what the runner lays out
(`RequestBlob`, `VerifyPayload`, `VerifyBlob`), and the four families of
parsers that take it apart, each by the rules of its language: `CVec` and
`CVerify` (`compute_common.h`, used by the six C and C++ CLIs), `GoVec` and
`GoVerify` (Go and Rust), `PyVec` and `PyVerify` (slices clamp, an index past
the end raises), `JavaVec` and `JavaVerify` (everything out of bounds throws).
`OpsOf` is each CLI's dispatch table. A primitive is the record of its
arguments (`Result`), so two CLIs agree exactly when they hand a right library
the same arguments. `Pad` keeps one fact about HMAC (a short key is filled up
with zeros) because a missing key and a zero key differ only where it does not
apply.

`MCWireFormat` scales the layout down: two byte values, one-byte keys and
nonces, fields of up to two bytes, so that every length field takes all its
values and both its bytes carry information. Decoding of hexadecimal is left
out.

| Run | What it shows |
|---|---|
| `wire_requests` | Every request the runner can lay out for its 27 operations, and lines of any length whose length bytes may lie (`DrawAnything`), read by all ten CLIs: `SameArguments`, `SameTriple` (the nested payload of the verify operations, the empty one included, up to the accept bit that is compared), and `SomebodyAnswers` (no drawn operation is left to OpenSSL alone). |

`SameArguments` excludes one case in which the parsers do differ: a blob
shorter than its header, under an operation that needs a key (zero key for C
and Java, no key and `ERR` for the others). The runner never sends one.

Proved for every size of keys, nonces, X25519 keys and bytes, every length a
field may have, every line and every list of CLIs (`WireFormatProofs`):

| Theorem | Property | Hypothesis |
|---|---|---|
| `WireTypes` | `TypeOK` | |
| `WireSameArguments` | `SameArguments` | |
| `WireSameTriple` | `SameTriple` | `RunnerVerifies`: verify lines are the runner's |
| `WireSomebodyAnswers` | `SomebodyAnswers` | all CLIs are on the command line, in any order |

The weight is in lemmas about single lines: what two length bytes give back
(of the big-endian number that was cut into them), what a slice of a
concatenation is, that each family of parsers reads the fields that were laid
out, and that the four read any line with a whole header alike, also when its
length bytes promise more than the line has. `WireInv == LineWhole /\
ComputeExpected /\ VerifyExpected /\ RepliesMade` then only says which line,
which reference result and which replies a state holds. `RunnerVerifies` is
needed: of a payload whose lengths lie, Python's slices take what is there
where the others refuse.

## The compute CLIs in C and C++

`ComputeCli` models the five `compute_*.c` and `compute_botan.cpp` from one
request line to the next. A function is a table of its library calls in order,
each with the objects it acquires or needs, the parts of `out[]` it writes and
what happens when it fails: go on, return after the releases named there, or go
to the releases at the end (`Step`, `Function`). `Wolfssl`, `Boring`... are the
dispatch tables. `obj`, `owned` and `misuse` follow the objects, `out` says which
request wrote which part of the buffer, which outlives requests.

| Run | What it shows |
|---|---|
| `compute_clis` | All six CLIs, all 27 operations and an unknown one, any call failing, requests following one another without a bound: `ReleasedOnce` (nothing leaked, freed twice, or used before it is initialised), `ReplyIsFresh` (no byte of an earlier request in a reply, and a failed computation is answered `ERR`), `AcceptsOnlyVerified` (no error value passes for an accepted signature). |

Proved for every choice of the six programs and any number of requests
(`ComputeCliProofs`): `CliTypes` (`TypeOK`), `CliReleasesOnce` (`ReleasedOnce`),
`CliRepliesFresh` (`ReplyIsFresh`), `CliAcceptsVerified`
(`AcceptsOnlyVerified`). An *outline* of a function (`OutlineOf`) says before each of
its calls what is surely initialised, what may be, and what belongs to another
object; `WellMade` asks that every call finds what it needs and that the
releases made wherever the function is left are those owed there, an owner after
what it owns (`Orderly`). Each table of each program is shown to be well made.
That is the half a static analysis would do; the other half, `CliInv`, follows
a request through the steps: the objects are as the outline says (`InCall`), the
releases still to be made are of what is held, once each (`Pending`), the part
of the buffer that will be printed is of this request (`Settled`), and so is the
reply (`Answered`).

What the arguments are is `WireFormat`'s subject, what answers mean is
`DiffRunner`'s. The Go, Rust, Python and Java CLIs leave releasing to their
runtimes and have no such tables.

## Post-quantum interop and known answers

`PqcInterop` is `pqc_diff_harness.c` call by call. The buffers `pk`, `sk`,
`ct`, `ss1`, `ss2`, `sig`, `msg` are shared by both directions and all
iterations, as in the code; their values are terms that name the scheme,
iteration and direction of the call that made them. Any call may fail and
leave its buffers as they were or half written; the failure leaves the
iteration (`Continue`). At most one library (`flawed`) may succeed with a
wrong result. `NextIteration` prints the summary (`claimed`).

`KatDrbg` is `pqc_kat_harness.c`. The deterministic generator's state is the
way it was reached, seedings and lengths of draws; a call that fails may have
drawn any part of its bytes. `Draws` gives the lengths each library draws; the
runs use equal ones, the assumption the harness's header states.

`PqcStage` runs the two programs one after the other on the same libraries,
as the build does; nothing of the first process is left to the second.

| Run | What it shows |
|---|---|
| `pqc_stage` | A KEM and a signature scheme, two iterations of `pqc_diff` and three vectors of `pqc_kat`: `NoFalseAlarm`, `WrongCaught`, `HonestThenTampered`, `Replayable`, `SummaryUnlessFailed`. Two iterations are what it takes for a value of one iteration to meet the next; two schemes for what one scheme leaves to the next; a third vector for a generator that is not put back twice in a row. |

`SummaryUnlessFailed` is as much as the summary lines are worth: "%ld iters,
both directions agree" and "%ld vectors byte-identical" print the number asked
for, also when failed calls skipped some; of those iterations it says nothing.
`Replayable` is what makes a difference of `pqc_kat` reproducible: what is compared
for vector i was made by each library from the bytes of vector i alone, whatever
scheme came before, whatever failed there, and whatever either library draws, also
when the two do not draw alike. It is about where bytes come from, so it holds of
right results and wrong ones.

Proved for every table of schemes, every pattern of draws and every number of
iterations (`PqcStageProofs`), of each program by itself (`PqcInterop!Spec`,
`KatDrbg!Spec`) and of the two run one after the other (`PqcStage!Spec`, the
properties of the run):

| Property of `PqcStage` | Theorem | Of each program |
|---|---|---|
| `TypeOK` | `StageTypes` | `InteropTypes` |
| `NoFalseAlarm` | `StageAccusesNobody` | `InteropAccusesNobody`, `KatAccusesNobody` |
| `WrongCaught` | `StageCatches` | `InteropCatches`, `KatCatches` |
| `HonestThenTampered` | `StageHonestThenTampered` | `InteropHonestThenTampered` |
| `Replayable` | `StageReplays` | |
| `SummaryUnlessFailed` | `StageSummary` | `InteropSummary`, `KatSummary` |

`Fresh` says of every call which buffers it is about to read and that this
direction filled them; `Caught` orders errors and comparisons in time and says
how an error of this direction shows in the buffers of a KEM. `Reseeded` says
where the generator stands for each library, `Positioned` the same when the two
draw differently: at most so far as this library's own draws of this vector
(`OwnKeys`, `OwnOut`) have brought it; `Marked` says which outputs bear the
mark of an error. `DiffClaims` and `KatClaims` are about the summaries. `StageInv`
joins them: while `pqc_diff` runs, `pqc_kat` has drawn nothing.
`StageAccusesNobody` and `KatAccusesNobody` have one hypothesis, `DrawsAlike`: both
libraries draw the same lengths in the same order, whatever these are. The
harness's header takes it for granted (lines 10-12), and without it a
difference of `pqc_kat` would say nothing.

## The fuzz targets

| Module | What it is |
|---|---|
| `Primitives` | symbolic KEM, signature, AEAD and HKDF; the parameter `d` is the one thing that may be wrong with the library |
| `FuzzTarget` | what all targets share (`engine/cmfuzz_common.h`): one input after another, seeding, draws, `CMF_ASSERT`, calls that fail |
| `LiboqsHarness` | `liboqs_kem_harness.c`, `liboqs_sig_harness.c` |
| `SequenceHarness` | the L3 targets: `seq_aead`, its four one-shot variants in `subproc/` (`seq_oneshot`), `seq_ecdsa`, `seq_evp`, `seq_pqc` |
| `CompositionHarness` | `comp_authkem`, `comp_kdfchain`, `comp_trad` |
| `HpkeHarness` | `comp_hpke`, with the process-wide keys `g_skR` and `g_eph` |
| `ClassicHarness` | `trad_metamorphic`, `openssl_classic`, `diff_multilib` |
| `HomomorphicHarness` | `seal_bfv`, `bfv_diff`, `ckks`, `ckks_diff`, `tfhe`, `zk` |
| `FuzzTargets` | all of them as one system, with the properties; `MCFuzzTargets` lists the builds |
| `FuzzHarnessProofs`, `FuzzTargetsProofs` | theorems |

`build` is the target and the `CMF_FAULT_` macro it was compiled with, `defect`
what is wrong with the library; both are chosen once. An input is abstracted
to `bits`, the decisions the target takes from it (mode bits, whether a
message is empty, where the flip falls). `mem` holds the locals of the input by
their names in the code, `draws` how far `g_cmf_prng` has been read since it was
seeded, `failed` the calls that failed. `log` is a history: which nonce each
encryption or signature used, which plaintext was delivered, which oracle was
judged. Each relation of a target is an action named after it (`KemMR2`,
`RecSeq`, `AkTamper`, `HpkeBinding`).

The homomorphic and zero-knowledge programs have a loop of their own; an
iteration is an input. `tfhe` and `zk` count what is wrong and go on with the
loop (`Counting`), and leave with status 1 at its end (`CountingExit`); the
others abort. Plaintexts are small: a modulus `T = 5` for the 65537 of BFV (a
prime, with sums and products that carry and residues on both sides of `T/2`,
which OpenFHE centres), words of `W = 4` for the 32 bits of TFHE. A CKKS result
is its distance from the truth, sums in hundredths and products in units, so
that the code's tolerances are the integers `Near`, `MulBound`, `XlibMul`
compare with.

| Run | What it shows |
|---|---|
| `fuzz_targets` | Fourteen libFuzzer targets (`comp_hpke` with X25519, the one-shot variants counted once) and the six programs with a loop, as they are fuzzed and in 22 fault-injected builds, with every defect and every failing call. Inputs follow one another without a bound: the state returns to `idle`, so the run is exhaustive for any number of inputs. |
| `hpke_mlkem` (violated) | The ML-KEM-768 backend of `comp_hpke` reaches no oracle: its ciphertext is longer than the 64-byte buffer the guard compares with. |

| Property | What it says |
|---|---|
| `NoFalseAlarm` | A right library is accused only by an oracle that follows a failed call whose status the code does not look at. `Unchecked` has a row for each such call of each target and the oracles it can trip, and no others: signing and hashing (`comp_authkem` verifies a signature whose signing failed), `EVP_Digest` and `HMAC` of the classic targets, the cipher calls of `seq_evp` and of the compositions, the BN and EC calls of `seq_ecdsa` (which uses k = 1 when `BN_rand_range` fails, twice the same), `hkdf` (`comp_hpke` opens with an uninitialised key when the recipient's key derivation fails, lines 208, 217, 233). `AltInfoAlarm` is one more: a `comp_hpke` input whose own info is the constant `altinfo` (line 216). |
| `DefectCaught` | An input that exercises a defect does not return without a report. `...Exercises` says per target which inputs those are. |
| `RightOracle` | The report names the relation written for the defect (`...Oracles`), and `diff_multilib` never blames two right libraries. |
| `FaultFires` | Every self-test build of `tests/negative_tests.sh` reports the oracle the script greps for, in every input that reaches the fault (`Reaches`). |
| `ContractKept` | An input that returns used no (key, nonce) twice, handed on no plaintext of a tampered ciphertext, touched no freed context. |
| `KeysOfThisInput` | No key of one `comp_hpke` input is left to the next, but for the setup that fails with its key made (line 193 returns without the teardown). |
| `OraclesReached` | Every `comp_hpke` input in which no call fails is judged by both unconditional oracles; violated with ML-KEM-768. |

All eight are proved (`FuzzTargetsProofs`), for any number of inputs, every set of
failing calls and every set of builds among `TargetBuilds`, which has each target
with each `CMF_FAULT_` macro its source knows (`BuildsOK`):

| Theorem | Property |
|---|---|
| `FuzzTypes` | `TypeOK` |
| `FuzzNoFalseAlarm` | `NoFalseAlarm` |
| `FuzzDefectCaught` | `DefectCaught`, for builds other than `comp_hpke` over ML-KEM |
| `FuzzRightOracle` | `RightOracle` |
| `FuzzFaultFires` | `FaultFires` |
| `FuzzContractKept` | `ContractKept` |
| `FuzzKeysOfThisInput` | `KeysOfThisInput` |
| `FuzzOraclesReached` | `OraclesReached`, for builds other than `comp_hpke` over ML-KEM |

The exception is the finding of the run `hpke_mlkem`: there the two statements are
false. The invariant, `FuzzInv` (theorem `FuzzInvariant`), reads an execution as
clearances and causes. Each family has a predicate `...At` (`KemAt`, `AeadAt`,
`HpkeAt`...), by location: what the locals hold there, and which defects and
faults the oracles already passed exclude (`KemPastMR1`, `SigPastMR4`...), unless a
call failed; and for a process that has aborted, what may have caused
the report. The first half gives `DefectCaught`, `FaultFires` and `ContractKept` when an
input returns, the second `NoFalseAlarm` and `RightOracle` when it does not.
`FuzzHarnessProofs` proves that every action of every target preserves its
family's predicate, `Families` splits a state by its target, and the theorems
are read off.

What the tables of exercises bring to light, and no property can demand:

* `comp_hpke` promises (line 16) "changing info/aad at open time -> open MUST
  fail", but every oracle opens with the sender's aad: a composition that does
  not bind its aad passes, and is not among the defects.
* `seq_aead` and its variants never report a library that rejects honest
  ciphertexts: the oracle is silent unless a plaintext is delivered, although a
  comment calls the delivery check "authentic path must round-trip".
* `comp_trad` promises "flip ct/tag/aad" (line 19); the aad is never flipped.
  A MAC check that ignores the ciphertext may be hidden by the padding check.
* Three relations that headers list have no code: MR4 of `openssl_classic`
  (HMAC, line 8), MR3 of `seal_fhe` (associativity, line 13), and of
  `trad_metamorphic` the aad of tamper-reject and the wrong nonce (lines 15-16).
* Three defects are in the model without any input that must show them, because
  chance or another check may hide them: a MAC that is constant (`mac_constant`), a
  KEM and a hash that answer differently each time (`kem_unstable`, `hash_unstable`).
  `RightOracle` speaks of them, `DefectCaught` does not.
* A defect that only changes plaintexts needs a message: `memcmp` over zero
  bytes finds nothing. `comp_kdfchain` tests separation only if the two indices
  of the input differ.
* In `ckks_diff` two sums that each are within 1 of the truth are within 2 of
  each other: only the looser bound of products leaves the comparison of the
  libraries something to find (the defect `apart`).
* The SHA-256 fault of `trad_metamorphic` changes a variable after its last
  use (line 78) and has no effect; the self-test fires through the AEAD.
* `CMF_FAULT_UAF` is undefined behaviour: with an instrumented library the
  sanitizer ends the process before the line the self-test greps for.
  `EvpContext` allows either.
* The blocks after `O6-nonce-uniqueness` and `O6-ecdsa-k-uniqueness` that show the
  consequence of a reuse are only reached after an abort, and are left out.

Abstractions: a call whose status a target does not keep may fail wherever what it
leaves, buffers unwritten and lengths zero or old, changes what an oracle sees;
each family's `Fails(...)` is such a call or a group of calls one of which failed.
Allocation does not fail. "tiny" is fewer than two bytes of message for the nonce half of the
one-shot targets and none for the other half.

None of the harnesses has concurrency or waits for anything, so their
modules state safety only. A process ends when it aborts (`Aborted`).

## Campaign, builds, specs and the constant-time engine

| Module | What it is |
|---|---|
| `FuzzCampaign` | `scripts/run_campaign.sh`: the probe as two processes and a pipe, the fuzzing, the row of the summary; corpora, logs and crash directories outlive a campaign |
| `FaultBuilds` | `scripts/build_*.sh` and the stages of `tests/negative_tests.sh` as sequences of commands over the paths they share |
| `SpecGen` | `spec_gen/generate_specs.py` with `llm_client.py`: one file per algorithm, opened and then filled |
| `Dudect` | `engine/ct_dudect.c`, `ct_dudect_trad.c`: classes, measurements, cuts, Welch's t, verdict |
| `Scripts`, `MCScripts` | the four as one system; `program` says which one a behaviour is about, because they share no file |

`FuzzCampaign` writes the help of a probed program line by line: into the pipe
while `grep -q` reads, and into nothing, which kills the program, once grep has
found its word and left. `FaultBuilds` has five kinds of stage (`Script`): built
straight into `$TMP`; the same for the Go CLI, whose fault corrupts its first reply
and stays silent when that is `NA` (as the Rust one's does, `FirstReplyOnly`); one
output per variant; both variants through `target/release`; and the same with a
clean rebuild. For the two CLIs the program that `Judge` runs is the CLI together
with the runner that drives it; the libraries a clean program compares are taken to
agree, so only a fault makes it print an oracle. A command of a script with
`set -e` ends that script when it fails (`AfterFailure`); `negative_tests.sh`
itself runs on. Sources may be edited between scripts (`rev`). In `SpecGen` a run
may die anywhere, and the library may name other algorithms in the next one. Names
may share a file (`FileOf`: `name.replace("/", "_")`, line 122), where the later one
wins. The file of a spec is never closed (line 124): its last bytes are written when
the interpreter drops it, and an error there, a full disk, is not raised. `Dump` may
so leave a truncated file and go on (`lost`); `Die` is everything that ends the run. In
`Dudect` an operation takes any number of cycles of `Cycles`. Its doubles are
exact numbers, counted in units of 1/`Scale`: with a `Scale` that every number up
to `N_MEAS` divides, nothing the statistics keep is rounded (60 does for six
measurements), and `|t| > T_THRESHOLD` is compared in integers. `CutIndex`
finds the percentile of a cut from integers, too, for every `N_PERCENTILES`;
`UINT64_MAX` is the last cut, which leaves nothing out.

| Run | What it shows |
|---|---|
| `scripts` | Two campaigns of three programs, three scripts over two revisions of the sources, two runs of the generator over three algorithms of which two share a file, and every sequence of six measurements: the properties below. |
| `campaign_skips` (violated) | `EveryTargetFuzzed`: under `pipefail` (line 4) a libFuzzer target that is still printing its help when grep leaves (line 19) dies of SIGPIPE, and is skipped as if it were no fuzzer. Which of the two is faster decides. |

| Property | What it says |
|---|---|
| `RowTellsTheRun` | A summary has one row per program at most, only of libFuzzer targets; it says VIOLATION exactly when this campaign printed one, never `ok` when it left an artifact. It may say CRASH because of an older campaign: artifacts are counted in a directory that stays. |
| `CleanMeansClean` | No failed or interrupted script leaves a fault-injected program where the clean one is looked for; one that went through leaves none in `target/release`, either. |
| `SelfTestHonest` | A PASS is about a fault-injected program, of the present sources unless a command failed unseen; a FAIL means that one failed, or that a good Go or Rust fault build had nothing but `NA` to say first. |
| `SpecsWhole` | After a run that exits 0 the file of each algorithm holds a whole spec of this run, of that algorithm or of a later one that shares the file, whatever earlier runs truncated; only a file whose last write failed unseen is truncated, and it is counted all the same. |
| `NoFalseLeak`, `LeakShown` | Classes that took the same times are no leak at any cut; classes that Welch's test tells apart on all measurements are one, whichever is slower. The test needs a variance: two constant classes, however far apart, give t = 0 and pass. |
| `MessagesFresh` | No random message is signed twice, although it is copied before it is drawn (`ct_dudect.c`, lines 124-125). |

Bounds. The second campaign is the one that meets what another left; a help of
three lines has a match in the middle and one at the end. Three scripts are
what it takes to build, to fail or be interrupted, and to be judged; the second
revision makes a program stale. The cycles are two neighbours and one far away,
six measurements give classes of three, and the threshold stands for t > 2
instead of 4.5, which six measurements can reach and miss. The code makes 200000
measurements and 100 cuts; the run has ten cuts. That the rounding of
doubles changes no verdict is not claimed.

Proved (`ScriptsProofs`), for every list of programs, any length of help, any
number of campaigns, scripts, revisions, algorithms and runs, and every choice of
times and targets `ScriptsConstantsOK` allows. It allows any number of measurements
and of cuts, the code's own included, and any threshold:

| Theorem | Property |
|---|---|
| `StageRows` (and `RowsTellTheRun` of `FuzzCampaign!Spec`) | `RowTellsTheRun` |
| `StageClean` | `CleanMeansClean` |
| `StageSelfTests` | `SelfTestHonest` |
| `StageSpecs` (and `SpecsAreWhole` of `SpecGen!Spec`) | `SpecsWhole` |
| `StageMessages` | `MessagesFresh` |
| `StageNoFalseLeak` | `NoFalseLeak` |
| `StageLeakShown` | `LeakShown` |

`ScriptsInv` is one invariant per program. `CampaignInv` needs that the rows are
in the order of the programs (`Ascending`, `Behind`), from which follows that no
program has two, and that nothing is fuzzed unless grep read the line (`AtWork`).
`BuildsInv` follows a program from the compiler to where it is looked for: what a
script is about to copy to the clean path is clean (`CleanSource`); a self-test in
which nothing has failed has a faulty program of the present sources where it will
run it (`TestSource`); and a fresh `$TMP` holds no older one whatever failed
(`TmpSource`). Its lemmas take one script of one family each, command by command.
`GenInv`
counts: the specs written and those still to do are together the algorithms of
the headers, and a file whose algorithm is done is whole or in `lost`
(`Progress`), because a write to a shared file is always that of a later algorithm
(`DumpWrites`). `TimedInv` needs that `msg_rand` is
the last message drawn and that class 1 has signed only older ones (`SignedBefore`).

`LeakInv` says that measurements stay what they were, that `leaked` is set only by
classes that differ, and that it is set by those far apart once the last cut is done.
Behind it are facts about what the folds compute, for which the provers have no
induction. They are had from least counterexamples instead: a set of numbers, or a
set of subsets, of which a statement does not hold has a least member (`CountUp`,
`SmallerSets`). A fold is then a function chosen by its own equation; that the
equation has a solution, and that all solutions agree where it matters, gives that
a sum is the sum of its parts. `Moments` is the invariant of `t_push`: after n
pushes the mean is S/n and `m2` the sum of the squared distances to it,
where S is the sum of what was pushed. So `welch_t` compares what the
definition compares, up to factors that cancel (`ScaledDistance`), which gives
`StageLeakShown` at the last cut; and two classes with the same number and the same sum
are never told apart, which gives `StageNoFalseLeak` at each cut, because a cut
keeps as many of the one class as of the other. The proofs use nothing of the
cuts except that the last is above every measurement.

Two things are worth a note and no property. `ct_dudect.c` draws `rand()` once
more for class 1 than for class 0 (line 117), although the comment at line 94 has
both classes do identical work before the timed region; the extra call is outside
the timed region itself. And `negative_tests.sh` judges with `echo ... | grep -q`
under `pipefail` (line 20), the construction of the campaign's probe; here it is
harmless as long as the rest of the output fits the pipe's buffer.

## What is not modelled

* Cryptographic computation, in all modules: libraries give right, wrong or
  failing answers. Cases where right libraries differ by chance (a forged tag,
  equal keys) have no counterpart.
* Hexadecimal decoding, message texts, and the fault-injected builds of
  `pqc_diff` and `pqc_kat`.
* The downloads and builds of the libraries, the wrappers that start the Java
  and Python CLIs, and `sync_to_local.sh`, which uploads the sources: input and
  output, with no state another part of the system reads.
* `best_cut` of the constant-time engine, which is printed and decides nothing,
  and the preparation of keys before the measurements.
* The generator's and the reader's bytes (`cmf_randombytes`, `cmf_u8`...): a target is
  modelled by the decisions it takes from an input. That two runs on one input
  do the same is a relation between two behaviours, and does not hold where a library
  draws from its own generator.
* A backend that prints an extra line in the middle of its output.

### What is left to TLC

Of the forty properties of the passing runs thirty-nine are theorems. The other is
`Terminates`, liveness under fairness, which the prover does not do; what it follows
from is proved (`NeverStuck`, `StepsRunOut`). The counterexamples of
the four runs that end in a violation are TLC's by nature.

A theorem is about the module as written: the faithfulness of the modules to the
code, the abstractions named above and the constants' assumptions are not proved.

## Plan

Modules, in the order they were written; `DifferentialTest` is the abstract
specification `DiffRunner` implements.

1. `DiffVote`, `DiffRunner`, `DifferentialTest`: the oracle, the process around
   it, the promise.
2. `WireFormat`: the protocol's bytes.
3. `PqcInterop`, `KatDrbg`, composed by `PqcStage`.
4. `Primitives`, `FuzzTarget`, the six modules of harnesses, composed by
   `FuzzTargets`.
5. `ComputeCli`: the calls and releases of the C and C++ CLIs.
6. `FuzzCampaign`, `FaultBuilds`, `SpecGen`, `Dudect`, composed by `Scripts`.

Nothing that keeps state and decides something is left without a module, and no
safety property that a run checks without a theorem. `Terminates` stays with TLC for
the reason given above.
