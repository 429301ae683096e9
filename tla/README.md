# TLA+ models of the movie platform actions

This directory holds specifications of the programs in this repository that
decide whether a container image may be published: the composite action
`container-evidence`, the action `prepare-container-candidate` and the local scan
helper. Paths below are relative to `src/`; `$E` stands for
`actions/container-evidence/src`, `$L` for `local-tools/container-security/src`.
TLC model-checks every specification on small instances; TLAPS proves theorems
about all but one of them for all values of their constants.

## The system

A push to `main` of an enrolled component repository starts a workflow. It first
asks whether its revision is still main (`prepare.mts`), builds and publishes an
image, and then runs the composite action: GitHub attests the image's provenance,
`verify.mts` verifies and keeps the bundle, `scan-v3.mts` runs Trivy twice, the
writer `candidate-v3.mts` acquires the governed exemptions of the component from
main of this repository (`policy-source.mts`), evaluates the report
(`approved-evaluation.mts`, `vulnerability-policy.mts`), keeps its decision, refuses
blocked candidates and writes the candidate document. The four files of the handoff
are attested and uploaded; a rejected run uploads diagnostics instead. Developers
run the same policy locally through `scan.mts`.

| Component | State it keeps | Operations | Hard behaviour | What makes it correct |
| --- | --- | --- | --- | --- |
| Exemption validation (`$E/exemption-policy.mts`, `policy-values.mts`) | none | `parseExemption`, `parseExemptions`, `verifyExemptionSnapshot` | records valid alone but in conflict; lifetime boundaries; an approval withdrawn or edited between evaluation and admission | an approval is bound to one component, CVE, package and time window; a recheck passes only approvals that still hold |
| Evaluator (`$E/vulnerability-policy.mts`, `trivy-report.mts`) | the outcome under construction, two ID sets | `evaluateVulnerabilities` and its two loops | boundaries of expiry; counters and sets updated in separate branches | accounting, unblocking only by a live exact approval, order independence |
| Policy acquisition (`$E/policy-source.mts`) | shared deadline, Git identities pinned so far, records loaded | `acquirePolicy`: ref, commit, three trees, one blob per record | main moves; replies late, cut, wrong or missing; deadline shared by all requests | an atomic snapshot of one revision, or a failure |
| Main lookup and preparation (`$E/canonical-main.mts`, `prepare.mts`) | promise, timer, two streams, chunks | callbacks of one request; comparison; append | callbacks in any order, late ones after the promise settled | outputs only for a revision that was main, whole answers, no leak, termination |
| Hosted v1alpha3 run (`actions/container-evidence/action.yml`, `$E/candidate-v3.mts`, `approved-evaluation.mts`, `verify.mts`) | files of `security-evidence`, captured bytes, decision | composite steps, capture, acquire, evaluate, recheck, write, attest, upload | files change under a run that waits for the network; clock set back; failure and cancellation | signed bytes are the described and evaluated ones; rejected runs explain themselves and never look like evidence |
| Hosted scanner (`$E/scan-v3.mts`) | directory with the registry credentials, docker client, container | create credentials, two scans, write reports, remove container and credentials | client hangs, fails or is killed while the daemon works on; cleanup fails in turn; script killed | nothing left behind in silence; the cause displayed; termination |
| Local scan helper (`$L/scan.mts`, `trivy-runner.mts`, `evaluator-output.mts`, `$E/evaluate-v3.mts`) | docker client, timer, retained bytes, run directory | inspect, run, collect, clean up, save, validate, evaluate, rename, summarise | tag moved; hang, interruption, oversize and exit at once; evaluator failing half-way; helper killed | exit 0/1 is a complete policy result of the inspected image; leftovers announced; termination |
| v1alpha2 gate and writer (`$E/evaluate-vulnerabilities.mts`, `write-candidate-evidence.mts`) | none between processes but the files | gate, count, hash, write | gate and writer read the report separately, ask different fields and normalise severities in different cases | published counts are the reported ones; a document only for a report without CRITICAL findings |
| Runtime files (`$E/runtime-files.mts`) | descriptor, metadata and buffer of one read; the parser's stack | `readDocument`, `parseJson`, `writeJson` | file rewritten, truncated, re-dated, linked or replaced between two system calls; texts two readers take differently | the bytes of one version of the file, or a failure; only unambiguous documents |
| Profiles and context (`$E/profile.mts`, `context.mts`) | none | `publicationContext`, `requireDigest` | none | exact canonical context |

They interact through function calls within a process (the evaluator and the
acquisition inside the writer), through the file system and exit statuses between
the composite steps and between the local helper and its evaluator, and through
GitHub (policy repository, attestations, artifacts) and Docker, which are external
and modelled from how the code uses them.

What is not modelled, and why, is listed at the end.

## Modules

| Module | Models | Notes |
| --- | --- | --- |
| `ExemptionPolicy` | `exemption-policy.mts`, package URL rule | operators only; used by the evaluator and the acquisition |
| `VulnerabilityPolicy` | `evaluateVulnerabilities` and a later recheck of its outcome | one action per branch of a loop iteration |
| `PolicyDecision` | what the evaluator promises | abstract: the verdict in one step, by set comprehension |
| `PolicySource` | `acquirePolicy` and `githubPolicyReader` | one action per awaited answer |
| `AtomicSnapshot` | what an acquisition promises | abstract: pin main once, return its records within one window of time, or fail |
| `CanonicalMain` | `prepareCandidate`, `resolveCanonicalMain` | one action per callback |
| `CompositeRun` | the steps of `action.yml` both contract versions share | extended by the next two |
| `HostedEvidence` | `action.yml` for v1alpha3, `generateV3Evidence` | one action per composite step or writer step |
| `LegacyEvidence` | `action.yml` for v1alpha2, the gate and the writer | one action per read, append or write |
| `EvidenceHandoff` | what a run of the action promises its consumers | abstract: verify, sign, admit, cancel, end; implemented by both |
| `HostedScan` | `scan-v3.mts`, its docker clients, the daemon | one action per process event or file operation |
| `RuntimeFiles` | `readDocument` | one action per system call |
| `JsonDocument` | `parseJson`: traversal and `JSON.parse` | one action per value, key or separator |
| `JsonGrammar` | what `JSON.parse` accepts | external; recursive, for TLC only |
| `LocalScan` | `scan.mts`, `trivy-runner.mts`, evaluator process | one action per callback, spawn and file operation |
| `...Proofs` | theorems about the module named | TLAPS; of `VulnerabilityPolicy`, `PolicySource`, `CanonicalMain`, `HostedEvidence`, `LegacyEvidence`, `HostedScan`, `RuntimeFiles`, `LocalScan` |

`MC...` modules give the constants of a module their values. In each module the
operators marked *Mutant* are deliberately wrong variants of a definition; no
specification uses them. Substituting one for its definition must break the
property it is paired with in `PROJECT.json`, which shows that the property
depends on that line of the code.

### VulnerabilityPolicy

`input` is the argument; `counts`, `exempted`, `blockingCritical`, `decisions`,
`exemptions`, `warnings` and `result` are the fields of `outcome`; `applied` and
`criticalMatch` are the two ID sets. `Validate` is `validateEvaluationInput` with
`readTrivyFindings`. One iteration of `evaluateFindings` is `KeepNonCritical`,
`BlockCritical` or `ExemptCritical`, the three ways through its branches. One
iteration of `attachExemptionDetails` is `AttachRecord`. `Conclude` derives the
result and applies the size bound. Time is counted in units; lifetimes and the
seven day window are constants. The bytes of the outcome are abstracted to its
number of items. An approval record has the fields that the policy compares; text
and URL syntax are left out. Package URL parsing is reduced to what it decides:
the version it names and whether its architecture is supported. A later admission is
`VerifyExemptionSnapshot` of `ExemptionPolicy`, which compares the digests of the
approvals used with the records trusted then, as contents; `Rechecks` holds the trusted
records and times of the admissions an instance considers.

### PolicySource

A Git identity is the object it names, so equal identities mean equal content. A
tree is a function from names to entries. `CommitReplies`, `TreeReplies` and
`BlobReplies` are what GitHub (external) may answer: the right object, a part of
it flagged as truncated, another object, or right metadata over wrong bytes. Each
action after an await runs to the next request, as JavaScript does; `Proceed` is
the check of the remaining time that precedes each request, `Timeout` the timer of
the request, `RequestFails` every other failure of the transport or the status.
`served` separates the instant GitHub reads the ref from the instant the answer is
handled. Nothing assumes that timer and answer come in the right order. The messages of
`acquirePolicy` are of two kinds: those that blame a request or its answer (`Refuse`) and
those that blame the policy, for its layout, a limit, a record or the set of records
(`Reject`). An operator acts on the second kind by editing the central policy, so
`RejectionWarranted` asks that they be shown only when that policy is at fault. The
deadline shared by all requests is part of the abstract specification: `AtomicSnapshot`
opens a window of time and returns a snapshot inside it only.

### CanonicalMain

`settled`, `timer`, `chunks` and `received` are the variables of
`resolveCanonicalMain`; `streams` and `destroyed` follow the request and the
response. Data, end, error and close may arrive after the promise settled. `end`
may come with `complete` false, as Node reports a connection that broke. `Resume`
is the continuation of the await with `canonicalCommitSha`, the last deadline check
and the comparison in `prepareCandidate`: `Accept` when there is a commit to compare in
time, `Decline` otherwise. `pc` ends with the code that `preparationFailure` shows;
`RefusalIsTrue` asks that this code be true of what happened, whichever callback came
first. The check of the deadline after the await (`canonical-main.mts:117`) is a guard of
`Accept` that no property repeats. `asked` is history for the properties.

### CompositeRun, HostedEvidence, LegacyEvidence, EvidenceHandoff

`step` is the composite step, or the position in the writer; `failed` and `cancelled`
are the status functions of the runner, `verified` the outcome of the step
`verify-provenance`. `files` maps each file of `security-evidence` to its content or
`Absent`; `signed`, `admissible` and `rejected` are what was attested and uploaded.
Any step may fail; a failing step leads to the last one, whose condition is
evaluated. `Cancel` may come at any step, and `ChangeMember` is another process of
the job that rewrites or removes a member, at the steps of `UnstableSteps` and at
most `MaxChanges` times. The attestation and upload actions are external: they take
the listed files that exist and fail when there is none.

`HostedEvidence` adds the writer of v1alpha3. A report's content is its set of
CRITICAL findings; other members are told apart by a version. The policy is a
sequence of sets of approvals, one per revision of main. The acquisition appears
as the atomic read that `PolicySource` is shown to implement, at one instant
(`AcquirePolicy`), with its end at a later one (`CompletePolicy`); the evaluation
is the condition for unblocking that `VulnerabilityPolicy` is shown to keep; each
scan is one step, whose inside is `HostedScan`; each read is whole, as
`RuntimeFiles` shows for files left alone for a tick.

`LegacyEvidence` adds the gate and the writer of v1alpha2. A report is its subject
and its findings; a finding is a spelling of its severity and whether the fields
that only the gate requires are there. `Upper` and `Lower` are
`String.toUpperCase` and `toLowerCase` restricted to spellings that become a
supported severity: a dotless i has the capital of i, and the Kelvin sign the small
letter of k, so each of the two cases supports spellings that the other does not.
The gate reads, the writer counts, and the writer hashes in three separate actions.

`EvidenceHandoff` names the promise both keep: a complete, lawful handoff is
signed, at most once and behind a verified provenance; only what was signed is admitted;
diagnostics never accompany an admitted artifact and are kept for a verified provenance
only; after a cancellation nothing more is published. Lawful means consistent and approved in
v1alpha3, consistent and without CRITICAL findings in v1alpha2.

### HostedScan

`credentials` is the directory with the registry configuration, which may be left
half written; `client` is the docker client that `runCommand` waits for, `container`
what the daemon has of each named container, `removal` how `docker rm --force` went.
The daemon finishes what a client asked for even when the client is gone; `KillClient`
is the limit of `execFileSync`, `Kill` a signal to the script, for which it has no
handler. `message` is the failure that is displayed.

### RuntimeFiles

`disk` holds two file objects with kind, link count, data and times, `entry` what the
requested path names. The other process rewrites, truncates or extends, sets times
back, adds links, and repoints the path, between any two system calls; the kernel
dates every change with its clock, whose resolution is one tick. `fd`, `before` and
`bytes` are the variables of `readDocument`; `held` and `statAt` are history.

### JsonDocument

A text is a sequence of signs, a string or a primitive being one sign. `position` and
`stack` are the variables of the traversal; `stage` is where it is (at a value, a member
or a separator) or how `parseJson` ended. `JSON.parse` is external: `Parses`, a constant
operator, says which texts it accepts. `JsonGrammar` gives it the grammar of RFC 8259,
defined recursively, for the run; the proofs need only consequences of that grammar which
TLC confirms for every text of the run: `GrammarAssumption` (a primitive ends at a blank, a
comma, a closing sign or the end; a colon comes after a string) for what is accepted, and
`NeighbourAssumption` (which signs may stand beside each other: what may come first, after
a colon, after an opening sign, after a comma, and after a value inside an object, an array
or neither) for what is refused. Each place where the code throws is a condition of its
own (`TooDeep`, `NoValue`, `Unterminated`, `NoKey`, `KeySeen`, `NoSeparator`, `MoreText`). The
properties compare the outcome of the two passes with the valid, finite, shallow
documents that have no duplicate key after decoding: `NothingAmbiguousAccepted` that no
other is accepted, `NothingElseRefused` that none of them is refused. Names that
`RuntimeFiles` has too are prefixed (`JsonInit`, `JsonNext`), because one proof module
extends both.

### LocalScan

`child`, `code` and `container` are the docker client, its status and the container
at the daemon; `report` is what Trivy wrote, `size` what was retained of it; `files`
is the content of the run directory by name; `written` counts the evaluator's
products in the order of its version. `Stop` is the closure `stop`: SIGKILL always
ends a client that runs (the client belongs to the same user; a `kill` refused by
the system is not modelled). `Die` ends the helper anywhere. A container whose
creation reaches the daemon after its client ended is `late`.

## Runs

| Run | Bounds | What it shows |
| --- | --- | --- |
| `vulnerability_policy` | up to 3 findings, 2 records; times around every boundary; later admissions; 138 000 states | the loops implement `PolicyDecision`; accounting; live approvals only; details in ID order; a recheck passes only what still holds |
| `policy_source` | 2 records, several histories with lawful, unlawful and absent policies, clock 0..3 with deadline 2; 29 000 states | snapshot faithful and atomic within the window; the policy blamed only when at fault; the acquisition ends |
| `canonical_main` | 3 revisions around the run's own, bodies up to one byte over the limit, clock 0..3; 22 000 states | whole answers, first settlement wins, no leak, no stale output, true refusal codes; the lookup ends |
| `hosted_stable_recheck` | 2 findings, 2 policy revisions, clock 0..3, one set-back, one change of a member until the gate; 389 000 states | the run implements `EvidenceHandoff`; order of times; rejections explained; the run ends |
| `hosted_unstable` | the same with two changes at any time, no set-back; 665 000 states | a handoff that agrees with its document is approved, whatever changed |
| `legacy_evidence` | reports of up to 2 findings in 5 spellings, one change of a member until the gate; 3 700 states | the run implements `EvidenceHandoff`; published counts are the reported ones; rejections reported; the run ends |
| `hosted_scan` | both scans of the code; 1 200 states | leftovers explained; cause kept; the script ends |
| `runtime_files` | files of up to 3 blocks with a limit of 2, clock 0..2, 2 changes; 507 000 states | a file left alone for a tick is returned whole and as it was, or refused |
| `runtime_files_same_tick` | the same with one change | violation: see *Findings* |
| `json_document` | every document of one and two levels with up to two members, some of four levels with a depth limit of 2, every edit of one sign of the smaller ones; 173 000 states | nothing ambiguous is accepted, nothing else is refused, and every text is one or the other |
| `local_scan` | 2 images, reports of 1..3 bytes with a limit of 2, both versions; 47 000 states | exit 0/1 backed by a complete result; names honest under kills; leftovers announced; first reason kept; the run ends |
| `local_scan_retained` | the same | violation: see *Findings* |

Why the bounds are enough: no comparison in the code involves more than two
records or two findings (a conflict needs two records, an order two, a lost count
one more finding); time enters only through comparisons with a deadline, an expiry
and an approval, so instants before, at and after each suffice; two revisions show
any mixing; one byte over a limit shows truncation; one change of a member before
and one after a read show every difference between two reads; the parser's state at
a sign depends on the innermost open object or array and on whether an outer one
exists. Where a theorem covers the property, it holds beyond the bounds.

`json_document` checks deadlock: `MCSpec` lets an outcome stay, which changes no behaviour
of `JsonSpec`, so a text that the traversal can neither follow nor refuse would be reported.
The other configurations say `CHECK_DEADLOCK FALSE`: each program modelled runs once and
stops after its last step, so a state without successor is its normal end. That the
end is reached is checked as liveness, by `AcquisitionSettles`, `LookupSettles`,
`RunEnds`, `ScanSettles` and `ScanEnds`; the loops of the evaluator run over finite
arrays. The types of `PolicySource`, `LegacyEvidence` and `HostedScan` are proved
(`TypeCorrect`) and not checked again. The three abstract
specifications state safety only, so that their refinement can be proved as a whole.

### Fairness

- `PolicySource`, `CanonicalMain`: weak fairness of the clock, of due timers and of
  continuations that wait for nothing outside the process (the event loop runs what
  is ready). None of GitHub: every answer may be missing.
- `HostedEvidence`, `LegacyEvidence`: weak fairness of the steps together; each has its
  own timeout (`scan-v3.mts:60`, `verify.mts:71`, the acquisition's deadline, the
  timeout of the trivy step) or does file operations only, so none waits forever. None
  of the environment.
- `HostedScan`: weak fairness of the script's own steps and of the limit that
  `execFileSync` puts on every client. None of the docker client, the daemon or Trivy.
- `LocalScan`: weak fairness of the helper's own steps, of its timer, of the
  `close` event of an ended client, and of the evaluator's timeout. None of Docker,
  Trivy or the evaluator.
- `VulnerabilityPolicy`, `RuntimeFiles`, `JsonDocument`: none; only safety is stated. An
  evaluation loops over finite arrays, a read makes a bounded number of calls and a
  traversal moves forward with each step.

## Findings

`local_scan_retained`: `docs/local-container-vulnerability-scanning.md:210` says that
a run that exits 2 retains "`report.partial.json` if scanner output was captured".
`scan.mts` renames that file (268) before it writes `summary.txt` (270). If that
write fails (a full disk, for instance), the run exits 2 and retains the report
under the name of a complete result. The name is still honest, which
`CompleteNameIsComplete` shows: the report is whole and was evaluated.

`runtime_files_same_tick`: the comment at `$E/runtime-files.mts:107-108` says "compare
descriptor metadata afterward; a file changed during the read cannot supply evidence
bytes". Size, mtime and ctime are compared (129), and file times have the resolution
of the kernel's clock: a rewrite of the same size in the tick of the file's last change
before the read leaves all three equal, and its bytes are returned. A file that was
left alone for one tick before the read is safe, which `SettledFileReadsWhole` shows;
the processes that produce the evidence have ended before its readers start.

## Proofs

The theorems hold for all values of the constants that satisfy the named assumptions of
the modules; the assumptions say that limits, times and lengths are natural numbers,
that lifetimes are positive, and that sequences are finite. Each proof module has one
inductive invariant `IInv` and a theorem `Invariance`; the others follow from it.

`VulnerabilityPolicyProofs`: `TypeCorrect`, `AccountingHolds`, `UnblockingIsApproved`,
`RecheckHolds`, `DetailsAreOrdered`, `DecisionIsImplemented`. `TypeOK` is not inductive alone. That an exempted
decision has one of the two exemption types, and that looking a record up by its ID
yields a record of the input, holds only because the input was accepted first; `IInv`
adds that. Accounting needs a lemma on how the number of decisions with some trait
grows when one is appended (`CountAppended`), by cardinality of finite sets. Unblocking
rests on `MatchCovers` (a match has exactly the finding's scope) and on
`RecordsParsed` (every record used was validated, and none is approved in the
future). The recheck adds that digests name contents and that the trusted records were
parsed at the later time. The order of details and warnings is proved from `Ordered`:
what is attached next comes after what was attached, in the order of the IDs.
`DecisionIsImplemented` is the refinement `Spec => ImplementsDecision`. Its invariant
compares the loops with the policy for the part of the report read so far, position by
position, so that it needs no induction over the report: each decision is the policy's
(`DecisionsAgree`), the two ID sets hold the approvals that a finding read so far
matches (`MatchesAgree`), each counter is the number of positions it stands for
(`ExemptedAgree`), and the lists hold exactly the details of the records handled
(`ListsAgree`). The heart is `MatchIsCover`: the map lookup of `matchingExemption`
finds the approval whose exact scope is the finding's, because accepted records have
distinct scopes (`ApprovalsAreDistinct`) and a record always has a package URL. That
the size bound counts each approval and warning once follows from the order of the
lists (`DistinctCount`).

`PolicySourceProofs`: `TypeCorrect`, `SnapshotIsFaithful`, `RejectionsAreWarranted` and
`AcquisitionIsAtomic`, the refinement `Spec => ImplementsAtomicSnapshot` as a whole. `IInv`
says that what is pinned is what was served (`Pinned`), that each request names
what its predecessor named (`Traversed`), that the selected entries are the members of
the component's directory (`Listed`) and that what is loaded is their accepted
content (`Read`). With `Read` alone a snapshot could be a part of the directory, with
`Listed` alone it could have other bytes. `RejectionWarranted` is a conjunct of `IInv` too: a
complete tree that fails a check is the tree of the pinned revision, by `Traversed`, and a
verified blob is its record, by `Listed`.

`CanonicalMainProofs`: `TypeCorrect`, `AnswersAreWhole`, `NothingStaysBehind`,
`OutputsAreCurrent`, `FirstOutcomeStays`, `RefusalsAreTrue`. `IInv` adds `Head` (handlers
exist only for an unencoded 200 answer), `Body` (until the settlement every byte
delivered is held, within the limit) and `Order` (the revision of a reply lies between
the one main had when asked and the one it has now). `RefusalsAreTrue` needs a second
invariant, `CInv`: the code the promise was rejected with is true already when it is chosen
(`Cause`) and stays so, since the answer never changes and time does not go back.

`HostedEvidenceProofs`: `TypeCorrect`, `UploadedIsApproved`, `TimesAreOrdered` and
`RejectionsExplained`, for any number of changes at any step. `IInv` follows the run: from the evaluation on
the decision excuses every finding it does not block (`SoundDecision`), and any
document on disk excuses every finding of the report it hashes (`SoundDocument`);
`Dated` carries the times. `HandoffIsKept` is the refinement `ImplementsHandoff`,
under the assumption `Undisturbed` that no member changes from its second comparison to
the upload; a second invariant `Handling` says that members compared again hold the
captured bytes, that the files of the last steps are a lawful handoff, and what was
published by each step, and a third, `Standing`, that the run stands behind a verified
provenance and was not cancelled where it still publishes. The types have an invariant of their own, `TInv`, because they
need the order of the steps (`Sequenced`) and nothing of `IInv`.

`LegacyEvidenceProofs`: `CountsAgree` and `RejectionReported`, if no member changes between
the gate's read and the writer's (`Undisturbed`). The code has no defence against such
a change. `TypeCorrect` needs no such assumption. `HandoffIsKept` is the refinement
`ImplementsHandoff` as above, if no member changes from the gate's read to the upload
(`Untouched`). `ReadersAgree` shows that two readings of one report agree although their
cases differ, from `CaseAssumption`: a spelling that both cases support is one both
turn into the same severity, as ASCII spellings are.

`HostedScanProofs`: `TypeCorrect`, `NothingLeftInSilence`, `CauseIsKept`, for any sequence of
scans. `IInv` ties the container of the current scan to the script's position and
says that all earlier ones are gone.

`RuntimeFilesProofs`: `TypeCorrect` and `SettledReadsHold`, for any contents, limit and number
of changes. `StillHeld` is the heart of `IInv`: while the file behind the descriptor
carries the change time of the first fstat, and that time lay in the past then, its
data are what they were and the bytes read are their beginning. It is kept because
every change dates its object by a clock that is already past that time
(`TouchedFilesAreDated`).

The same module proves `AcceptedIsUnambiguous` (`JsonSpec => []NothingAmbiguousAccepted`)
about `JsonDocument`: for texts of any length and depth. The danger is that the traversal,
which takes anything up to a blank or a closing sign for a primitive, slips in a text that
`JSON.parse` accepts and then sees fewer keys than the text has. The invariant `JInv` says
that it does not (`InPlace`): in a text that `JSON.parse` accepts, the depth of the
position, counted by opening and closing signs over the whole text, is the length of the
stack; each frame holds the decoded name of every key whose colon was passed in the
object open at its level (`Seen`); no two keys passed so far in one object have one name
(`Distinct`); and no value passed lies below the limit. It is stated about all earlier
positions at once, so that no induction over the nesting is needed. A step is first
reduced to the signs it reads (`TraverseSteps`), and then each kind of sign keeps the place
(`PrimitiveKeepsPlace`, `KeyKeepsPlace` and so on). A primitive would be misread only as a
colon after a string; `AfterStructure`, that the last sign before a value other than a
blank is no string, rules that out. A key too deep is passed before the value that is
refused for it, hence the exception in `InPlace`.

`RefusedIsUnusable` (`JsonSpec => []NothingElseRefused`) is the other direction. Its
invariant `Following` adds to `JInv`, for a text that `JSON.parse` accepts: every frame has an
opening sign in the text, of the same kind, that nothing has closed since, and every key it
remembers was read in that object (`Matched`, the converse of `Seen`); and the next sign is
one the traversal goes on with at its stage (`Expects`). After each kind of sign the
neighbour rules say what comes next; where they depend on the innermost object or array,
`Matched` says that this is the top of the stack (`InnermostOpen`). Hence of the seven
conditions for a refusal five never hold in such a text, one means that it is too deep, and
a key seen before means that it is ambiguous (`RefusalIsJustified`).

`LocalScanProofs`: `TypeCorrect`, `PolicyExits`, `CompleteNames`, `LeftoversAnnounced`,
`FirstReasonStays`. `IInv` adds what is known of the client when its output is collected
(`Client`), of the report once it is judged (`Judged`), of the evaluator's products
(`Evaluated`) and of the files when the result is accepted (`Accepted`).

Only model-checked: that `JsonGrammar` satisfies `GrammarAssumption` and
`NeighbourAssumption`, which needs its recursive definition and induction over the nesting;
and all liveness. These are out of the prover's reach. Every safety property of a passing
run is stated by a theorem.

## Not modelled

- Texts: the summaries (`renderSummary`, `renderApprovedSummary`), titles, justifications
  and messages, and the escaping they need. They influence no decision. That they are
  appended, and that appending may fail, is modelled.
- The syntax of package URLs, times, digests and URLs: modelled by what it decides.
- `writeJson` is one exclusive write, modelled as the step that calls it; `safeFailure` only
  chooses a message.
- The path checks and `gh` arguments of `verify.mts`, and the variables that `context.mts`
  and `profile.mts` check: they are steps that may refuse.
- In v1alpha2 a change of a member after the gate's read, in particular between the count
  of the findings and the hash of the report: the code does not compare members again, so
  it keeps no property about such a change.
- A container whose creation the daemon completes after its removal, in both scanners:
  the code cannot see it; the properties about leftovers except it by name.
- The generated JavaScript and its check, the JSON schemas and exemption data, `.ai`
  tooling: no protocol behaviour. What a consumer does with the evidence later, apart
  from `verifyExemptionSnapshot`, is outside this repository.

## Plan

Every component with protocol behaviour has its module, every hazard listed in
`PROJECT.json` a property or the reason why it has none, and every safety property of a passing run a theorem. What further work could add: a specification of a
consumer's later admission that composes `EvidenceHandoff` with `verifyExemptionSnapshot`.
