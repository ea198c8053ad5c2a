# TRA in TLA+

This directory is a formal model of the Translation Runtime Architecture
repository. Its core is the prototype in `src/tra-prototype/`: a pipeline that
translates a Markdown document under a *kernel* with a fixed lifecycle, verifies
the result, repairs it, hands what it cannot repair to a human, and at the
strict conformance levels refuses to return anything its verification does not
certify. Beside it stand the git SSH wrapper the team pushes with
(`src/docs/ssh_git_wrapper_v3.py`) and the scripts that keep the findings
register of the audit rounds (`src/tra-audit-skills/`).

The modules are checked with TLC on small instances and the main results are
proved with TLAPS for every instance.

## The system

| component | state it keeps | operations | models |
|---|---|---|---|
| Kernel `tra/kernel.py` | lifecycle state, execution log, candidate text, repair queue and attempt | `run`, `_transition`, `_recover`, `_execute_translation`, `_repair_loop`, `_rewrite_anchors`, the L3/L4 gate, `_export_artifacts`, `_export_forensics` | `TRAKernel`, `Lifecycle` |
| ISA `tra/isa.py` | none of its own: fills `RuntimeContext`, appends to the trail | `analyze_document`, `build_glossary`, `build_entity_table`, `translate_segment`, `verify_output`, `repair_segment` | inside the steps of `TRAKernel` |
| Policy `tra/memory.py`, `tra/policy.py` | constant arbitration stack | `PolicyResolver.wins` | `Policy` |
| Exceptions and recovery `tra/exceptions.py`, `tra/recovery.py` | the ambiguity register | `route_exception` and one procedure per code | `Recovery` |
| Review `tra/hitl.py` | none | `review_decision` | `ReviewDecision` |
| Trail `tra/diagnostics.py` | buffered records, count of written ones, the file | `append`, `flush`, `load`, truncation at construction | `AuditTrail`; `audit`, `flushed` of `TRAKernel` |
| Cache `tra/cache.py` | one entry per key, on disk, across runs | `get`, `set`, `invalidate` | `SegmentCache` |
| Anchors `tra/anchor.py` | slug tables of source and target headings, the structural map | `StructuralMapBuilder`, `register`, `resolve_slug`, `rewrite_links` | `Markdown`, `DocumentText`; its effect in `TRAKernel` |
| Leaf segments `tra/memory.py`, `tra/kernel.py` | the text at work and the code its placeholders stand for | `iter_leaf_segments`, stashing, placing, restoring | `Markdown`, `DocumentText` |
| Modules `tra/modules/` | registered modules, index of directions | `register`, `unregister`, the default and the scoped registry, selection by the kernel | `ModuleRegistry` |
| Command line `tra_cli.py`, configuration `tra/config.py` | files shared by commands | `translate`, `audit`, `validate`; conversion of `--lang`, `--level`; `from_yaml` | `Sessions`, `CommandLine` |
| Cache command `tra_cli.py` | the cache directory | `cache-clear` | `SegmentCache` |
| Reporting, validation `tra/reporting.py`, `tra/validate.py` | none | `summarize_audit`, the report, `validate_translation` | `Sessions`, properties on the trail |
| Benchmark `tra/benchmark.py` | the results of a suite | `run_all`, `run_case`, `summarize` | `Sessions` |
| Git SSH wrapper | the parsed arguments; the channel with its one timeout, the shutdown event | `parse_args`, `main`, `io_loop`, `forward_stdin`, the signal handlers | `SshArgs`, `SshTransfer` |
| Findings register, rounds 4 to 7 | the register, its summary and the text of it | `synthesize_findings_rN.py`, `normalize_rN_register.py` | `FindingsRegister` |
| Text utilities, rounds 1 to 3, report generators | none | text functions, data and layout | not modelled |

The components of the prototype interact by direct calls from the kernel; the
state they share is the `RuntimeContext` (register, history, tables) and the
audit trail, which every instruction appends to. Nothing runs in parallel inside
one process. What is hard is *partial failure and order*: which step may raise,
what has been recorded, changed or flushed by then, what text a verdict belongs
to, and what is still known after a crash, a second call or a second command. A
human, an LLM callback and third-party language modules are the environment.
Commands share three places on disk: the cache directory (`SegmentCache`), the
trail file (`AuditTrail`), and trail, artifacts and output together
(`Sessions`). The SSH wrapper is the one program with two threads: its stdin
thread and its main thread use one paramiko channel, and what one sets on it the
other waits with.

What makes each component correct:

- kernel: phases in order, never twice; a strict payload is exactly the text the
  last recorded verification found clean; no artifact without its trail; every
  run ends; the hand-off, its HALT record and its note agree;
- recovery: every failed instruction is recorded, and nothing escapes it;
- trail: what a finished run recorded is on disk, once, in order;
- cache: a hit gives the translation, the records and the notes of a miss;
- anchors: a rewritten link points at the translation of the heading it named;
- leaf segments: each leaf is translated once, in its place, and code comes back;
- modules: an unregistered module is never selected, a registered one is found,
  and the best match stays chosen;
- commands: what lies on disk after a command is of one run, a rejected text is
  never published, a report pairs only what it can explain;
- SSH wrapper: the connection is the one the arguments ask for, the upload is
  complete, exit status 0 means the output was delivered, the process ends;
- findings register: merging loses no finding, the summary is the register's.

## Modules

- `Policy`: the arbitration stack and the severity `verify_output` derives from it.
- `Recovery`: `route_exception` as a table from code to severity, action and
  whether the register gets a note.
- `Lifecycle`: what a kernel promises its caller, with four variables: whether
  the level is strict, the phase, whether the candidate is clean, the result.
- `TRAKernel`: the kernel. One action is one ISA instruction together with the
  `try/except` around it and the transition that follows; `pc` names the
  instruction that `run` executes next.
- `TRAKernelProps`: type invariant, safety, the inductive invariant, the
  refinement mapping `LC`, liveness, and the claims the code does not keep.
- `TRAKernelProofs`: the theorems.
- `SegmentCache`: `translate_segment` over the cache directory that several
  processes share, each with a kernel of its own.
- `AuditTrail`: the trails of several runs configured with the same file.
- `Markdown`: the text operations of the translator, as operators on a text of
  marks, words, code and placeholders.
- `DocumentText`: a document from the parser's tokens to the rewritten links,
  one action per block, container, leaf segment, heading and pass.
- `CommandLine`: what the values a user types become.
- `ModuleRegistry`: `register`, `unregister`, the registries the code builds and
  `_select_module`.
- `Sessions`: the commands, one after the other, over their files.
- `SshArgs`, `SshTransfer`: the arguments of the wrapper, as operators, and one run of it.
- `FindingsRegister`: the scripts of four rounds, one operator per round where
  they differ.
- `...Props` and `...Proofs` modules beside them: properties and theorems.
- `MC...` modules: instances for TLC.

The machines of the prototype are views of the same runs at several grains:
`TRAKernel` has the whole translation and the whole link rewriting as one step
each and a flush as one that cannot fail; `SegmentCache` opens the lookup of a
segment, `DocumentText` the placing of its translation and the links,
`AuditTrail` the flush, and `Sessions` keeps of a run only the files it leaves.
They are not composed: each would multiply the states of the others, and they
meet in few places (the outcomes of a run in `Sessions` are those of
`TRAKernel`).

How `TRAKernel` corresponds to the code:

| variable | code |
|---|---|
| `cfg`, `req` | `BootstrapConfig` and the constructor's flags; the arguments of `run` |
| `state`, `execution_log` | `TRAKernel.state`, `ctx.execution_log` |
| `target` | the local `target` of `run`: `ver` stands for its hash, `empty` for `target == ""`, `viol` for the issues `verify_output` would report |
| `pending`, `attempt` | locals of `_repair_loop` |
| `ambiguities` | `ctx.unresolved_ambiguities`, as the set of kinds of its notes |
| `repair_history` | `ctx.repair_history`, as the diagnostics repaired |
| `audit`, `flushed` | `AuditTrail._buffer`, `AuditTrail._flushed` |
| `exported` | how many files of `_export_artifacts` and `_export_forensics` exist |
| `outcome`, `runs` | how `run` ended; how often it was called |

Abstractions. The text of the candidate is its hash, its emptiness and its set
of issues; each rewrite of it (translation, repair, link rewriting, override)
may produce any issues the code's own rules allow: an empty text has no
terminology or epistemic issue, an in-line substitution keeps the structure,
`rewrite_links` loses the balance of code fences because it drops the closing
fence of each block. The loop over leaf segments is one step with one
`TRANSLATE_SEGMENT` record. The trail keeps of a record its instruction, code,
worst flag and text hash, and of a hand-off's record that it names the issue the
loop gave up on, as its message does. An LLM callback may return anything, may
drift a certainty marker (`CertaintyConflict`) and may raise a `TRAException` of
any class, which `translate_segment` lets through; `_recover` then leaves a note
in the register only for the classes that have one and name a term, and none
for the base class. What is assumed of it is that it does not forge the message
of a hand-off, and of a glossary that its targets are not empty: the rules alone
never make the empty text.

How `SegmentCache` corresponds to the code:

| variable | code |
|---|---|
| `kernel` | of each process: the module its kernel selected (and with it the glossary), `config.model_endpoint` and `model_version`, whether `run` got `llm_translate`, `cache.enabled` |
| `pending` | the segment `cache.get` did not find and the process is translating |
| `store` | the diskcache directory: per key no entry or one `TranslationResult` |
| `audit`, `register`, `evidence` | `AuditTrail._buffer`, the unknown terms of `ctx.unresolved_ambiguities`, the `EvidenceRegistry` |
| `results` | what `translate_segment` returned, in order |

`Hit` is the cached branch. A miss is two steps, `Miss` for the lookup and one
of `TranslateByRule`, `TranslateByLLM`, `Degrade` (the callback raised or
returned nothing) and `ConflictRaised` for the rest, because the directory is
the only state processes share and all of a miss lies between its two accesses
to it. `Boot` is the end of a process, regular or not, and the start of the
next; `Clear` and `Delete` are `tra cache-clear` without and with a pattern. A
glossary is a sequence of mappings, and a key has only the set of them:
`make_key` sorts what it hashes (`cache.py:75-82`, 99), while `_rule_translate`
applies the mappings in the order of the list. A *source* is a segment together
with the entity table hashed with it. Left out: the policy stack in the key
(constant), the signature check of `get` (it tells a tampered entry from a
stored one, and nothing here tampers), the count `invalidate` returns, and a
store that raises.

How `AuditTrail` corresponds to the code: `appended` is `_seq` and the length of
`_buffer`, `flushed` is `_flushed`, `written` and `handle` are the position of a
flush in the buffer and its open file, `file` the lines `load` would read.
`Construct` unlinks the file when it truncates, and a handle another process has
open then writes to a file without a name. A flush is one step per line;
`FlushRaises` (`OSError`) and `Exit` (the process dies) may cut it short, also
within a line, and what is written next then continues that line. Whether a
trail truncates and whether it is constructed while another is in use are free
choices; the history variable `sequential` records that neither kind of sharing
has happened yet. The constant `Reflush` says whether a caller flushes again
after an exception; the kernel does not, and with `Reflush = TRUE` TLC finds
`InOrderOnce` violated.

How `DocumentText` corresponds to the code. Parsing is markdown-it-py's and
external: the document is a nest of blocks (`nest`, `input`), each with the
marks that stand before its lines. The rest is the code's:

| variable | code |
|---|---|
| `open`, `nodes` | the `_consume_...` methods the walker is inside of, and the `StructuralMap` they fill |
| `registry` | `AnchorRegistry`: slug to placeholder, the counter, placeholder to slug, the slugs in use |
| `next` | the place of a loop: over what `iter_leaf_segments` returns, then over the zip of the headings; as the next position in the map, which is in the order of both |
| `text`, `originals` | `translated` and `placeholders` of `_execute_translation` |
| `broken` | the `BROKEN_LINK` entries of `rewrite_links` |

An inline code span is one atom, a word of the source is one atom, a translated
word is another one that has capitals (so that `_rewrite_anchors` has something
to normalize). A full-width mark is one atom and the half-width mark that
`_normalize_punctuation` makes of it another (`Full`, `Half`); the latter carries
the blank behind it, which is seen where the code sees it: a slug has a dash
there, and a number with a half-width stop before a blank leads a list item
(`NumbersWith`). A fenced block is the atoms between two fence lines. Left out
are bold, images, reference links and HTML; the collapsing of double blanks and
the blank a leaf loses at its end, which are layout; a full-width parenthesis
behind a bracket, which becomes a link; and the numbers of ordered lists, whose
items all have the mark `-`. A container is never empty: one that is has no node
below it and no leaf. `Rule` is what the rules make of each word, any function
that gives words of the target. `_rewrite_anchors` is three actions:
`NormalizeAnchors` for its first pass, `BindHeading` for a turn of its loop and
`RewriteAnchors` for `rewrite_links`.

How `ModuleRegistry` corresponds: `modules` is `_modules` in insertion order,
`directions` is `_directions`, and the ghost `retired` remembers what was
removed. A direction is a record of its languages and of what the three
conversions of the code remove or leave (outer blanks, case, blanks around the
arrow), because the properties are about which of them are applied where.

How `Sessions` corresponds: `trace`, `artifacts` and `output` are the files,
each by the run that wrote it; `runs` says of each kernel constructed what it
worked on and how it ended; `pc` and `command` are the command at work;
`results`, `last`, `report` and `verdict` are what is on the screen. A text is
`clean`, has a `blocking` issue, or is `broken`: only the kernel's gate looks at
links. A blocking text has any number of BLOCKING issues, which the benchmark
adds up. `Killed` may fall between any two writes, and `RunRaises` may end a run
at any instruction: an exception in translation, in a flush (which may have
written some lines), in an export or in the write of the output. The artifacts
are written as one. `EditSource` and `EditOutput` are the user. `verify_output`
is a function of its two texts: on those of a run it gives what it gave that
run, which is therefore no property of the model, and on a pair no run has seen
together the outcome is a free choice. Only a pair given with `--lang` is
normalized; without the option, or with an empty one, the pair of the
configuration is used as it stands there.

How `SshTransfer` corresponds to the wrapper:

| variable | code |
|---|---|
| `argv`, `i`, `config`, `request` | `parse_args` and what `main` asks paramiko for; forgotten when the transfer starts |
| `pc`, `cur`, `waiting` | the main thread: the step of `main` or `io_loop`, the stream the final drain reads, the limit its receive waits with |
| `spc`, `sendLimit`, `block`, `left`, `sent`, `readFailed`, `eofSent` | `forward_stdin`; `readFailed`: its `select` or read raised, which ends the upload like the end of the input |
| `shutdown_event`, `signalled` | the event; whether a handler set it |
| `timeout` | the timeout of the channel, which `setblocking` and `settimeout` of both threads set and each wait reads when it begins |
| `window`, `eof`, `closed`, `status`, `remote`, `buffered` | the remote end and the connection (external) |
| `written`, `writeFailed` | `sys.stdout.buffer`, `sys.stderr.buffer` |
| `drain`, `expired` | ghosts: whether the stdin thread still lived when the drain began, which limits have cut it short |

Streams are counted in blocks. Text is looked at as the code does it: whether it
is a number, what an option's name is, how a host string ends.

How `FindingsRegister` corresponds: `tracks` are the headings of the track files
in the order they are read, `register`, `summary` and `txt` the three files,
`pc` the one the script at work writes next. A finding is what the patterns of
the scripts tell apart: the form of its identifier and of its header, what its
title and its detail cite and whether they have a marker of a positive
verification, its severity and its type with what stands beside them, its
status. `Title` is the place a title is read from: rounds 4 to 6 look for it
between the header mark and a colon, so a header with a dash gives an empty one
and a header without the prefix that of another heading; r7 reads it from the
header itself. Where the file writes an id outside its header is `mention`; that
such a mention inside a heading cuts that heading short is left out.
`severity_was` and `type_was` are the two detail fields of r7's normalizer.

The scripts write a file in place. A kill within the write of the register
leaves it `torn` (`KilledWriting`): the normalizers refuse it, the synthesizers
replace it. Half of a summary or of its text is not told apart from a missing
one, as no script reads these two files.

Operators named `X_<fault>` are not part of the specification: each is
`X` with a plausible bug, kept beside it to show that a property notices it.

## Runs

| run | expected | states | shows |
|---|---|---|---|
| `KernelSafety` | pass | 1,226,894 | the safety properties and the refinement of `Lifecycle`: built-in module, review, repair, crash, second call |
| `KernelRaising` | pass | 1,641,024 | budgets 0, 1 and 2, with and without a reviewer, a module whose instructions raise: every run ends |
| `StrictEmptyPayload` | violated | | `kernel.py` says an empty output is not L3-conformant: a certainty conflict makes one that is emitted |
| `CacheSafety` | pass | 776,964 | whatever processes with other modules and LLMs store, and whatever is deleted, a rule-based run gets what the rules make under its own mappings in some module's order, with its records |
| `TrailSafety` | pass | 309,238 | runs that overlap, truncate or append, raise and die: each run's lines in order and once; where runs follow each other, what a flush reported is in the file, and the file of a run without error is that run |
| `DocumentText` | pass | 955,689 | every document of three blocks and two containers: the walker keeps its place, every heading has its anchor, the structure survives but for list items that numbers with a full-width stop become, and in plain documents each leaf lands in its place and each link at its heading |
| `FenceNotRestored` | violated | | `SKILL.md` says code is restored verbatim: `rewrite_links` drops the line that closes a fenced block |
| `ModuleRegistry` | pass | 14,080 | modules whose directions differ in spelling, registered and removed in any order: index and modules agree, the choice for a pair is the best and stays |
| `Sessions` | pass | 262,553 | translations that are refused, rejected, raise at any point or are killed, suites, audits, validations and edits over shared files |
| `SshTransfer` | pass | 492,203 | from the argument list to the exit status, with a remote that need not end its output: the request, the upload, the drain, the end or the one thing that holds it |
| `SshTruncation` | violated | | the wrapper says its final drain prevents truncation: the stdin thread can take the limit of the drain away, and the receive gives up at once |
| `FindingsRegister` | pass | 1,094,562 | up to three findings merged and normalized by the scripts of four rounds, killed between any two writes or while the register is written, and run again |

A violated run shows a disagreement between the code and what the repository
says of it. More were met than have a run; each is stated as a formula beside the
properties, and naming it in the configuration in the last column (for `CacheSafety` without its
`SYMMETRY`, and for `ModelFeedsKey` with a second model in `Models`) makes TLC
refute it:

| claim | said by | the code | configuration |
|---|---|---|---|
| `HaltIsHonoured` | `recovery.py:181` | the payload is emitted after the HALT record | `KernelSafety` |
| `EmittedTraceHasNoBlocking` | `src/README.md:133` | flags a repair resolved stay on the trail | `KernelSafety` |
| `RejectedTraceHasBlocking` | `reporting.py:4` | the gate also rejects for broken links, which put no BLOCKING flag on the trail | `KernelSafety` |
| `GivesUpOnlyOnNewBlocking` | `isa.py:1280` | `repair_segment` refuses a rewrite for the BLOCKING issues that were there before | `KernelSafety` |
| `TrailSurvivesPartialRuns` | `diagnostics.py:5` | nothing is on disk before the flush at the end | `KernelSafety` |
| `ForcedReachesHandOff` | `kernel.py:166` | a successful repair drops the forced diagnostic | `KernelSafety` |
| `EveryAttemptInHistory` | `isa.py:1236` | a failed repair leaves no attempt | `KernelSafety` |
| `NoUncaughtException` | `kernel.py:309` | around `repair_segment` only `Unrecoverable` is caught | `KernelRaising` |
| `AdvanceNeedsSuccess` | `kernel.py:306` | a failed `BUILD_GLOSSARY` does not stop the pipeline | `KernelRaising` |
| `UnknownTermsNoted` | `TRA-SPECIFICATION.md:140` | a hit does not refill the register | `CacheSafety` |
| `TrailReproducible` | `diagnostics.py:15` | a hit has its records in another order than a miss | `CacheSafety` |
| `RuleOutputsReproducible` | `isa.py:480`, `cache.py:3-5` | a key does not have the order of the glossary, the rules apply it in order: of two modules with the same overlapping mappings in another order, one gets the text of the other | `CacheSafety` |
| `ModelFeedsKey` | `tra-prototype/README.md:39` | literals do, in place of the model's name | `CacheSafety` |
| `SelectedModuleTranslates` | `SKILL.md:239` | the rule path does not use the selected module | `CacheSafety` |
| `EvidenceResolves` | `diagnostics.py:3` | a hit cites evidence of another run's registry | `CacheSafety` |
| `NotedTermsRecorded` | `isa.py:856` | the degraded path drops the unknown tokens | `CacheSafety` |
| `DegradationFlagged` | `isa.py:566` | a hit on a degraded result is not flagged | `CacheSafety` |
| `IdenticalOutput` | `isa.py:480` | two misses of one key race, and one of the callbacks fails and degrades | `CacheSafety` |
| `RemovedFreesDirection` | `registry.py:135` | `unregister` looks for the direction unstripped | `ModuleRegistry` |
| `OneModulePerDirection` | `registry.py:125` | directions that differ in case are two for `register` and one for the kernel | `ModuleRegistry` |
| `ReportPairsRuns` | `tra_cli.py:279` | the log is of the last run that exported, the trace of the last that flushed | `Sessions` |
| `SameStandard` | `validate.py:5` | also at the strict levels, `validate` does not look at links, the gate does | `Sessions` |
| `InlineRestored` | `SKILL.md:51` | a leaf is looked for with its code under the first key only; one with two spans, or in a document with code before it, is not found, or is found elsewhere | `DocumentText` |
| `EveryLeafFound` | `kernel.py:668` | as above, and for text of several lines in a container | `DocumentText` |
| `EveryBlockIsALeaf` | `memory.py:175` | a second paragraph of a list item is passed over with the first | `DocumentText` |
| `EveryBlockHasNode` | `anchor.py:11` | a table in a quote, a fence or rule in an item have no node | `DocumentText` |
| `LinksLeadHomeAlways` | `anchor.py:54` | equal headings share one placeholder, which the last of them is bound to; a link, translated to the slug of the first, is reported as broken | `DocumentText` |
| `CountsKept` | `isa.py:1010-1013`, which reports a changed count as lost structure | `_normalize_punctuation` makes a list item of a line that starts with a number and a full-width stop | `DocumentText` |
| `LinksLeadHomeMarked` | `anchor.py:119`, the docstring of `rewrite_links` | a heading with a full-width mark has a blank behind the half-width one, its slug a dash there; the fragment of the link, which has neither, is translated to another slug and reported as broken | `DocumentText` |
| `NoIndefiniteHang` | `ssh_git_wrapper_v3.py:35`, 510-513 | line 437 of the stdin thread takes the limit of the final drain away; a remote that sends no end of its output then holds the process for ever | `SshTransfer` |
| `HighestOfAll` | `synthesize_findings_r4.py:103` | a severity with something beside it ranks last, and is canonical after normalizing | `FindingsRegister` |
| `EveryTitleKept` | `synthesize_findings_r4.py:112` | the titles of all but the first of the file are kept, not of all but the leading one | `FindingsRegister` |
| `SameRootMerged` | `synthesize_findings_r6.py:3-5` | a header with a dash, or without the prefix, does not give its own title (lines 56-63), so the root cited there is not seen; r7 reads it | `FindingsRegister` |
| `RegressionsCounted` | `normalize_r5_register.py:84` | "new" is looked for before "new-regression", which contains it | `FindingsRegister` |
| `StatusesCounted` | `normalize_r6_register.py:4` | the status is read from a field the round's synthesizer does not write | `FindingsRegister` |
| `IssuesStayIssues` | the track files of rounds 5 and 6 | the normalizer takes the type from markers in the text, whatever the track says | `FindingsRegister` |

Read in the code of the wrapper and not modelled: the docstring on the exit
status (lines 456-457, -1 leaves the process as 255), the split of `SendEnv` at
line 761 (the option is always a list there).

The safety properties of the kernel's passing runs:

- `CertifiedEmission`: the gate, the anchor rewrite before it and the flush
  after it together guarantee that a strict payload carries its certificate;
- `TrailPersisted`, `ArtifactsAfterTrail`: every exit of `run` that is a
  decision flushes first, and an artifact exists only next to a full trail, also
  when the process dies between two files;
- `HandOffsAgree`: the register, the trail and the reviewer's note tell one story;
- `RepairsAtMostOnce`: the retry budget beyond one
  successful repair is dead, because a repair is refused while any BLOCKING is left;
- `EmptyPayloadExplained`: a document that vanished is explained, by the reviewer
  who asked for it or by the persisted trail, which tells that no segment was
  translated and what was raised; the register need not hold a note of it;
- `LogIsCanonicalPrefix`: also after a second call on the same kernel;
- `ImplementsLifecycle`: the kernel implements `Lifecycle`.

Those of the cache: `RuleOutputsSound` (a rule-based run gets what the rules make
under its own mappings, in the order of some module that has them: the order is
all it can pick up from others); `UnknownTermsOnTrail` (each unknown term of each
segment is on the trail, once per segment, hit or miss); `OneRecordPerResult`
(the records are those of the results, in order). Those of the trail:
`InOrderOnce`, `FlushedOnDisk`, `FinishedTrailReadable`.

Those of a document: `WalkerInStep` (one loop per kind of container, each
waiting for its own close token, stays in step with the parser, but for tables
in quotes), `EveryHeadingAnchored`, `NoLeafTwice`, `StructureSurvives` (for
*every* document with a leaf, also where leaves are misplaced: the counts are
those of the source, but for at most one list item more for each line that
starts with a number and a full-width stop), and, for the documents the
design thinks of, `PlainTranslatedInPlace` and `LinksLeadHome`. The premises of
these two (`Plain`, `Pairable`, `Unmarked`) name exactly what the table above
shows to fail, and that no text holds the mark of a fence, which would be a
fence. A document without any leaf is translated as one text and stripped, so
what speaks about places in it starts from a leaf (`Leaves # {}`).

Those of the registry: `RegisteredAreIndexed`, `IndexLeadsToModules` (with the
one way a dead entry comes about), `BestMatchServes`, `ServedUntilRemoved`.
Those of the commands: `PublishedTogether`, `OnlyAcceptedPublished`,
`MixedReportExplained` (with the ways a report may pair two runs),
`BenchBlockingOnlyLenient` (the sum of the issues against the count of the cases).

Those of the wrapper: `RequestMatchesArgv` compares the argument loop with a
definition that does not walk the list (a value is what stands after an odd
number of flags in a row); `UploadComplete`, `LimitKeptWhenAlone`,
`ZeroMeansDelivered`; `RunEnds` under fairness (once there is a reason to end, the
process ends, or for ever waits in a receive of the final drain whose limit the
stdin thread took away; a drain that begins without that thread always ends). Those of the findings:
`NothingLost` (each finding in one entry with its track, under the root it cites
where its title is read), `HighestOfPlain`, `SummaryOfRegister`, `NormalizeIdempotent`.

Each module has one type invariant `TypeOK`; it is checked in `KernelSafety`,
proved where there is a `Proofs` module, and can be named in the other
configurations.

Bounds of the kernel's runs. Three issues (one structural, one entity, one
terminology): the repair has rewrites for none, none and one of them, so every
mixture the loop can meet occurs. Budgets 0 and 2: no attempt, and one more than
is ever used; `KernelRaising` adds 1, the one the first attempt uses up. Levels
L2 and L4 take all branches (L1 is L2, and L3 is L4 with two artifacts fewer).
In `KernelSafety` `MaxRuns = 2` covers the second call of `run`; `KernelRaising`
is about the end of one call, with three kinds of document: one that cannot be
analysed, a plain one for the rules, and one with code and links for a callback.
Deadlock is not checked because a kernel that used up its calls stops.

Bounds of the cache's runs. Two processes are what a race on one key needs, and
a third would only repeat the part of one of them or of `Clear`. Three modules:
two with the same mappings in another order, and one with fewer. One source,
which keeps different unknown tokens under the different orders, and two calls
per kernel: a miss and a hit, or the same twice after a deletion; of other keys
only what is stored under them matters, and the module with fewer mappings has
one. One model and one answer; without a cache one kernel, as it meets no other.

Bounds of the trail's run. Three trails: one that is cut short, one that writes
after it and one that truncates between them. Two records give a flush that is
cut short between them, and one that is cut short after a finished one.
Deadlock is not checked because every process ends. The proofs need none of
these bounds.

Bounds of the other runs. A document of three blocks and two containers has each
kind of container in each other with a block before or after it, a heading with
a link to it and something between them, and two headings that translate alike.
It is not deep enough for a list in an item of a list, which takes three
containers and is left to the proofs. The sixteen blocks are one per branch of
the code, with full-width marks in a heading and behind a number. Seven modules
and the bundled one have each pair of spellings the three conversions treat
differently. Two kernels and one edit are what it takes for the files of one run
to meet another's; a suite of two cases has a first and a last one; two issues
in a text are more than the text counts as cases. Two blocks of input and of
output give a stream that is cut in the middle, and the other stream's block one
that is drained second; argument lists have up to three options before the host,
so that a flag may swallow a flag, a value or the host. Three findings make a
group with a leading one that is neither first nor last, and a header whose
title is read before or behind it; one edit makes a register older than its
tracks. In these machines the program stops, so deadlock is not checked but for
the registry.

Fairness: `FairSpec` of `TRAKernel` assumes weak fairness of the disjunction of
the pipeline steps, since `run` is one thread of sequential code; for
`ReviewDecision` this says that the reviewer answers the prompt. Neither the
call of `run` nor the crash is fair. `FairSpec` of `SshTransfer` assumes only that the
main thread is scheduled, which includes that its waits with a limit end. The
stdin thread, the remote and the signals are not fair, and a remote that has
reported an exit status need not end its output: `RunEnds` does not need it,
since the join and the drain have limits, and says what happens where the drain
has lost its own.

## Proofs

`TRAKernelProofs` proves, from `IssuesAssumption` alone (every issue has one of
the five subsystems of `verify_output`, and the forced diagnostic is none of
them), for every set of issues, configuration, document and retry budget:

| theorem | property |
|---|---|
| `TypeCorrect` | `TypeOK` |
| `KernelInvariant` | `KernelInv` |
| `Certified` | `CertifiedEmission` |
| `Persisted` | `TrailPersisted` |
| `ArtifactsLast` | `ArtifactsAfterTrail` |
| `OneRepair`, `OneAttempt` | `RepairsAtMostOnce`, `RepairDrainsQueue` |
| `EmptyExplained` | `EmptyPayloadExplained` |
| `LogIsPrefix` | `LogIsCanonicalPrefix` |
| `HandOffs` | `HandOffsAgree` |
| `Implements` | `ImplementsLifecycle` (`Lifecycle!LSpec`) |

The argument. None of the properties is inductive: they speak about the end of
a run and say nothing of how it got there. `KernelInv` says what is true at each
instruction. `ControlInv` ties `pc` to the lifecycle state, so that each
transition is a single step of the canonical order and a second call of `run`
is refused. `EmissionInv` carries the verdict of the gate through the flush, the
transition and the export, none of which changes the candidate. `RepairInv`
needs the lemma `AllBlocking`: under the fixed arbitration stack every
diagnostic is BLOCKING, hence a candidate a repair accepts has no issue at all,
hence the re-verification empties the queue. `EmptyInv` follows an empty
candidate from the exception or the review that made it, and with it that no
segment before was recorded as translated. Each is preserved by
every step (one lemma per part, one step per action or group of actions).
The refinement maps the lifecycle state to its index, `Conformant` to `clean`
and the raised or crashed outcomes to `failed`. `HandOffInv` says which of the
three hand-off traces exist while the review is under way.

`SegmentCacheProofs`, for every set of processes, sources, modules, mappings,
models and answers (`CacheAssumption`):

| theorem | property |
|---|---|
| `CacheTypes` | `TypeOK` |
| `EntriesSound` | `RuleEntriesSound` |
| `OutputsSound` | `RuleOutputsSound` |
| `Reproducible` | `RuleOutputsReproducible`, assuming `OrderTold` |
| `CacheInvariant` | `CacheInv`, the conjunction |
| `TermsOnTrail` | `UnknownTermsOnTrail` |
| `OneRecord` | `OneRecordPerResult` |
| `TrailInvariant` | `TrailInv`, the two with `CacheInv` and `EntriesCite` |

The results alone are not inductive, as a hit takes what is stored;
`RuleEntriesSound` is the part about the store, and it holds because the two
paths have keys of their own: an LLM run, degraded or not, never stores under a
rule key. What lies there is what the rules make under *some* glossary with the
mappings of the key, and no more can be said: the claim that it is the run's own
is refuted (`RuleOutputsReproducible` in the table above). `Reproducible` shows
that the order is all that stands between the two: where no two modules have
the same mappings in another order (`OrderTold`), the claim holds. The two
properties of the trail count records. A call appends the
unknown terms of its segment and then one translation record, and what it
adds to the trail and to the results adds the same to both counts; this needs
that a segment's unknown terms are listed once each, as `_log_unknown_cjk` does
and `CacheAssumption` states. `EntriesCite` says
that an entry cites the evidence of its own text, so that the record of a hit
is about the result of the hit.

`AuditTrailProofs`, for every set of trails and records, all of them assuming
`~Reflush`: `TrailTypes` (`TypeOK`), `OrderKept` (`InOrderOnce`), `TrailInvariant`
(`TrailInv`), `Persistent` (`FlushedOnDisk`) and `Readable`
(`FinishedTrailReadable`). `TrailInv` has two parts. `OrderInv` adds to the order
that the lines in the file come from before the position of a flush, and that
outside a flush this position is `flushed`: the next line is then later than all
that stand there. `FileInv` says, while runs follow each other, that there is
one at a time, that the file starts with the records of its finished flushes,
and that it holds nothing else until a flush raises.

`ModuleRegistryProofs`, for every set of languages, modules and values
(`RegistryAssumption`):

| theorem | property |
|---|---|
| `RegistryTypes` | `TypeOK` |
| `RegistryIndexed` | `RegisteredAreIndexed` |
| `RegistryIndex` | `IndexLeadsToModules` |
| `RegistryServes` | `ServedUntilRemoved` |
| `RegistryBest` | `BestMatchServes` |

The invariant is `RegistryInv`: the types, that names are unique, that every
registered module is the one its direction leads to, and where dead entries come
from. Uniqueness of names is needed because the index holds names: a removal must
not free a direction of another module. The kernel's choice is a least position,
which exists because positions are natural numbers (well-foundedness); that it is
kept by a removal of another module is a lemma on `Without`, which moves the
positions behind it by one and keeps their order.

`SshTransferProofs`, for any argument lists, amounts of input and output and exit
statuses (`TransferAssumption`):

| theorem | property |
|---|---|
| `TransferTypes` | `TypeOK` |
| `TransferAccounted` | `BlocksAccounted` |
| `TransferUploads` | `UploadComplete` |
| `TransferLimit` | `LimitKeptWhenAlone` |
| `TransferDelivers` | `ZeroMeansDelivered` |
| `RequestAsListed` | `RequestMatchesArgv` |

The invariant of the first five is `TransferInv`, with three parts beside the types. `UploadInv`:
no block is lost or doubled, a send waits without limit, and the stdin thread
gives up only after the event, the end of the input, a failing read of it or the
end of the connection. `DrainInv`: a drain that began alone finds the stdin thread ended
and the limit its own. `DeliveryInv`: what was written by the remote is written
locally or still buffered, and the second is excluded when the main thread has
left the drain of a stream without an expired limit, a signal or a failed write.

`RequestMatchesArgv` is about the loop of `parse_args`, which the reader of an
argument list does not walk: its definition says which positions hold values
(those behind an odd number of flags in a row), where the host is, and which of
several settings counts. `ScanInv` connects the two: the position of the loop
never stands on a value, no host lies behind it, and the configuration is what
the positions before it give. The lemmas show for each action that one or two
more positions change exactly the settings the action changes, with the last
port and login name winning and every `SendEnv` adding to the patterns.

`SessionsProofs`, for any configurations, levels, pairs and suites, and any
number of runs and edits (`SessionsAssumption`: a configuration that loads and an
override give one of the four levels or a refusal; suites are sequences of
cases):

| theorem | property |
|---|---|
| `SessionsTypes` | `TypeOK` |
| `SessionsTogether` | `PublishedTogether` |
| `SessionsAccepted` | `OnlyAcceptedPublished` |
| `SessionsReports` | `MixedReportExplained` |
| `SessionsBenchmark` | `BenchBlockingOnlyLenient` |

The invariant is `SessionsInv`. `RunInv` says at which instruction the last run
has which outcome, that the output is not its own before the delivery, and that
a case runs at its own level. `FilesInv` follows trace, log and forensic files from one
instruction to the next, and says when two of them may disagree once a command
has ended. `TextInv` carries the verdict of the gate to the output file,
`ShownInv` says that a report or a verdict lives until the next command, and
`ResultsInv` that no result is both passed and blocking, which is what makes
the counts of `summarize` add up (cardinalities of disjoint sets of positions).
The BLOCKING issues of a summary are those of all cases together, however many a
case has; what relates their sum to the count of failed cases is that both are 0
or a case has failed.

`FindingsRegisterProofs`, for track files of any length and content and any
number of edits (`RegisterAssumption`: a mention is in the file of its finding):

| theorem | property |
|---|---|
| `RegisterTypes` | `TypeOK` |
| `RegisterInvariant` | `RegisterInv` |
| `NoFindingLost` | `NothingLost` |
| `HighestKept` | `HighestOfPlain` |
| `SummaryAgrees` | `SummaryOfRegister` |
| `NormalizingTwice` | `NormalizeIdempotent` |

`RegisterInv` has three parts beside the types. `RegisterShape`: a normalized
register has plain severities and types, which is why normalizing it again finds
nothing to rewrite, and nothing more behind a word to set aside.
`RegisterOfFindings`: until a track file is edited or a write of the register is
cut short, its keys are the roots of the findings, and sources, tracks and plain
severities are those of the merged group. `SummaryInStep`: what a summary
written after the register counts, and that a finished script has shown it. That
no finding is doubled is a fact about cardinalities: the sources of an entry are
numbered by the places of its group, and the groups partition the places.

`DocumentTextProofs`, for any blocks with any texts, any rule for words, and any
number of blocks and containers. `DocumentAssumption`: the kinds of blocks; a
text is made of marks, words and code and holds no placeholder of its own; for a
word of the source the rules give one that is no number and no mark.
`RuleAssumption`: what they leave of the source language they leave alone
(`_rule_translate` replaces a term by its target text, and a word without a term
stays); only `PlainInvariant` and `PlainInPlace` use it.

| theorem | property |
|---|---|
| `DocumentTypes` | `TypeOK` |
| `DocumentInvariant` | `DocumentInv` |
| `WalkerKeepsStep` | `WalkerInStep` |
| `HeadingsAnchored` | `EveryHeadingAnchored` |
| `LeavesOnce` | `NoLeafTwice` |
| `TextInvariant` | `TextInv` |
| `StructureKept` | `StructureSurvives` |
| `LeafInvariant` | `LeafInv` |
| `PlainInvariant` | `PlainInv` |
| `PlainInPlace` | `PlainTranslatedInPlace` |

The argument for the map. `WalkInv` is `WalkerInStep` with what makes it
inductive: no container lies in a table, so the walker is at most one level
behind, and a close token it does not wait for is that of a table in a quote.
`PlaceInv` says that the containers the walker is in are nodes in rising order
which have no block yet: the item that is left is then the only node its step
changes. `BlockInv` says that two nodes have one block only when the first is an
item and the second the paragraph below it; the step that leaves an item keeps
it, because the item's first child is its only child with that block. It is what
makes the test of `iter_leaf_segments` for such paragraphs enough. `HeadingInv`
is kept since a heading is accepted wherever the parser finds one. `BoundInv`
says that what is bound is among the slugs in use; `resolve_slug` ends with one
that is not, since of one number more than there are slugs, one is free (the
pigeonhole principle).

The argument for the structure, of *every* document with a leaf. Nobody can say where the
search for a leaf's text leads in a text that holds translations already, so
`TextInv` does not: two texts are `Alike` when they are equally long and differ
at most in which word or mark of punctuation stands at a place, while no number
changes and a half-width stop stands for a stop only, of either width; from the
stashing to the restoring
the text at work is `Alike` the stashed source. Replacing a text by its
translation keeps that wherever it lands, since a translation is `Alike` its
original (`TranslatedAlike`). A stashed text restored is the text
(`CodeStashed`: the fences and then the spans, key for key), restoring keeps
`Alike`. The counts of `verify_output` look at Markdown's marks, which are
nothing of that, and for list items also at numbers with a half-width stop:
those of the source are still there, and each other one was a number with a
full-width stop in the source (`SameCounts`).

The argument for the place, of a plain document. `LeafInv` follows the
structural map while it is built: nodes are in the order of their blocks and
have their texts, and each block with something to translate has a node that is
a leaf now or will be when its item is left, because the paragraph the item
repeats is its first child. `ClosedLeaves`: at the end the leaves are the
blocks, in their order. `Shaped` says, by induction over the blocks, what the
stashing makes of the source of a plain document: each block's text at a place
of its own, a key where a fenced block was, marks between them; and that this
text, translated and restored, is the document with each block translated. It
rests on what the scan for fences and the one for lines do with a block more
(`TakenPlain`, `TakenFence`, `BlockWritten`). `PlainInv` then says that the text
at work is the stashed source with exactly the places of the leaves so far
translated. `TurnedNext` is its core: the next leaf's text is still at its own
place, and all before that place is translated or nothing to translate. If the
search finds the text earlier, the rules leave the words found there alone, so
they leave the leaf's alone, which are the same words: replaced there or at its
place, it is translated at its place and nothing else changes.

The recursive functions of `Markdown` (`Scan` and what is built on it, the fold
behind `FlattenSeq`) are not taken apart by a library theorem: those on
induction take an operator as a parameter. `AllNumbers` and `AllTexts` state
induction for *sets* of numbers and of texts, which needs no such parameter, and
`Recursion` gives the values of a function defined by recursion; all three are
proved from the well-foundedness of the natural numbers or from each other.

Only model-checked: `RunsEnd` and `RunEnds`, which are liveness properties, as
`ENABLED` and fairness are out of the prover's reach; and `LinksLeadHome` of
`DocumentText`. It speaks about what two passes over the restored text
(`NormalizeLinks`, `RewriteLinks`) and the search for heading lines compute, in
a text whose lines are put together anew; what `PlainInPlace` says of the text
before them is where a proof would begin.

## Not modelled

What is left open, and why:

- *The composition of the grains*: `TRAKernel`'s flush by `AuditTrail`, its
  translation by `SegmentCache` and `DocumentText`, its runs by `Sessions`. The
  correspondence is stated above and not checked as a refinement.
- *The text rules of the ISA*: which term, entity or marker `verify_output`
  finds and `repair_segment` rewrites, `sanitize_input`, `classify_entity`,
  `extract_entities`, `line_by_line_trace` and the ZH-EN tables. They are
  pattern matching over linguistic data without state; in the models, what they
  report is a free choice within what the code allows.
- *Inline Markdown beyond code and links*, HTML and reference links, and the
  parser itself, which is markdown-it-py.
- *YAML loading* beyond acceptance or refusal, console output, the
  deterministic clock.
- *paramiko, git and the remote*: external; modelled from how the wrapper uses
  them.
- *Rounds 1 to 3 of the findings*: the scripts hold their findings as data and
  compute counts. *The report generators* (documents, spreadsheets, charts) lay
  out what the register holds, in a straight line and without state.
- *Tests and documents*: read for what they claim.
