# OComment in TLA+

OComment finds source comments, decides by policy which of them may stay, and removes or restyles the others.
These modules model its own logic from the lexical grammars to the exit code: what the scanner finds and how its report is kept up to date, which comments go, what a removal does to the text around it, how the answers of an interactive fix become edits, how the files are written, and the parts that run concurrently: the language server, the VS Code extension, the plugin limit and the plugin store.
TLC checks every module on small instances; TLAPS proves eight of them correct for every value of their constants.

`PROJECT.json` says, for every definition, which lines of the repository it stands for, which run checks which property, and which change of a definition makes each property fail.
A definition whose comment begins with "Mutant of D" is that change: a bug one could plausibly make in D.
No action of a specification uses a mutant.

## 1. The system

| Component | Where | State | Operations | Modules |
| --- | --- | --- | --- | --- |
| rewrite transaction | `rust/ocomment/src/atomic.rs` | the planned files, a rollback file and a temporary file for each | `apply_transaction`, `commit_one`, `rollback` | `AllOrNothing`, `AtomicTransaction` |
| language server: contexts | `lsp.rs` 106-166, 314-358, 849-930, 1210-1257 | `workspace_folders`, `workspace_contexts`, `standalone_contexts`, `configuration_generation` | reload, change of folders, look-up, pull of diagnostics, will-save | `LspContexts` |
| language server: documents | `lsp.rs` 293-312, 700-848, 933-1003 | `documents`, each with its text, version and incremental scanner | open, change, close, publish | not modelled |
| scanner | `rust/ocomment-core/src/scanner.rs` and its tables | none (a function) | `scan` | `Grammar`, `Lexer` (part) |
| incremental scanner | `incremental.rs` | source, report, safe checkpoints | `apply_changes` | `IncrementalScan` |
| policy, shape, style, deadlines | `scanner.rs`, `keep_blocks.rs`, `style.rs`, `types.rs`, `deadline.rs` | none (passes over the comments) | verdicts, respellings, deadlines, explanations | `Policy` |
| layouts, source map | `rust/ocomment-core/src/transform.rs` | none (functions) | `plan_edits`, the layouts, `apply_edits`, positions | `EditPlan`, `Layouts`, `Text` |
| prose reflow | `reflow.rs`, `style.rs` | none | join and break paragraphs | `Reflow`, `Text` |
| declarative profiles | `profile.rs` | none | validate, scan | `Profile`, `Text` |
| interactive fix | `interactive.rs` | the conversation: file, offer, answers | `select` | `InteractiveFix` |
| staged fix | `git.rs` | index, working files | `run_staged`, `fix_index` | `StagedFix` |
| configuration | `config.rs`, `values.rs` | the files on disk | `load_from`, `for_path_traced` | `Configuration` (part) |
| discovery | `files.rs`, `generated.rs`, `detect.rs` | targets, skips | walk, classify, dedup | `Discovery` (part) |
| runs | `cli.rs`, `output.rs`, `main.rs` | none that lasts | `run_target`, `verify_rewrite`, the exit code | `Command` (part) |
| coverage, ledger | `coverage.rs`, `ratchet.rs` | the ledger file | list, record, compare | `Command` |
| plugin instance limit | `plugin.rs` 93-133 | a counter under a mutex, a condition variable | `enter`, drop of the permit | `PluginGate` |
| plugin store | `plugin.rs` 570-766, 1101-1126 | `.ocomment/plugins/`, the lockfile | add, remove, update, verify, load | `PluginStore` |
| plugin host | `plugin.rs` 135-338 | loaded components | `load`, `scan_report`, `transform_plan` | by digest and by number only |
| VS Code extension | `editors/vscode/src` | the client, a queue of starts and stops | `start`, `stop`, `dispose` | `ServerLifecycle` (part) |
| proof gate | `rust/xtask/src/proofs.rs` | snapshots of the inputs | `verify` | not modelled |

### How they interact

A run (`cli.rs`) merges its configuration, discovers files, classifies and scans them in parallel (rayon), and collects a report per file.
Files without a built-in language may go to a profile or to a plugin; every scan by a plugin holds a permit of the instance limit, and the plugin is loaded from the store by the digest its lockfile names.
The scan finds the comments and a chain of passes decides on each (`Policy`); the verdicts become edits (`plan_edits`).
`fix` turns all of them, `fix --interactive` the accepted ones, and `fix --staged` those on added lines into write plans, and all three hand the plans to the one transaction (cli.rs:960, cli.rs:1118, git.rs:393); the staged fix adds the git index as the last plan.
The language server keeps an incremental scanner for each open document, under a configuration context it looks up per document; VS Code starts and stops the server.

### What is hard in it

- Other programs (editors, git, builds) change the files under the transaction, every system call can fail, and the process can be killed between two of them.
- The language server's handlers are concurrent and interleave at every await: contexts are replaced, folders change and documents are answered at once, and what was read before an await is used after it.
- The extension queues starts and stops, while the server crashes, revives and changes state at each of their awaits.
- The incremental scanner keeps both ends of an old report. Whether that is right depends on what the lexer of each language carries past the edit.
- Verdicts are made by passes that each see what the last one left, and explained by code that does not look at them.
- Edits, flags and comments travel in parallel sequences that are matched by position.
- A removal changes what the bytes around it mean: tokens join, blank lines meet, a YAML block scalar grows.
- The plugin limit is a hand-made semaphore: a lost wake-up would hang a run, an unchecked one would break the limit.
- The plugin store and the staged fix change several files in steps with nothing that joins them.

`PROJECT.json` lists the hazards one by one, each at its line, with the properties that cover it or what keeps it uncovered.

### What makes each component correct

- Transaction: originals are never lost before all replacements are in; what is reported is what happened; one failure never leaves a mixed tree; other people's edits made in time survive; a calm run succeeds.
- Contexts: every open folder has one context and it is the one on disk; diagnostics a client keeps under a current result id were made with the current context.
- Scans: the spliced report and its offsets are a full scan's, and every remembered offset is one a scan may restart from.
- Policy: what is named or protected stays, blocks stay whole, explanations agree with what happened, a rewrite leaves nothing to remove.
- Text: code arrives unchanged and apart, no hole is left, scalars and prose keep their text, a second run finds nothing to do.
- Interactive fix: the question shows the edit the answer applies; every comment that would change is asked about; what is written is what was answered; no removal creates a longer run of blank lines.
- Staged fix: a comment HEAD already had stays, and the working files lose exactly the comments the index loses, before it does.
- Runs: rules follow the file, explanations name the place that decided, nothing is left out of coverage, the exit code tells the tree.
- Plugins: never more than the limit, no lost wake-up, every scan ends; what the lockfile names is whole, other entries stay, and an update leaves a run the build it has read of.
- Extension: at most one server that is held, none after deactivation, a status that is true, and every request settles if what it awaits does.

## 2. The modules

| Module | What it is |
| --- | --- |
| `AllOrNothing` | what the transaction promises its callers: every edit in one step |
| `AtomicTransaction` | `atomic.rs`, one system call to a step; refines `AllOrNothing` |
| `LspContexts` | the contexts of the language server, one await to a step |
| `Grammar`, `Lexer` | the lexical grammars of thirty languages and dialects as tables over lexemes; the scan as a fold over a document, with the offsets it may restart from |
| `IncrementalScan` | `apply_changes` over `Lexer`, against a full scan |
| `EditPlan` | `plan_edits` and its two line-wise layouts as functions over lines |
| `InteractiveFix` | the conversation of `select`; extends `EditPlan` |
| `StagedFix` | `run_staged` and `fix_index`, one question to git or the file system to a step; extends `EditPlan` |
| `Policy` | every rule that decides a comment's fate, one pass to an action |
| `Layouts`, `Reflow`, `Profile` | the three layouts and the source map, prose reflow and declarative profiles, as operators over tokens |
| `Text` | grows every short document and holds the three of them to their properties |
| `Configuration`, `Discovery`, `Command` | the layers of configuration, what a run reads, and the run; each extends the one before |
| `PluginGate` | the instance limit, one critical section to a step |
| `PluginStore` | the commands on the plugin cache and its lockfile, one system call to a step |
| `ServerLifecycle` | the extension's queue, its client and its server, one await to a step |
| `MC...` | the instances for TLC, one module for each of the above that has a `Spec` |
| `...Proofs` | the theorems about `AtomicTransaction`, `LspContexts`, `InteractiveFix`, `Policy`, `Command`, `PluginGate`, `PluginStore`, `ServerLifecycle` |

### AtomicTransaction

`file[p]` is what each path holds as far as the code tells contents apart: the bytes the plan was made from, the replacement, something foreign, a link, nothing.
`journal[i]` is the rollback file of plan `i`, `temp` the temporary files.
`pc` and `at` are where the program is and for which plan, `outcome` what `apply_transaction` returned.

| Action | Code |
| --- | --- |
| `Prepare` | lines 28-74: compare, stage, claim the rollback path |
| `Recheck`, `Park`, `Install` | `commit_one`: compare again, rename away, persist and sync |
| `Withdraw`, `Unpark` | its two error paths, lines 118-126 |
| `Probe`, `Clear`, `Restore` | `rollback`, from the failing plan down |
| `Discard` | lines 93-98: the rollback files go |
| `Meddle`, `Crash` | other programs; the kill |

Preparation of one plan is one step because it changes nothing that another program reads; the recheck is the step that matters and is separate from the rename.
Two plans may name one file: the dedup of targets compares spellings (files.rs:383).
A rollback path holds the process id, so a leftover file is in the way only when the id comes round: `Init` allows it for any plan.
`edit` is a history variable: it says whether another program changed a path at a time the next recheck must notice (`"clear"`) or inside a window the code cannot close (`"racing"`).
Properties about a path speak of paths nobody changed, or of clear edits.

`AllOrNothing` has one step for all edits.
The mapping gives each path the bytes a rollback would restore, `"foreign"` once another program changed it, and moves the rest of the tree at once, when the last plan is installed.
It holds for any failures, any interference and a kill anywhere.

### LspContexts

The server's four fields keep their names; `held` is what the client was last given for a document and under which result id; `task` are the handlers in progress, each a record with the values its locals hold.
A handler that was polled runs to its next await, so a step is the code between two awaits.
Every lock is released before the next await, which makes each access one step.
Loading a configuration has no await in it and sees one state of the disk.
The client pulls diagnostics, so publications return at once.
A configuration is a number; a `session` says how many there are, which of them do not load, how many handlers overlap, and whether it is spaced: in a spaced session the client's next configuration event comes when the last one is handled.
`FoldersCurrent` speaks of spaced sessions only, because two overlapping configuration events can leave an older list of contexts in place (lsp.rs:316 to 344); that is one of the listed hazards.

### Grammar, Lexer and IncrementalScan

A document is a sequence of lexemes, two lexemes of one line standing a blank apart.
A grammar maps a mode to what ends it, what nests in it and what opens another mode; `Step` of `Lexer` adds what a table cannot say: the regex positions of JavaScript, Ruby and Perl, shell's `case`, YAML's block scalars, heredocs, the tags of HTML and of single-file components.
`PermitRestartAt` is the code's own rule for a safe offset.
`apply_changes` picks the last remembered offset before the edit that is still permitted, scans until a remembered offset behind the edit is clean again, and splices.
A scan that starts at an offset remembers that offset first, so a rescan keeps the place it began at.
`crossed` is a history variable: an edit has put a Scala character literal across the line end a rescan starts behind (section 5).
A batch of changes acts as one change; YAML's structural keeps and the dispositions are in `Policy`; where in a line an error is reported is abstracted.

### EditPlan, InteractiveFix and StagedFix

A source is a sequence of lines with at most one comment each, by kind: kept, removed, trimmed behind code, rewritten, swallowed with its line, in a paragraph that is reflowed, or doubtful after a scan that could not be completed.
`PlanEdits` builds the edits in the code's order, `Collapsed` is `collapse_created_blank_runs`, `Applied` says what happens to each line.
`InteractiveFix` starts from every possible set of files and takes every answer; `said` is a history variable with the lines the reader agreed to.
`StagedFix` asks git for the staged paths, each blob and its added lines, selects the edits that begin on one of them, rewrites a copy of the index, and finds the same edits in the working files by their context.
The transaction prepares all files, then rechecks and installs them one by one, the index last; any call may fail, and a rollback puts the files back from the last one up (`UndoOne`).
The two renames of one file are a step here, and one call at a time in `AtomicTransaction`.
Between any two steps an editor may save (a line more, a line less, code in front of a line) and another git may stage or hold the lock.
Its texts are sequences of pieces, each with an identity no part of the program sees, so that a property can say which comment was taken where several look alike.
`git diff` answers with any longest common subsequence.
Every piece but a line end is taken to have 24 bytes or more and to differ from the others in its first and last 23, so the context of an edit (`Around`) is the nearest piece on each side, with the line ends between.

### Policy

A comment has its kind, what stands before it (code, the comment before it on the same line or the next, blank lines), its length in lines, which patterns match it, its tag and age.
The actions follow the passes: `Claim` and the trails and blocks (`"scanned"`), the shape rules and allow rules (`"allowed"`), the paragraphs and respellings (`"styled"`), the deadlines (`"dated"`), and the scan of what the edits left.
What a regular expression matches, how long a reflowed paragraph becomes and what git blame answers are inputs.

### Layouts, Reflow, Profile and Text

A token is a character or a word, an offset counts the tokens before it.
`Layouts` makes the edits of the three layouts, applies them, and builds both directions of the source map; `Reflow` breaks prose and puts it back into line comments, a block comment or a Markdown document; `Profile` validates and scans.
`Text` has one action, `Grow`, which appends a piece; every property is about the document so far.

### Configuration, Discovery and Command

A table is a function over the keys its text names, so a key that is absent differs from one set to its default.
`ForPath` decides and `Trace` explains, over the same layers.
The tree of `Discovery` has files and links: to a file, to a directory, or to nothing; what is behind a link to a directory has its path through the link.
`Command` begins a run, opens its candidates in any order (the threads of the pool), and judges; `fix` and `fix --tidy` verify every rewrite and hand all of them to the transaction.
That one installs everything (`Install`), or fails and is rolled back (`RollBack`), or fails half-way through the rollback or the clean-up with files written (`Break`).
`Report` is the output, which may fail after everything else, and a reader who closed the pipe ends the run with 0.
What a scan finds is a field of the text: what is to do, what is too wide, whether it lexes, and what its rewrite would be.
`Edit` is another program, and `done.clear` says it stayed away.

### PluginGate, PluginStore and ServerLifecycle

A thread at the gate is idle, blocked in `wait`, woken, or running a scan; `active` is the counter.
`Again` is the `while` that looks once more after `wait`, `Spurious` the wake-up nobody sent, `Leave` the drop of the permit, which wakes one blocked thread if there is one.
Nothing in the critical sections can panic, so the mutex is never poisoned.

In the store, `cache` is each artifact (absent, torn or whole) and `lock` the lockfile, replaced in one rename; a command reads, writes the artifact in two steps and saves.
Every call may fail (`Stop`): a write that fails leaves a torn artifact, a save that fails after `remove` has unlinked leaves a name without a file, and neither is mended.
`overlapped` records whether writing commands overlapped; `interrupted` which artifacts a failed or killed command left torn, or gone and still locked.

In the extension, request `j` waits its turn, stops the client held, launches, probes and starts; `alive` are the servers, `loose` the clients whose stop was reported to have failed, `failed` those whose start was.
A client whose start failed is forgotten and never stopped: its server may run, exit and come back, and until the next request its events are still heard (extension.ts:156, 163).
`Crash`, `Revive` and `ChangeSettings` come at any await.

## 3. The runs

| Run | Instance | Shows |
| --- | --- | --- |
| `transaction` | three plans for three files; 4 failing calls, 3 changes by others, a kill anywhere | `OutcomeHonest`, `Recoverable`, `OneFaultAtomic`, `ClearEditKept`, `LeftoverKept`, refinement of `AllOrNothing`, and under fairness `CalmRunApplies` |
| `lsp` | nested folders and a document; three overlapping handlers, or two with a changing document, or two in a spaced session with a configuration that does not load | `CurrentIdIsCurrent`, `FoldersCurrent` |
| `scan` | eighty-five instances over thirty languages, every sequence of one-lexeme edits | `ReportIsFullScan`, `CheckpointsRestart` |
| `fix` | two files of up to two lines of seven kinds; one of up to five lines of four kinds; one of up to seven lines that are blank or removed | `AnswersAreHonoured`, `NoNewBlankRun` |
| `interactive_zip` | files with a reflowed paragraph, or damaged ones in a forced run | violated: `WrittenAsAnswered` |
| `policy` | up to three comments of four families of settings | `NamedSurvives`, `BlocksStayWhole`, `ExplanationHolds`, `RewriteSettles` |
| `text` | up to five pieces (four for columns and profiles), three lines of prose | `CodeStays`, `NoHole`, `BlockKeepsItsText`, `ProseStays`, `ReflowSettles`, `ProfileSettles` |
| `command` | every layering of a few settings; every pair of sixteen kinds of file and link under a walk; every pair of texts under six operations, with one change by another program and failures of the transaction, the output and the ledger | `TraceAgrees`, `RulesFollowTheFile`, `Accounted`, `CodeTellsTheTree` |
| `gate` | four threads, two permits, two scans each | `Bounded`, `NoIdlePermit`, under fairness `AllScanned` |
| `plugin_store` | two processes, three builds of two plugins, any call failing and kills anywhere | `LockedIsWhole`, `UpdateKeepsReaders`, `OthersKept` |
| `lifecycle` | four starts and stops over four settings, with crashes, revivals, failed probes, starts and stops | `NoServerLeftBehind`, `QuietIsSettled`, `DeactivationStops`, under fairness `EveryRequestSettles` |
| `staged` | small files in both layouts, with and without `--index-only`; one save, two acts of others, any call failing | `ExistingCommentsStay`, `MovesBothSides` |

### Why the bounds are enough

The transaction's plans interact in pairs: the failing one and one before it.
Three plans give a first, a middle and a last one; four failing calls suffice for a failed commit whose undo, removal and rollback fail as well; three changes by others can hit a file before its recheck, in the window, and again during the rollback.
Plans that share a file are left to the theorems.
For the contexts, two configuration events and one request are the smallest race, and three handlers let them all be in flight; three configurations let a broken one come between two good ones.
A scan's instances begin behind two lines, or inside what the lines above leave open, and each has the three or four lexemes whose interplay decides where the language may restart.
Five lines hold blank lines above, between and below two removals that touch or do not; seven of them hold three; two files show answers that must not leak from one file to the next.
Three comments give a rule a neighbour on either side; the settings of a family are those that can meet.
Five pieces are a comment, its neighbours and a line on either side.
Four threads and two permits give a running, a woken, a blocked and an arriving thread at once.
Two processes are the smallest overlap of the store, and two plugins show an entry that belongs to neither command.
One save moves a place, makes a second one or takes it away, and a second act stages it; two staged files let the transaction fail between them.
Four requests let a start meet a stop and a settings change while a third is under way and a fourth waits.
What TLC shows for the eight modules with proofs is proved without these bounds, section 4.

### Fairness

- `transaction` assumes weak fairness of the transaction's own steps: a straight-line program keeps making its next call. Failing calls, other programs and the kill are not fair.
- `gate` assumes weak fairness of each thread's enter, second look and leave: an unblocked thread runs, gets a mutex that is held for a few instructions, and its plugin call ends because its fuel is finite (plugin.rs:265). A blocked thread has no fair step; it depends on being woken, which is what `AllScanned` is about. Spurious wake-ups are not fair.
- `lifecycle` assumes weak fairness of what the extension does once it is a request's turn: a continuation runs, and the probe has a timeout. Nothing makes a client's start or stop end (extension.ts:161 and 182 await them without a limit), so `EveryRequestSettles` says what follows if each of them does. Crashes, revivals and what the user does are not fair.
- The other runs check safety and assume no fairness.

### What the properties leave out

Where the code does not keep a promise in general, the property says for which inputs it does, and section 5 describes the rest.

- `NoHole` leaves out comments that share a line, lines taken for a block scalar and an unterminated blank last line.
- `RewriteSettles` leaves out `max_lines` together with `wrap` or with comments that share a line; `ExplanationHolds` leaves out a comment whose marker a reflowed paragraph spells right on the way.
- `ReportIsFullScan` and `CheckpointsRestart` leave out documents in which an edit has put a Scala character literal across the line end a rescan starts behind (`crossed`).
- `CodeTellsTheTree` leaves out the last look at the root (cli.rs:1005), and runs that could not write their report or their ledger, or could not undo or clean up their transaction; it speaks of runs no other program disturbed. A transaction that fails and is rolled back is in it.
- `Accounted` leaves out a directory that was named by a link to it.
- `ExistingCommentsStay` speaks of files nobody stages again under the run, and of staging that only adds lines and takes none of HEAD's into a comment.
- `MovesBothSides` leaves out what somebody writes between a file's recheck and its rename, comments whose place is gone from the working file while a like one stands elsewhere, and, where it says that no lines are joined, an edit that begins the staged text. Each exception is needed: TLC finds the case when it is dropped.
- `LockedIsWhole` speaks of writing commands that take turns, and of the artifacts no command was interrupted at; `UpdateKeepsReaders` of the same and of readers no `remove` has overtaken; `OthersKept` of commands that take turns. Failures and kills are in all three.
- `NoServerLeftBehind` and `DeactivationStops` leave out the clients whose start or stop was reported to have failed, `QuietIsSettled` the status while such a client is still heard. `DeactivationStops` also leaves out a start asked for during the wait.
- `EveryRequestSettles` depends on every awaited start and stop of a client to end.

### The finding

`interactive_zip` checks one sentence of the repository against its code.
`offers` (interactive.rs:153) pairs the comments whose action changes bytes with the edits by position, and the comment at line 144 says that they pair up.
`plan_edits` also makes an edit for each reflowed paragraph, and in a forced run none for a comment the scan did not establish.
Then the question shows one comment and its answer changes another.

## 4. What is proved

All theorems hold for every value of the constants under the modules' named assumptions, without fairness.

| Module | Theorems | Assumes |
| --- | --- | --- |
| `AtomicTransactionProofs` | `TypeCorrect`, `InductiveCorrect`, `RecoverableCorrect`, `OutcomeHonestCorrect`, `LeftoverKeptCorrect`, `ClearEditKeptCorrect`, `OneFaultAtomicCorrect`, `TransactionIsAllOrNothing` | at least one plan, every path planned, natural bounds; all but the first: an `lstat` does not report a present file as missing |
| `LspContextsProofs` | `CurrentIdIsFresh`, `FoldersAreCurrent` | finitely many folders, a depth for each, sessions in their bounds |
| `InteractiveFixProofs` | `QuestionsAreOffers`, `PlainAnswersAreHonoured`, `NoRemovalWidensABlankRun` | finite files of known kinds of line; the second: no reflowed paragraph and no damage |
| `PolicyProofs` | `NamedAlwaysSurvives`, `BlocksAlwaysStayWhole`, `ExplanationAlwaysHolds`, `RewritesAlwaysSettle` | readable files, settings of their types; in YAML no comment is of the HTML kind (`scan_yaml` makes line comments only, and nothing turns one into that kind: scanner.rs:6620, profile.rs:209) |
| `CommandProofs` | `ExitTellsTheTree`, `RulesFollowThePath`, `CoverageLeavesNothingOut`, `ExplanationsAgree` | a path of the disk is made of names, a file is below directories and links to directories only, a run starts in a directory and not behind a link, files and texts of their types; the overrides of a configuration and the lists of a table are sequences; nothing about what flags, filters or sections say |
| `PluginGateProofs` | `TypeCorrect`, `BoundedCorrect`, `NoIdlePermitCorrect` (and `InductiveCorrect`) | finitely many threads, a limit of at least one (plugin.rs:149 rejects others) |
| `PluginStoreProofs` | `LockfileHolds`, `ReadersKeepTheirBuild`, `EntriesAreTheirOwn` | builds are of named plugins, `none` is no digest |
| `ServerLifecycleProofs` | `Ordered`, `NoneLeftBehind`, `DeactivationIsFinal`, `StatusIsTrue` | natural bound, the classes of settings are settings |

Each theorem is the property of the same run, or the invariant behind it; `PROJECT.json` pairs them.

### The arguments

*Transaction.*
`Recoverable` and `OutcomeHonest` are not inductive: that a rename in a rollback restores the original depends on what the rollback file holds, and that depends on which plans have been parked so far.
The invariant `Inductive` adds exactly that: at every point of the program, which rollback files are in use (`JournalUse`), what they hold if nobody else touched the file (`JournalHolds`), and what the file itself can be.
The proof has one lemma per conjunct and one step per system call; the action properties follow from it step by step.
`OneFaultAtomic` needs in addition how many failures a state has spent (`FaultsSpent`): a rollback has spent one, so its own calls do not fail.
The refinement maps a step to the abstract commit only if it installs the last plan, to `Disturb` if another program acted, and to a stutter or a conclusion otherwise; it uses that a path nobody touched is `"original"` or in a rollback file until then.

*Contexts.*
`CurrentIdIsCurrent` speaks of what a client holds and what the server routes to, with handlers in between.
The invariant says of every handler in progress what its locals are worth: an id with the generation of now stands for contexts of now unless a handler has replaced contexts and not yet bumped the generation; a number raised once is never met again.
`FoldersCurrent` has an invariant of its own about spaced sessions: at most one configuring handler is in progress, and at each of its awaits it knows which folders and which configuration the list it will write has.

*Interactive fix.*
`Asking` says that one is always asked about an offer of a file of the tree, that only offers are accepted, and that until an abort what is accepted is what was said.
In plain files the comments and the edits are the same sequence of lines, so the k-th question is about the k-th edit.
For blank runs, an edit covers its own line and blank lines only (`Wide`), a line goes by the edit of its own comment or as a blank beside one, and the number of blanks an edit takes is at least the shorter of the two runs it joins (`BlockTakesBlanks`).
The edits were collapsed against all removals, and only some are accepted: where one of a group of adjoining removals is refused, its line stays and nothing is joined.

*Policy.*
For each pass, a lemma says that it keeps the verdict of a comment that is named, matched or protected, and what its verdict's reason (`why`) then says about the comment.
A block is kept whole because the pass that keeps it comes last among those that look at it and every later pass asks the reason.
An explanation recomputes the reason from the comment; the invariant relates the two after every pass.
`RewriteSettles` speaks of two scans, of the file and of what the first one's edits left; what could break it is a comment that was kept for the sake of a neighbour, or of its place, when the edits have changed both.
So the proof first says in one formula of the file alone which comments the passes leave (`Lasts`, `AllowedIs`): those that stand by their own kind, under a block scalar or in a kept block, or by a tag, and that no rule about place takes.
A comment that the plan keeps lasts in the file it was kept in; what remains is that it still does in the rewrite, where the gap before it is that of its nearest neighbour left (`GapIs`).
Between two comments of a kept block nothing goes, so the block is matched as before (`MatchedStays`); a run is at most as long as it was, because a comment next to the one above was so before when no two share a line (`RunShrinks`); code before a comment was there before (`RewriteLasts`).
Under a block scalar, a comment right below the body stays because the first comment further down that the table of rules keeps is deep; that one must outlive the rules about place for the first to stay in the rewrite too (`ShieldStays`).
It does, since those rules look at kinds the table keeps only by name or for HTML (`ClaimLasts`), which is where the assumption about YAML is used.
The invariant (`Settled`) carries, pass by pass, that the verdicts are the ones `Lasts` speaks of.

*Runs.*
The invariant (`Inv`) is about a run nobody disturbed.
What it has looked at are the answers of the tree for the candidates it has taken, what is left are the others (`MetBy`), and a run that is about to write has planned exactly the files it judged to change and verified each (`ReadyBy`).
So when the last candidate is taken, in whatever order, what the run judges is what the tree holds (`LookedIsFound`).
After `Apply` the tree is another one: `FoundAfter` shows that a candidate is found in the new tree if and only if it was in the old, with the verified text in place of the planned one, so that an exit of 0 speaks of the tree as it now is.
A transaction that was rolled back leaves the tree it found; the other failures set `failed`, of which the property says nothing.
A path resolves by a function over its length; `LeadsOn` shows that a path resolved in two parts ends where it ends resolved at once, `UpsLead` that the way out of a directory leads to the root, and from these every spelling of a file resolves to the file.
For coverage, a file below the directory, and behind no link unless links are followed, is met by the second walk; the first one gives an answer for it unless a dotted name kept it out, which is the first thing `kept_out` asks.
An answer is a file, a skip or, for a filtered path, nothing, which is the second.
Of several skips of one path one always stays (`SkipStays`), and no path is both found and passed over (`FoundOrPassed`).

*Explanations.*
`ForPath` and `Trace` are two computations over the same sections: one merges values, the other keeps the last section to name each key.
Each is a recursive function over the sections, and `GoingOver` gives the value such a function has at every place from one step and the next.
`MergedLayers` says that the merged value of a key is that of the last layer that names it, and `LastIsNamed` that the trace credits this layer.
An explanation is asked for with the language and the dialect the rules ended at, where the rules themselves began with what the file was found to be: `SameLanguage` shows that this ends at the same language, and so at the same sections, with the dialect either the same or overwritten (`RulesAgain`).
The lists grow, so they have an argument of their own (`ListExplained`): `Start` credits the configured entries to the files and those from `FlagsFrom` on to the command line, and `AttributeBacked` carries along both computations that there are as many sources as entries and that every source wrote its entry.

*Gate.*
The three properties are inductive once a thread inside the gate is known to have a scan to do (`HasWork`).
A release takes one permit back and, when somebody is blocked, adds one woken thread; a woken thread that takes the permit moves its unit from the woken to the running.
So the sum of permits in use and woken threads never falls below the limit while a thread is blocked.

*Store.*
The invariant says for each point of each command what it has read and what the cache must therefore hold: a writer that takes its turn has read the lockfile of now, and an artifact it is about to name is whole, unless a command was interrupted at it: `interrupted` has each artifact from the failure that left it torn or gone until a command fills or removes it again.

*Lifecycle.*
Requests are taken in order, so at most one is under way (`Ordered`); the invariant says of the one under way what it knows of the client held, and that every server is the one held, the one being stopped, loose, or of a client whose start failed.
`StatusIsTrue` and `DeactivationIsFinal` add what the status shows at each of its awaits and which settings it has read.

Two steps recur.
The size of a set after a move comes from the library's finite-set theorems.
A fact about every number up to n is proved without induction over an operator: the numbers for which it holds are a set, and `CountingUp` (in `InteractiveFixProofs` and `CommandProofs`) shows that a set which contains 0 and the successor of each of its members below n contains them all.

### Only model-checked, and why

- `CalmRunApplies`, `AllScanned`, `EveryRequestSettles`: liveness under fairness.
- `ReportIsFullScan`, `CheckpointsRestart`: the scan is a fold over the document, so what it returns for every document needs an induction over data (`GoingOver` would serve, but the steps of a scan are lexers of their own); and the rules for some languages are not right, section 5.
- The six properties of `Text`: the layouts, the reflow and the profiles are folds and recursive functions over a document, and what they return for every document needs an induction over data.
- `ExistingCommentsStay`, `MovesBothSides`: the added lines are those of a longest common subsequence, block comments end by a function that walks the lines, and the edits are a fold.

## 5. What is not modelled, and known limits

### Not modelled

- Documents and push publication of the language server; the context cache is in `LspContexts` only as far as folders need it.
- The rest of the scanner: byte-level details of each language, error positions, and the languages no restart rule concerns. The OCaml reference and the fixtures cover them.
- `strip`, `init`, `doctor`, the reports and their wording, action pins: sequential and read-only, or text.
- In a run: `--staged` and `--base` within `Command`, `protected`, style and regular expressions of a configuration, deadlines; rollback files are no files of its tree, and two paths are one file only if they are one path.
- The WebAssembly layers under `runtime/` (vendored), the instantiation of a plugin and the checks of its answer (sequential calls that each fail the file), the tools and the release machinery.
- The proof gate: one sequential run with a proof harness of its own.
- Durability below a rename: a step is what other programs see, and a kill is of the process, not of the machine. The syncs in the code count only as calls that can fail.

The largest files without a model are the vendored runtime (about 11,500 lines), the OCaml reference (8,000) and the rendering of reports (4,600); together with the parts of the scanner that no property here is about they are most of what the map leaves open.

### Known limits of the code

Met while modelling, each outside what the properties promise.

Transaction and runs:
- A transaction whose rollback fails, or whose rollback files cannot be removed, ends with exit 2 and files written (atomic.rs:86, 93); so does a run whose report cannot be written (cli.rs:967). A run whose reader closed the pipe exits with 0 over findings (main.rs:50), and a ledger that cannot be written may be left empty.
- Coverage of a directory named by a link lists none of its files unless a limit kept them out: the run opens the link and not what is behind it, and the second walk answers `None`, which a comment says cannot happen (files.rs:470, 702-725, 735).
- An interrupted commit leaves the tree half rewritten, with the originals in rollback files (docs/getting-started.md:55 against atomic.rs:111).
- The rollback reads a failing `lstat` as "nothing to restore" (atomic.rs:132) and still reports a rollback.
- `run_target` asks for the rules of the root once more at the end (cli.rs:1005): with a dialect forced on a language the root has not, it fails with exit 2 after everything was written.
- One file under two spellings is planned twice; the second recheck fails and the whole run rolls back (files.rs:383).
- `fix` verifies that no removal is left, not that no rewrite is (cli.rs:1073); `fix --tidy --dry-run` counts removals as changes in two output formats only (cli.rs:904 against 874).
- The ledger's scan ignores the policy flags of the command line, plugins and deadlines; its keys are relative to the working directory, a path that begins or ends in a blank never matches (ratchet.rs:104), and an entry of 0 is reported as absent.
- Tables of the configuration merge key by key, and the explanation names the last file alone; the explanation calls `allow` and `style` global where an override may have set them (config.rs:561 against 675).
- docs/configuration.md:56 says a run refuses a selected symbolic link; it refuses those with a change.

Policy and text:
- Under compact, two removals around a shorter blank run are each measured against the source, so together they can leave more blank lines than there were anywhere (transform.rs:560 says otherwise); a style rewrite shifts compact's flags by one (transform.rs:512, 574).
- Deadlines are applied after the paragraphs were recorded (cli.rs:862), so a removal can fall inside a paragraph's edit (transform.rs:284 against 389).
- Allow rules come after the YAML trails were kept and can remove their first comment (scanner.rs:39, 2298).
- `NoHole`'s three exceptions: two comments on one line, a line taken for a block scalar, a blank last line without a terminator (transform.rs:562, 604).
- A sentence that a break leaves at the start of a line may read as a list item or a fence in the next run; an HTML comment's list marks are taken for a prefix (style.rs:259).
- docs/library.md:237 says a delimiter may not be a prefix of another; the code rejects equal ones (profile.rs:295). With boundaries required, a removal can then turn code into a comment; no shipped profile is of that kind.

Scans:
- Sass reads the lines below a silent comment without noting it (scanner.rs:1163), Scala's character literal reads past a line end (7748), Vue looks for `-->` behind its template's end (5972), and the tag boundary of components ignores braces that end a tag (6765, 9489): in these a rescan can differ from a full scan, where incremental.rs:43 says it is one. Scala's literal is modelled, and the documents where it bites are the ones `crossed` marks; the other three are not in `Grammar`.

Language server and extension:
- A context loaded before a reload can enter the cache after it (lsp.rs:146 against docs/editors.md:15).
- Overlapping configuration events can leave an older list of contexts (lsp.rs:316).
- An older snapshot of a document may be published last (308); a change handled during `did_open` is lost (750); a dropped batch is not noticed (761); a document opened again under the same version keeps the old diagnostics (563).
- A settings change during deactivation's stop queues a start that outlives it (extension.ts:232).
- A client whose start failed is only forgotten (extension.ts:163): a process that came up after all, or that the language client starts again, is stopped by nobody, deactivation included, and changes the status until the next request.
- A start or a stop that never ends holds every request behind it, deactivation too (extension.ts:161, 182); only the probe has a time limit.

Staged fix and plugin store:
- A `git add` between the questions (git.rs:94) and the copy of the index (332) is overwritten, and the added lines may be those of another blob than the one read.
- `fix --staged` removes a comment that begins on an added line to its end: one that HEAD had and the commit puts inside `/* */` goes with the block, even when git pairs its line with HEAD's.
- A staged fix removes a comment of the working file that looks like the staged one, with what is around it, when the staged one is no longer there (git.rs:402), where docs/ci.md:118 says it refuses rather than guesses.
- An edit at the beginning of the staged text has no context before it, so it also matches in the middle of a line, where it takes the line end of the code before it.
- A save between a file's recheck and its rename (atomic.rs:111) and a `git add` after index.lock was looked at (git.rs:334) are overwritten by a run that ends applied.
- Overlapping `plugin add`s lose an entry. After a kill or a failed write, a later `add` trusts the truncated artifact (plugin.rs:643), and only a load notices, by the digest; after a failed save behind `remove`'s unlink the lockfile names a file that is gone.

## 6. The plan

What is left, most consequential first:

1. `LspDocuments`: open, change, close and push publication, composed with `LspContexts` and `IncrementalScan`.
2. What makes rescans of Vue, Svelte and Sass differ from full scans, in `Grammar`, with the documents it concerns marked as those of Scala are.
3. The scanner's other languages.
