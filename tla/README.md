# TLA+ models of lca

`lca` is a self-contained coding agent in C++: a command-line program that
drives a planner (the *brain*) through a loop of tool calls on a workspace,
runs commands in a sandbox, fetches pages over its own HTTP and TLS stack, and
keeps itself inside a memory envelope.  This directory holds TLA+ modules of
its control logic, the TLC configurations that check them, and proofs for TLAPS.
Paths in this text are relative to the root of the repository.

    tlc -config Planner.cfg MCPlanner     # model-check one run
    tlapm FileEngineProofs.tla            # check the proofs of one module

## 1. Inventory

The program starts no thread.  Concurrency comes from outside: the processes of
a sandboxed command run against the parent that supervises them, peers of a
socket answer when they like, other programs change files, and the process can
die between two system calls.

| component | state it keeps | operations | interacts with | what makes it correct |
|---|---|---|---|---|
| agent (`agent.cpp`) | transcript, report, repetition counter, verification flags of a task; changed paths of the object | `run`, `call_tool`, `run_verification` | brain, fs_engine, proc, search, net, mem | every call is reported, the brain sees what happened, the budget holds, edits are verified, the verdict matches the record |
| model (`model.cpp`) | task classification; conversation of a local model | `HeuristicBrain::step`, `LocalModelBrain::step` | agent (transcript), net | the plan makes progress from what the transcript shows |
| mem (`mem.cpp`) | limits, account, peak, rlimits | `initialise`, `reserve`, `release`, `enforce_rlimits` | everybody who allocates in bulk, the kernel | cap below the ceiling, account exact, limits only tightened |
| proc (`proc.cpp`) | pipes, deadline, captured output of one call; audit log | `run`, `run_unchecked`, `evaluate` | the processes of a command | child reaped, output a prefix, deadline enforced, group signalled only while it exists |
| fs_engine (`fs_engine.cpp`) | the files of the workspace, backups | read, write, append, delete, copy, move, backup, restore, edit, patch, walk | disk, mem | no torn file, no loss without a backup, report agrees with the disk, paths stay inside |
| net (`net.cpp`) | one socket, one response, a redirect chain | `connect`, `read_some`, `http_exchange`, `http_request`, `inflate` | tls, peers | deadlines, framing, bounded redirects |
| tls (`tls.cpp`) | handshake transcript, keys, sequence numbers, record buffers | `handshake`, `read_some`, `write_all`, `close` | net, crypto, x509 | no data before Finished, keys switched in step, records in order |
| crypto, x509 | none that outlives a call | hashes, ciphers, certificate parsing and chain checks | tls | agreement with published vectors |
| search (`search.cpp`) | results of the engines of a query | engine fallback, merging, page extraction | net | every engine tried, no duplicate result |
| main (`main.cpp`) | options | sub-commands, option and config parsing | everybody | every option takes effect |
| buf, common | none | JSON, URLs, text, `Result` | everybody | pure functions |

Behaviour that is hard to test is listed with its line in `PROJECT.json`
(`hazards`); the properties below are chosen from that list.

## 2. Plan

Done, each with a run, and with proofs where a module `...Proofs` is named:

| part | modules | abstract specification |
|---|---|---|
| the loop of a task | `AgentLoop`, `AgentProofs` | |
| the loop with its planner and with a local model | `Planner`, `AgentProofs` | `AgentLoop`, of which it is a refinement |
| the memory budget | `MemoryGuard`, `MemoryGuardProofs` | |
| one supervised command | `ExecLoop`, `ExecLoopProofs` | |
| the file operations | `FileEngine`, `TextEdits`, `FileEngineProofs` | `FileStore` |
| diffs and patches, line by line | `Patch`, `PatchProofs` | |
| one HTTP request, and the decoders | `Http`, `Inflate`, `HttpProofs` | |
| one TLS connection | `Tls`, `TlsProofs` | `ByteStream` |
| searches, pages, robots.txt and delays | `Search`, `SearchProofs` | |

Left, in order of what it would add:

1. the recursive forms of deletion and copying and the walk, in `FileEngine`;
2. the policy and the audit log around `ExecLoop`;
3. the options and the configuration file of `main.cpp`;
4. the rest of `WholeBody` of `Http` as a theorem: an induction over the chunks of a
   body, and a definition of what a compressed stream stands for to compare with.

Parameters are constants with named assumptions, each handler is one action, and
no module a theorem is stated about uses a RECURSIVE operator.

## 3. The modules

### AgentLoop

`pc` is the place in `Agent::run`: `brain` (top of the for loop), `call` (the loop
over `reply->calls`), `close` (lines 757-795), `epilogue` (798-823).  The variables
have the names of the locals; `report` has the fields of `RunReport` the
properties tell apart; `changedPaths` is the member `changed_paths_`, which a
chat session keeps from task to task.  A reply is any member of `Replies`; a tool
ends in any outcome its handler can return (`Outcomes`): an `Error`, a result, or
a result that is not ok, with the files it had changed by then.  `Verify`,
`Window` and `Repeats` are the verification, the transcript window and the
repetition guard.  `mine` and `unverified` are history variables.

Abstracted: the contents of messages, the summary's wording, notes (they are only
handed to the brain), a declined confirmation (an `Error` of `run_command`), tools
that behave as `fs_read` does.

### Planner

`AgentLoop` with the brains of `model.cpp` in place of arbitrary replies.  `brain`
is the object `make_brain` chose, `job` what `HeuristicBrain::classify` and
`step` make of the task being run: its intent and its language.  A task is given
by what the planner looks for in its text (`Jobs`).  `Stages` are the stages of
each intent; `Plan` works out the next reply from the transcript it is shown, as
the code does: which tools it can see there, and nothing else.  A local model
answers with any of `Outputs`, which `ParseModelReply` turns into a reply: not
JSON, an object without a known tool, one call, several, `finish` with text.
`LocalFails` is a server that is not there.

Abstracted: what the planner writes into files and commands, the contents of
project skeletons (only how many files they have).

### MemoryGuard

`cap`, `used`, `peak`, `rlimitBytes`, `installed` are the members of the class;
`kernel` is the limit in force, soft and hard limit being always equal here;
`scope[s]` is what a live `MemoryReservation` holds and whether it was counted.
Sections under the mutex are one action each; `pc` and `target` follow a caller
through `initialise` and `enforce_rlimits`, whose two system calls are separate
actions.  Addition wraps at `Word`.  Abstracted: VRAM (the same code without a
peak), statistics, hardware detection (`HostUsable` is what it would allow),
RLIMIT_DATA (set to the same value), a cap of 0 (never computed).  `EnvelopeHolds`
is about the cap of the guard; the kernel's limit is wider on purpose when
`--max-ram` sets it (the budget and an eighth, main.cpp:177).

### ExecLoop

One `run_unchecked` from the fork to the return.  A call has two streams, or one
with stderr merged into it, and may be given input (`pipes`), and may have no
deadline.  The parent's `pc` is `loop` (top of the while loop: the deadline), `poll`,
`serve` (the ready descriptors `todo`, one read or write per step), `reap` (poll
found nothing), `drain`, `wait` and `collect` (after the loop).  The child and one
descendant are actors of their own: they fork, write, read, close, handle SIGTERM,
leave the process group and end at any point.  A pipe is the sequence of the
writers of its unread blocks, at most `PipeCap`; a read takes any number of them.
Time is three timers that stop once they have run out: the rest of the deadline,
the age of SIGTERM and the time since the streams were closed.  A poll may also
fail (`PollFails`, the `break` of line 398).  SIGKILL is pending until the kernel
delivers it.

Abstracted: the bytes of a block, rusage, `EINTR` (the program installs no signal
handler), the wait4 error path (the child is always the parent's own), the
millisecond lengths of polls and sleeps.  Left out: the failures before the fork
(each closes its pipes and returns), the policy and the audit log.

### FileEngine, TextEdits, FileStore

`FileEngine` is a call of the file operations: `todo` are its requests (one, or the
items of a patch), `pc` the next system call or group of them: `item` (read and work
out the result, with `TextEdits`), `save` (the backup), `open`, `fill`, `sync`,
`rename` (the steps of `atomic_write` for the target in `job`, be it a file or a
backup), `unlink`.  `disk[<<p, 0>>]` is a file, `disk[<<p, t>>]` its backup of time
`t`.  `WriteFails`, `SaveNothing`, `Refuse` and the second case of `Unlink` are the
failures.  `Die` ends the process, alone or with the power; `Boot` then loses any
text that was not synced.  `Outside` is another program.  Variables below `observed`
are history.

A text is a sequence of a few lines.  A long file is one of more than `EditLimit`
lines.  A text that is created by `fs_edit` is a `write`; all line operations of
`fs_edit` are represented by `replace`.  Renames are assumed to reach the disk in
the order they were made, as journalling file systems do.  Left out: directories,
paths outside the workspace, files above the 1 GiB limit of backups and copies, a
unified diff that deletes its file (it is written empty, 1489-1512).

`FileStore` is the abstract promise: a file changes in single steps, by the text
that was meant or not at all.  The refinement maps `content` to the files and
`intent` to the `job` for a file, or to the deletion about to happen.

### Patch

What `TextEdits` leaves open is worked out here: `unified_diff` with its table of
common subsequences and its groups with context, `parse_unified_diff` with its
headers, `apply_hunks` bottom up and one hunk per step, the search for the
place of a hunk, the trimmed comparison of lines, and the same for a block.  A
text is what stands between its newlines, so that a missing last newline and a
blank last line can be told apart.  `Bare` takes all carriage returns out of a line,
as `to_lines` does, `Chop` the last one, as `split_lines` does, and `Capped` is the bound
of `to_lines` (20000 lines, `MaxLines` here).  `section` is what
`parse_unified_diff` makes of lines that look like headers: whether the text is taken
for a unified diff at all (`known`: no word of a block patch in it), whether the section
is about this file (`ours`: no added line that begins with `++ `), and whether there
are sections about others behind it (`others`: a removed line that begins with
`-- `).  Another program may put lines on top of the file, or remove its first ones,
between the diff and the patch.

Abstracted: the other files.  A line that looks like a header is assumed to name
another file than the one the diff is for, and what becomes of that one is one of
two outcomes, patched or reported.

### Http, Inflate

`Http` is one `http_request`: `pc` goes from the addresses of the host (`resolve`,
`connect`) over `handshake`, `write` and `head` to the framing of the body
(`chunk size`, `chunk`, `length`, `to the end`), `decode`, `inflate` and `respond`,
and from there back to `resolve` for a redirect.  `conn` is the stream: what the
server sends on it, where it is cut (`cut`), how it ends (`end`), and how much has
been read (`at`); each read takes any number of bytes.  `Inflate` is the decoder on
the bits themselves, one turn of a loop per step: `Block` reads the header of a block
in the loop of `inflate_impl`, `StoredBlock` is its first branch with the offset as
the code computes it, `NextLengths` the loop over the code lengths of a dynamic block
and `NextSymbol` that of `inflate_block_body`; `place` says in which of them the
decoder is.  A checksum of zlib and the lengths of gzip are as in the code.

Abstracted: the text of fields, DNS and URLs (a redirect leads to a scheme or to
what is not a URL), the TLS stream (`Tls` shows what it is assumed to promise), a
sign or `0x` in the size of a chunk.

### Tls, ByteStream

`Tls` has the client of `tls.cpp`, a server that follows RFC 8446, and the
connection between them.  The client's `pc` is the message it waits for in
`handshake`, then `open`, `ended`, `failed` or `left`.  A message is `Parts` units, a record
any number of them, so that messages are split and joined.  A key is the epoch and
the transcript it was derived from, with the number of records it has served; a
record opens under the same key at the same number; a signature or a MAC over the
transcript is the transcript.  The connection may break, be closed or garble a
record between any two steps.  `buffer` and `readBuffer` are `hs_buffer` with
`handshake_buffer_`, and `read_buffer_`.  `sealed` is history: what the client has
sealed.

Abstracted: the bytes of messages, the choice of group, cipher and signature, the
certificate chain (`chain` is the verdict of x509 and the trust store), the key
schedule as a computation, and so a HelloRetryRequest, on which the code fails.  The
server always sends the messages of its flight; that `Finished` only asks for
`cert_verified`, which the certificate sets, and not for a CertificateVerify
(tls.cpp:789-799), is therefore not exercised.

`ByteStream` is what `Stream` (net.h) promises a reader: the blocks in order, none
twice, and an end only where the peer has said so, or where an end was forged on the
way: `forged` becomes true when a record is replaced by a close_notify in the clear,
which the code believes (section 6).

### Search

The engines of a query, the pages and the snippets, and the two things they
share: `cache` (robots_for) and `due` (`last_hit_`, as the time until the next
request to a host may start).  `ParseRobotsTxt` and `Allows` are translated line by
line; a path is a sequence of its parts.  Time passes in `Sleep` (the call to
sleep_for) and while a request is under way.  `answered`, `since` and `served` are
history.

Abstracted: HTML and its scrapers (an engine answers with a sequence of results),
the text of pages, what `Http` may return (any status, or an error).

## 4. What the runs show

| run | module | question | distinct states |
|---|---|---|---|
| `agent_loop` | `MCPlanner` | the loop with each of its brains, two tasks of four steps | 180,000 |
| `agent_stale` | `MCAgentLoop` | README: verification "after every edit and again before finishing" - refuted | |
| `memory_guard` | `MemoryGuard` | all properties of the guard, three reservations, wrap at 16 | 90,000 |
| `memory_tighten` | `MemoryGuard` | mem.h: "later calls only tighten the envelope" - refuted | |
| `exec_loop` | `MCExecLoop` | a supervised command, with output, input, and without a deadline | 479,000 |
| `exec_outlived` | `MCExecLoop` | proc.h: "a runaway child cannot outlive the agent" - refuted | |
| `file_engine` | `MCFileEngine` | two calls, one foreign change, failures and crashes anywhere | 2,400,000 |
| `patch` | `MCPatch` | every change of short texts as a diff, applied to a file that moved on | 426,000 |
| `http` | `MCHttp` | every framing, coding and redirect, cut into every kind of reads | 370,000 |
| `http_flush` | `MCHttp` | net.h: "Raw DEFLATE (RFC 1951)" - refuted | |
| `tls` | `MCTls` | a connection to six servers that may break anywhere | 657,000 |
| `search` | `MCSearch` | searches and pages of two sites, every robots.txt of three lines | 1,060,000 |

**agent_loop.**  The loop is checked with the replies its brains can really give.
`TypeOK`; `TranscriptTellsTheTruth`: the transcript is the tail of the recorded
steps with the same outcomes; `TranscriptWindow`: the task stays first and the
window holds at most `MaxHistory + 1` messages (one more than its name says) and
the note of a verification; `FinishVerifies`; `VerdictJustified`;
`ChangesReported`; `NoEarlyStop`; `PlanFinishes`: a task of the built-in planner
ends by `finish` with each of its stages done once and in order, although the
planner remembers nothing and reads its progress out of a window that drops
messages.

**memory_guard.**  `EnvelopeHolds`; `HeldFitsBudget`: what the scopes hold, summed over
them and not taken from `used_`, fits the cap in force whenever it grows, so that the
sum `reserve` compares has not wrapped; `ExactAccount`: `used_` is that sum;
`KernelOnlyTightens`.  The guard is initialised again with other
requests while reservations are held, by a process that may raise hard limits, so
that only the code's own comparison protects the limit.

**exec_loop.**  `ReapedOnReturn`: no way out of the function leaves a zombie or a
running child; `CapturedPrefix`: no hole in the captured output;
`ChildOutputRead`: what the child wrote in its last moment is read;
`SignalsOnlyUnreaped`: no signal to a process id that was given back; `Returns`:
the call ends although the command ignores SIGTERM, hands its pipes to a process
outside the group or never reads its input, and without a deadline as soon as
the child has ended.

**file_engine.**  `NoTornFile`: neither process death nor power failure leaves a
half-written file or backup, as long as fsync works; `LastVersionKept`: what a
write, an edit, a patch or a deletion replaced is in a backup at every later
moment, crashes included, unless making the backup failed, also of a file longer
than an edit reads and also when two backups share a millisecond; `MoveKeepsFile`;
`ReportAgrees`: changed files, failures and dry runs against the disk;
`NoStrayTemp`; `StoreSpec`: `FileEngine` implements `FileStore`.

**patch.**  `DoesWhatItShows`: a patch made of a diff has the effect the diff
shows, on the file it was made for always, on one whose head has changed, or as
a block, if every hunk had one place only.  The lines it leaves end without carriage
returns.  The promise has the exceptions of section 6: no line a unified diff misreads
(`Misread`), no carriage return inside a line (`Straight`), no text beyond the bound of
a diff (`Short`), no new or lost last newline, no blank line at the end of what is left
(`EndsPlainly`).
`AllOrNothing`: a hunk that finds no place leaves the file as it was, although the
ones below it have been applied by then; and a unified diff does not fail on the
file it was made for, be it beyond the bound, unless its lines are misread or have
carriage returns inside.

**http.**  `WholeBody`: what is returned is what the server meant, unless the stream
was cut where its framing cannot tell; `RequestKept`: methods, bodies and fields
along a chain of redirects; `Returns`; `TypeOK` with the bounds of what is received
and of what a stream may be expanded to.

**tls.**  `NoFalseAlarm`: a connection only fails for a reason of the server or of
the network, never because the two ends disagree on a key, a number or the
transcript; `StreamSpec`: the application data is a `ByteStream`; `NonceFresh`: no
two records that are sealed have one key and one number, whichever write fails: the
record that was not written has spent its number when `close` seals the
close_notify; `Concludes`: the connection comes to an end.

**search.**  `ObeysRobots`: a page is asked for exactly if the robots.txt received of
its site does not forbid it, against a definition of its own of which rules
concern us; `Polite`: two requests to a host that wait for a slot start the delay
apart; `SearchAnswers`: a search tells what the first engine that answered has
found.

### Bounds

`MaxSteps = 4` is the least budget in which the repetition guard (four equal
steps) and the step limit both occur; `MaxHistory = 5` shows the built-in planner
a plan of one skeleton file (`Fits`) and is exceeded by a local model; two tasks
are enough for what survives a task.  Three reservations of sizes 1, 3
and 14 under caps of 2, 6 and 7 let sums reach the cap exactly, exceed it, and wrap.
In `ExecLoop` `PipeCap = 2` with `Cap = 1` lets the cap fall inside one read;
`Output = 2` fills it; timers of one unit order deadline, grace and patience in
every way the code can see.  In `FileEngine` two calls let one restore, move or copy
what the other left behind (a backup, an unsynced text); two times let two backups
fall together or apart; two items of a patch are on one file or on two;
`EditLimit = 1` makes every file of two lines a long one.  In `Patch` texts of six
lines of two kinds with `Context = 1` have two hunks that touch, overlap or stand
apart, and repeated blocks within `Reach = 2`; what is put on top of the file is a
line of its own kind, two lines, or a line and a blank one; lines with a carriage
return at the end, inside, or of nothing else are combined in texts of two lines;
`MaxLines = 6` is exceeded by texts that differ at the bound, above and below it.  In
`Http` `ReadCap = 3` cuts every
line end and every size line in two; one body exceeds `MaxResponse`; two redirects
let a method change and be kept.  The decoders run on the streams zlib and gzip
write for short texts, one of each kind of block.  In `Tls` messages of two units
and room for two records make every order of splitting and joining; three blocks
exceed one read.  In `Search` a delay of one unit orders requests in every way.
`MaxTasks`, `Output`, `MaxCalls`, `MaxTime`, `MaxMeddled`, `Spare`, `Blocks`, `Requests`
and `Room` bound their models; no other quantity is cut off.

### Fairness

`AgentLoop`, `Planner`: none; that a loop over a bounded number of steps ends is plain
from its shape.  `ExecLoop`: weak fairness of the
parent, of time and of the delivery of SIGKILL; nothing is assumed of the command.
`Http`: weak fairness of the sequential code; the server may end its stream, break
it off or fall silent.  `Tls`: weak fairness of the client and of a server that
follows the protocol; the network may do anything but keep silent for ever.

### Deadlock

`AgentLoop` stops after `MaxTasks`, a call of `ExecLoop`, `Http` or `Tls` when it has
returned, `FileEngine` after `MaxCalls`, `Patch` after its patch; their runs do not
check deadlock.  Where the property is liveness it covers it.  The runs of
`MemoryGuard` and `Search` do check it.

## 5. What is proved

All proofs are hierarchical, with one step per action, and rest only on the named
assumptions on the constants.

* `AgentProofs`, of the loop: `TypeCorrect` for every budget, window, set of replies and
  configuration, from the three assumptions of the module.  That a task is
  verified at most once is not inductive: the proof carries that `verifiedOnce` is
  true as soon as a verification step is recorded and that a task with `edited` has
  an edit step.  `FinishVerifies` needs that a finishing step which edited is
  verified in the same step; `VerdictJustified` that `report.verified` has a passed
  step; `TranscriptWindow` a bound at the top of the loop only, since a step may
  append any number of results; `RepetitionBounded` that under replies with one
  first call the counter equals the number of completed steps minus one, and
  `NoEarlyStop` that under any replies it is below it (`EarlyInv`).
  `ChangesReported`: what a failed patch has changed is in `changedPaths`, and the
  epilogue that copies them is the only way to the end.  `TranscriptTellsTheTruth`
  compares the results shown, counted from the end, with the steps that are no
  verification, counted from the end: a call appends to both lists (`Behind`
  counts what stands behind a position), a window drops the front of one.
* `AgentProofs`, of its planner: the loop with it implements the loop with any brain
  (`PSpec => Spec`, every reply of the planner and of a parsed answer being one of
  `Replies`), from which what is proved of the loop follows for every set of tasks.
  `PlanAlwaysFinishes` from `PlanInv`: at every moment some k stages of the plan are
  done, the report has the steps of those k and, as long as the planner is asked
  again, the transcript shows a result of exactly them (`Done`); `Room` bounds the
  transcript by k until the verification, so that the window drops nothing it
  reads; the verification comes with the last stage but one or later, so that what
  it drops is not asked for again; and the first calls of two stages differ, so
  that the repetition counter stays at 0.
* `MemoryGuardProofs`: the types; `EnvelopeAlwaysHolds` from `cap <= CapCeiling` and
  `used <= peak`; `AccountAlwaysExact`: below the ceiling a
  sum cannot wrap, the bytes of a reservation are none of those held before it, and
  those of a release are among the ones counted; `HeldAlwaysFitsBudget`, in which the
  guard of `reserve` is turned into a fact about the bytes the scopes hold
  (`HeldFinite`): `used + bytes` modulo the word is no less than `used` only when it is
  the sum; `KernelAlwaysTightens` under the
  assumption that one thread calls or the process may not raise limits (two
  privileged threads can undo each other between getrlimit and setrlimit).
* `ExecLoopProofs`: the types, `ReapedOnReturn`, `CapturedPrefix`,
  `SignalsOnlyUnreaped` and `ChildOutputRead`, for every number of blocks, cap,
  capacity and timer.  `ReapInv` ties the child's state to the program counter
  (reaped exactly in `drain` and `done`) and to `status`; from it no action that
  signals is enabled once the child is reaped.  `DrainInv` says that, unless poll
  failed, a stream is closed only when its pipe is empty and nobody can fill it
  again, and that what is still open when the child is reaped is still in `todo`.
* `FileEngineProofs`: every invariant of the run, for every set of files, lines and
  calls, and that the engine implements the store.  `TypeInv` says which request is
  being worked on and what its `job` is for, in each place of `pc`.  `CleanInv`, for
  `NoTornFile`: as long as fsync has not failed nothing is unsynced, what is about to
  be renamed is synced, and no text in sight holds the line `Garbage`.  `KeptInv`, for
  `LastVersionKept`: while a backup is made its file is as it was and the job holds
  all of it; when the file is replaced or unlinked the backup is there.  `MoveInv`
  says where the file is in each step of a move, and `TodoInv` that a move is the
  only request of its call, so that it starts from the files as they were.
  `ReportInv`, for `ReportAgrees`: a file differs from what it was only if it is among
  the changed ones; a dry run never gets past `item` (`DryInv`).  In the refinement
  only `RenameTemp`, `Unlink`, `MoveByRename`, `Boot` and `Outside` change the store;
  everything else stutters or declares an intent.
* `HttpProofs`: `RequestAlwaysKept` from the method, which is the caller's or GET;
  `ReceivedBounded` and `PlainAlwaysWhole` from `BodyInv`: while a body is read, what is
  held of it is the prefix of what the server sends, as long as what has arrived
  since the head (`PieceAdded`), or nothing, when the stream ended in the head.
  `TypeCorrect` from `BytesInv`: the chunks put together are no more than what has been
  gone through of the body, and the decoder is in its types.  The latter needs that
  a number is only read where there are bits for it (`GetIs`), that a symbol is looked
  up inside its code (`DecodeIs`: as long as no shorter word is a code, a word is not
  below the first code of its length), and that a match repeats what is there
  (`MatchTyped`).  Nothing is assumed of the bytes.
* `PatchProofs`: both invariants of `Patch`, for all texts, every bound, every amount of
  context and every change to the head of the file.  Of carriage returns only this is
  assumed: a line without any has none at its end.  First the diff: the walk along the
  table
  and the replacement of all lines leave a `Diff`, a trace through both texts
  (`DiffLinesDiffs`, whatever the table holds), and the hunks cut out of it are
  `Aligned` (`UnifiedAligned`): in order, apart, each a run of lines of both texts at
  the place it names, with texts that agree in between.  Parsing keeps the
  places whatever is taken for a header (`ParsedSits`), and everything when nothing
  is (`PlainlyParsed`); a block that takes one run of lines is one hunk
  (`BlockOfOne`).  Then the patch.  `PatchAllOrNothing` from `FailInv`: until one is
  stored the file is what the other program left; what is not misread is one section,
  about this file (`Understood`); and while nobody has touched
  the file the lines above the hunks that were applied are those of the text before
  without the carriage returns they end in (`Agrees`), so that the next hunk is found
  at the place it names, and nowhere nearer (`FoundWhereItSits`); a text cut at the bound
  is a beginning of the whole (`CappedIs`).  `PatchDoesWhatItShows` from `ShowInv`: the
  lines are what was put on top, the text before down to the next hunk, and the text
  after from there on, all three as `split_lines` reads them (`Stands`, over `Source` and
  `Target`; that reading and drifting commute is `UnixDrift`).  A hunk keeps this when it
  lands where it is meant to
  (`HunkLands`): on the file itself because nothing is nearer, and elsewhere because
  it has one place only and that is one.  With all hunks in, the lines are the
  text after (`WholeText`), and `EndsPlainly` is what its newline needs.
* `TlsProofs`: `NonceFreshAlways` from `KeyInv`: before its Finished the client has
  sealed nothing; from then on it seals with a key whose number is above all it was
  used with, written or not; what it sealed before had a key of another epoch, and it
  is left with that one only when the Finished could not be written.
  `NoFalseAlarmAlways` from
  `AgreeInv`, which says how far apart the two ends can be.  `ClientView` and
  `ServerView` are where each is: the key it works with and its number, how much of
  the flight it has read or written, how many blocks, whether the end was told.
  `DownInv`: the records on their way lead from the one view to the other (`Leads`,
  one record after another), unless a record was lost for a reason (`Excused`).
  `UpInv` is the same in the other direction, where what the server waits for is
  what comes first.  `ClientInv` and `ServerInv` tie the views to the program
  counters, buffers and transcripts.  Hence a record that arrives opens, a message
  that is complete is the one waited for, and a Finished agrees; every action that
  fails has its excuse.  `TlsImplementsStream` maps what was answered, what was given
  to the caller and the end of the connection to a `ByteStream`: what the client
  has is a beginning of what was answered, because its view is not ahead of the
  server's, and an end is only reported behind the server's notice or behind one
  that was forged in the clear.
* `SearchProofs`: `PoliteAlways` from `PoliteInv`: what is due of a host covers what is
  missing since the last request to it, and a request that has its slot is covered
  by what it still has to wait.  `RobotsAlwaysObeyed` from `RobotsInv` (the cache has
  what was parsed of the file that was served; a page is denied, or asked for, only
  as `Allows` says of it) and `AllowsUnlessForbidden`, by which the parser, folded
  over the lines, agrees with the definition of which lines concern us: after n lines
  it knows the paths of the rules among the first n (`KnowsAlways`, an induction
  over n).  `SearchAlwaysAnswers` from `AnswersInv`: the engines still to be asked and
  those that answered are all engines of the query, and once one had results they
  are kept, and nothing but the snippets in them changes.

What a recursive function computes is proved by induction over a set of naturals
(`Induction` of `SearchProofs`, `HttpProofs` and `PatchProofs`, from the well-foundedness of `<`); the library's
induction theorems, whose parameter is an operator, are out of the provers' reach.

Only model-checked: liveness (the two `Returns`, `Concludes`), as
it rests on ENABLED; `WholeBody` beyond bodies that are
delimited by their length, for which the theorem would need a definition of what
chunks and compressed streams stand for.

## 6. Differences between the text and the code

Those a run demonstrates are listed as findings: `agent_stale`, `memory_tighten`,
`exec_outlived`, `http_flush`.  Others met while modelling, visible in the modules'
actions:

The agent and its planner

* A reply without calls ends a run before any verification (agent.cpp:694-699), and
  803 makes it a success, against the comment of line 798.
* A result that is not ok is not counted as a failure (720), so a failed command
  can leave `task completed`; ` (no verification command available)` is also
  appended when one is configured but did not run (819).
* The repetition guard compares only the first call of a reply and stops in the
  fourth equal step (757-764); it comes before the verification of that step.
* The window of the transcript keeps `max_history_messages + 1` messages (768).  A
  plan longer than the window is started over, as the planner reads its progress
  from it.
* Skeletons in JavaScript, Rust and Go are called verified after their files were
  listed (model.cpp:531-546), and the language of the workspace goes before the one
  of `--language` (447-452).
* Some keys of `config/lca.conf.example` are not read by the program.

Commands

* A dry run counts a verification as passed that was never run (proc.cpp:248-254).
* A child that closes its streams is killed five seconds later without SIGTERM,
  whatever its deadline (507-519).
* The drain of 408-431 cuts the block that crosses the cap without setting the
  truncation flag.
* The read loop (451-464) ends only when the pipe is empty: writers that never let
  it run empty hold the call past its deadline.  `Output` is finite in the runs.
* A child that exits in time while a descendant keeps the pipe busy is reported as
  timed out (535).

Files and patches

* `fs_copy`, `fs_move` and `fs_restore` overwrite their target without a backup
  (fs_engine.cpp:1040-1120), and a backup that fails is passed over (960), against
  "every mutation can keep a copy" in README.md:20; two backups in one millisecond
  share a name, so that only the newest version of the two is kept (1103).
* An edit of a file longer than four times `max_read_bytes` drops the rest of it
  (1219, 982, 1463); the backup has it.
* A unified diff takes a file it cannot read for empty (1497-1499), and a dry run
  judges the second section of one file against the disk.
* "fuzz = 0 (a hunk either matches exactly or is reported)" (README.md:93): lines are
  compared without their outer white space, and a hunk is looked for up to 199
  lines away.
* A removed line that begins with `-- ` is taken for the header of the next file
  (492), and what follows is applied to the file it names; an added one that begins
  with `++ ` names the file of its section anew (503), so that the whole section is
  applied, and in general reported failing, elsewhere (1488).  A unified diff that
  contains `*** Begin Patch` or another word of a block patch is taken for one (1408)
  and refused.
* A diff is made of lines without any carriage return (`to_lines`, 296) and applied to
  lines that have lost only their last one (`split_lines`, buf.cpp:77): a patched file
  has no carriage returns at the end of its lines left, and a line with one inside
  does not match its own diff.
* A diff stops at 20000 lines of each text (301): what is longer is shown, and
  patched, as if it ended there, against the comment of line 306 that a file above
  the bound of the table gets a whole-file hunk "which is still correct".
* A patched text that ends in a blank line loses it, and a change of the last
  newline alone is not applied (580); the marker for a missing last newline is
  written where there is one (299).
* A block patch with several `@@` sections for a file is one block.

Network

* An alert is looked at before the keys are (tls.cpp:229-236): one in the clear is
  believed at any time, and a close_notify in the clear becomes the end of the stream
  in `read_some` (384), so that a cut there is taken for a clean end, against the
  comment of line 245, "TLS 1.3 forbids this", whose branch it never reaches.
* `Finished` is accepted once the certificate is (tls.cpp:789-799), whether a
  CertificateVerify has come or not.
* "timeout per phase" (net.h:70): `connect` puts the socket back into blocking mode
  (net.cpp:141, 170), so that no read ever times out; `Returns` excepts a peer that
  stays silent.
* A head that is cut off over plain TCP is taken for a response without a body
  (482-484).
* A ServerHello must lie in one record, although tls.cpp:808 speaks of fragmented
  messages; a request for a client certificate and a KeyUpdate are not supported,
  and `NoFalseAlarm` excepts them.
* search.h:140 "consecutive requests to one host respect a minimum delay": requests
  for robots.txt and redirects do not wait.
* The groups of robots.txt that concern the program are those whose name is a part of
  `mozilla`, the start of the default user agent (search.cpp:869-870), and neither `lca`
  nor the caller's agent; of two User-agent
  lines in a row the second replaces the first, and the rules for everybody are
  merged with those for us.  A robots.txt that could not be had allows everything
  for the life of the process; the target of a redirect is not checked; Crawl-delay
  is parsed and not used.
* The text of an error page can become a snippet (search.cpp:679-682), and an unknown
  engine is DuckDuckGo.

## 7. Not modelled

crypto, x509, buf and common are computations over words and strings without
state of their own (what `Patch` and `Http` need of buf is in those modules); the
HTML scrapers, project map, formatting and logging are text processing; a negative
number of results is not asked for; build files, scripts and tests are not part of
the program.  Everything else without a module is in the plan.
