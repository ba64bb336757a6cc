# file_restore_demo in TLA+

Specifications of the backup and restore command of this repository
(`src/main.c`, `src/file_backup.c`, `src/file_restore.c` and the library under
`lib/`), model-checked with TLC and, in part, proved with TLAPS. Paths below are
relative to the repository.

The command keeps two lists of jobs, `/etc/restore/backup.json` and
`/etc/restore/restore.json`. `-b -a FILE` puts a file on the first list, `-b -d`
works the list off: each file is copied below the backup directory, the MD5 sums
of both are compared and the attributes copied over. `-r` does the same in the
other direction. It is a short-lived command without a lock, a log or a daemon:
everything it keeps is in the two lists and in the copies, several invocations may
run at once (cron, two administrators), any of them may be killed, and any system
call may fail.

## 1. Inventory

| Component | Source | State | Operations | What makes it correct |
|---|---|---|---|---|
| Command line | `src/main.c` | flags, the list of paths, the working directory | one `backup()`/`restore()` per path, exit status | a success is true of the last path; a path is not looked up in a wrong directory unnoticed |
| Job lists | `src/file_backup.c`, `src/file_restore.c` | the two JSON files | `init_*`, `add_*_job`, `do_*_job` | a job acknowledged stays on the list until it has been carried out |
| Job context | `lib/job_proxy.c` | `FJOB_CTX`: a JSON array and a type | load, append, work off and remove, save, release | removes only what succeeded, keeps the order, terminates |
| Replacing a file | `lib/file_utils.c` (`demo_file_data_cover`) | list, temporary file, working directory | `mkstemp`, `write`, `unlink`, `rename`, clean up | the name stands for a whole list, the old or the new; nothing left lying about |
| Making files and directories | `lib/file_utils.c` | directories, lists of length zero | `demo_make_file`, `demo_make_dir` | does not cut a file that is in use |
| Backing up and restoring a file | `backup_file`, `restore_file` | the file, its backup | copy, compare, attributes, clean up | success means the copy is what the file held; failure leaves no bad backup |
| Copying a file | `lib/file_data_sync.c` (`demo_file_data_copy`) | temporary file, stdio buffers | copy loop, `unlink`, `rename`, `fclose` | the destination is missing only for a moment |
| Comparing hashes | `lib/file_utils.c` | two digests | `demo_get_file_md5`, `demo_check_hash` | tells a copy that differs |
| Synchronising attributes | `lib/file_attrs_sync.c` | mode, owner, times, ACL, extended attributes | `acl`, `attr`, `stat` in this order | the destination ends with the attributes of the source |
| Delta synchronisation | `lib/file_data_sync.c` (`demo_file_data_sync`, `demo_rs_*`) | signature, delta and temporary files | signature, delta, patch, replace | as copying; not called by the command |
| JSON text | `lib/cJSON.c` | arrays and objects, the print buffer, the parse stack | parse, print, append, delete by index | what is printed is parsed back, what is cut is not; no byte outside a buffer; nothing leaked |

How they interact: by calls, within a process; between processes only through the
file system. `main` calls `backup`/`restore` for each path; these load the list
into a context, give the context a callback (`backup_file` or `restore_file`) that
does the job, and store the context again through `demo_file_data_cover`.

Hard to test: the order of the system calls of two invocations, what a kill between
two system calls leaves, which of several steps failed, the last blocks of a copy
that reach the disk in the `fclose()` after the `rename()`, and an owner who
edits the file while it is copied. `PROJECT.json` lists these hazards one by one
with the line where they bite and the property that covers each.

## 2. Modules

| Module | What it is |
|---|---|
| `JobQueue` | abstract: a queue of jobs that only success takes away |
| `JobList` | one list and the invocations on it, a step per system call |
| `JobListSerial` | `JobList` with one process at a time; refinement of `JobQueue`; a user who does not give up |
| `CommandLine` | `main()` on top of `JobListSerial`: options, several paths, exit status, working directory |
| `JobArray` | abstract: the sequence of jobs `JobList` takes an array to be |
| `JobContext` | `FJOB_CTX` and the doubly linked list it consists of, pointer by pointer; refinement of `JobArray` |
| `FileCopy` | one file, its backup, the jobs that copy one onto the other, the owner who edits it |
| `AttrSync` | the attributes of one file, copied call by call while the owner changes them |
| `DataSync` | `demo_file_data_sync`: signature, delta, patch, replace, by several processes |
| `MakePath` | directories and files made by several processes |
| `PrintBuffer` | abstract: the growing buffer of `cJSON_Print` and the discipline of `ensure` |
| `CJsonText` | `cJSON_Print` and `cJSON_Parse`, byte by byte; refinement of `PrintBuffer` |
| `Stdio` | what a late `fclose()` writes, for `FileCopy` and `DataSync` |
| `MCJobList`, `MCCommandLine`, `MCFileCopy`, `MCDataSync`, `MCJsonText`, `MCMakePath` | symmetry sets, views, options, texts and paths for TLC |
| `SeqLemmas` | facts about `SelectInSeq`, `RemoveAt`, `Append`, `Written`, with proofs |
| `JobListProofs` | type correctness, `NoLoss`, `NoStrayTmp` and `MissingOnlyMidSave` of `JobList`, for every value of the constants |
| `CommandLineProofs` | one process implements `JobQueue`; commands are invocations of `JobList`; `WrongPlaceIsReported` and `SuccessIsReal` |
| `MakePathProofs` | all safety properties of `MakePath` |
| `CJsonProofs` | all safety properties of `JobContext` and its refinement of `JobArray`; `InsideBuffer` of `PrintBuffer` |
| `AttrSyncProofs` | all properties of `AttrSync` |
| `FileCopyProofs` | all safety properties of `FileCopy` |
| `DataSyncProofs` | all safety properties of `DataSync` |

Operators named "Faulty" in a comment are plausible bugs. Nothing uses them;
putting one in place of the operator it precedes makes the property named in
`PROJECT.json` fail, which shows that the property looks at that code.

### JobList and the code

State. `list` is what the name of the list stands for: absent, of length zero (as
`creat` leaves it), a whole array (its sequence of names), or the beginning of an
array. `tmp[p]` is the temporary file of process `p`, `orphans` those of killed
processes, `dirOk` the directory. `pc`, `req`, `doing`, `ctx` and `rc` are the
locals of an invocation: where it is, its flags and path, whether it has got from
`-a` to `-d`, `FJOB_CTX.array`, the result of the save. `owed`, `clobbered`, `fatal`, `adds`
and `crashes` are not in the program: `owed` holds the names acknowledged with success
and not carried out since, `clobbered` says that two invocations got in each
other's way, `fatal` which destructive failures there have been, `unremoved` whose temporary
file could not be removed; the others count for the bounds.

| Action | Code |
|---|---|
| `Invoke` | `main`: one path with its flags, or `-d` alone |
| `InitAccess`, `MakeAccess`, `Creat`, `Recreat` | `init_backup`/`init_restore` and `demo_make_file`: two `access()`, two `creat()`, the second with its result dropped |
| `AddJob` | `add_backup_job`/`add_restore_job` up to the save: load, `access()`, append |
| `CoverOpen`, `CoverWrite`, `CoverUnlink`, `CoverRename`, `CoverOut` | `demo_add_ctx_to_file` and `demo_file_data_cover`; `CoverOut` is its `out` label |
| `DoLoad` | `do_backup_job`/`do_restore_job`: load, find the job |
| `RunJob` | one callback of `demo_del_job_from_ctx` and the removal from the array |
| `Crash` | `SIGKILL` at any step |

Loading a list is one step: a list is never changed in place except by `creat()`,
so an open file gives one list or, cut meanwhile, an empty one, which the
`zero` list gives as well. A failing call is one in `MayFail`.

Three failures destroy a list that was fine, and the model shows how: `rename()`
after `unlink()` (the new list is then removed as well), a list that cannot be
read when a job is added (taken for an empty one), and `cJSON_Print` without memory
(reported as success). They are `Destructive`; a behaviour keeps those it has met in
`fatal`. `NoLoss` says what holds up to the first of them, `MissingOnlyMidSave` what holds
up to the first such `rename()`.

### CommandLine and the code

State. Besides that of `JobListSerial`, with its one process: `phase`, whether a command
runs; `effect`, what its flags ask of the list; `paths`, what `main` has not come to, and
`name`, the path it is at; `status`, the exit status; `cwd` and `old`, the working
directory and what `demo_file_data_cover` has kept of it in its own `cwd`. `done` and
`failed` are not in the program: what the command has carried out, and whether it has
reported a failure.

| Action | Code |
|---|---|
| `Refuse` | `main`: `-h`, unknown options, no type or flag; no path where one is needed, which is a success |
| `Start` | the options parsed (`Parse` folds the loop over `getopt_long`), the first path or `-d` alone to come |
| `NextPath` | the loop over the paths, whatever has become of the last one |
| `Work` | a step of `backup()` or `restore()`, that is of `JobListSerial`; `Move` is what it does to the working directory |
| `Exit`, `Kill` | the exit status is `rc` of the last path; `SIGKILL` |

A chdir() back that fails makes `demo_file_data_cover` and `demo_file_data_copy` answer
with an error after the list or the copy is in place. The command then goes on
with the next path from the wrong directory.

### CJsonText, PrintBuffer and the code

State of `PrintBuffer`: `length`, `offset` of `printbuffer`, and `granted`, the bytes
`ensure` has answered for since something was last written. `Open`, `Ensure`, `Put`, `Close` are the
beginning of `print`, `ensure`, `update_offset` (or a direct addition to the offset) and
the end of `print`.

`CJsonText` adds `todo`, the chunks still to be printed. `Chunks` gives, for a value, what
`print_value` and those it calls ask of `ensure`, which bytes they then write, and how
the offset moves on; `out` is the buffer byte by byte, as bytes behind the offset are
overwritten and `strlen` looks for a NUL. The text goes to `text`, where `Cut` may
shorten it, and is parsed with `off` and `stack`, one frame for each `parse_array` and
`parse_object` under way. `heap` counts the items and strings allocated and not freed.

| Action | Code |
|---|---|
| `PrintStart`, `PrintEnsure`, `PrintWrite`, `PrintEnd`, `PrintFail` | `print`, with `ensure` and `update_offset` |
| `Cut` | `write()` cut short, or a kill |
| `ParseStart` | `cJSON_ParseWithLengthOpts`: byte order mark, white space, the root item |
| `ParseWord`, `ParseNumber`, `ParseString`, `OpenNested`, `ParseNothing` | the branches of `parse_value`; `Literal` is `parse_string` with `utf16_literal_to_utf8` |
| `ParseKey`, `NextElement` | the loops of `parse_array` and `parse_object` |
| `ParseFail` | the `fail` labels, level by level |
| `Use` | `demo_get_ctx_from_file`: only an array is kept; a text written by hand is printed again |

`Done` only says that a behaviour ends there.

### FileCopy and the code

State. Names (`dir["orig"]`, `dir["back"]`, `tmp[p]`) stand for inodes, `data` gives
the blocks of each. `in`, `out`, `buf`, `pos` are the open files of a job, its stdio
buffer and its position; `md` is what has been read for each MD5 sum; `rc` is the
result. The owner may write anything in `Content`, also what the file has held before.
`held` and `since` record the contents he gave the file, ever and since the backup began;
`silent` records the failures the code does not look at (`fread()`, the last `fclose()`,
the removal of a bad backup), `undone` that he has brought back, during a backup, a block
the file had had in that place since the backup began: up to these the properties hold.
`unremoved` says whose last job could not remove its temporary file.

| Action | Code |
|---|---|
| `Start` | `backup_file`/`restore_file` up to the copy; the `rc` of a restore without a backup is overwritten |
| `AccessDest` ... `MakeTmp` | `demo_file_data_copy` up to its loop |
| `CopyBlock`, `CopyEnd` | the loop; a full buffer goes to the file, a read error ends it like the end of the file |
| `UnlinkDest`, `RenameTmp` | in place, if the destination was there at `AccessDest` |
| `CloseFiles`, `RemoveTmp` | the `out` label: `fclose()` writes the rest, unchecked; temporary file; `chdir()` back |
| `OpenForMd5`, `ReadForMd5`, `EndOfMd5` | `demo_check_hash`, source first |
| `SyncAttrs` | `demo_file_attrs_sync`, as a whole |
| `CleanUp` | the `out` label of `backup_file` (removes the backup) and of `restore_file` (leaves the file) |
| `Edit`, `Delete`, `Crash` | the owner, in place or by a new inode; `SIGKILL` |
| `Recover` | only in `RetrySpec`: from some moment on no call fails any more |

### JobContext and the code

State. `child`, `next`, `prev` are the pointers of the array and of its elements,
`entry` what each element is for `job_proxy.c` (an object with a name, one without,
or no object), `live` the elements allocated and not freed; `type` and `array` are
the members of `FJOB_CTX`; `loop` says that `demo_del_job_from_ctx` is in its loop
over all jobs. `starved` (not in the program) says that an allocation has failed.

| Action | Code |
|---|---|
| `Load` | `demo_get_ctx_from_file`: what `parse_array` leaves, any list an editor may have written included |
| `AddJob` | `demo_add_job_to_ctx`: type check, then three allocations nobody checks; `Attach` is `add_item_to_array` |
| `DeleteNamed`, `DeleteAll`, `Round`, `LoopEnd` | `demo_del_job_from_ctx`; `Detach` is `cJSON_DetachItemViaPointer` |
| `Release` | `demo_job_ctx_delete` |

### AttrSync and the code

A step for each call of `demo_file_acl_sync`, `demo_file_attr_sync` (of `attr_copy_file`,
for each attribute) and `demo_file_stat_sync`. A value is the number of the change that
gave it. What the calls do is Linux: `acl_set_file` sets the permissions of the mode,
too; `chown` takes the set-user bit away, and the set-group bit of a file its group may
execute, so that a file that has one loses it although `chmod` has just copied it; times
are cut to microseconds. Each call of
`demo_file_attrs_sync` is on a file `demo_file_data_copy` has just made. A kill is no
action of its own: the invariant `TimeComesLast` holds in every state in between.

### DataSync and the code

Nothing in the command calls `demo_file_data_sync`; it is the delta copy the repository
is named for. State and names are those of `FileCopy`; in addition `sig` and `delta`
are a process's signature and delta, `temps` its other two temporary files and, once the
call is over, those of the three that could not be removed; `late` records
the calls that failed from the `rename()` on. The properties say what such a failure leaves.

| Action | Code |
|---|---|
| `Start` ... `CreatDest` | up to the strdup: `access()` of both, `demo_make_file` with its own `access()`, and `creat()`, which may cut a file that has appeared meanwhile |
| `OpenDest`, `OpenOrig`, `MakeTemps` | the opens, unchecked until used; `chdir()`, three `mkstemp()` |
| `Signature`, `Delta`, `Patch`, `RsyncFails` | `demo_rs_sig_fp`, `demo_rs_delta_fp`, `demo_rs_patch_fp`, a block at a time |
| `UnlinkDest`, `RenameTmp` | in place; unlike the copy without comparing hashes |
| `CloseFiles`, `Tidy` | the `out` label |
| `Recover` | from some moment on no call fails any more |

librsync is external: a signature tells any two blocks apart, a block of the original
that dest has, too, is copied from there (by position, from what dest holds when the
delta is applied), a copy from behind the end is an error.

### MakePath and the code

`Look` is a call of `demo_make_dir` by itself, `Made` a return from it, `Mkdir` its
`mkdir()`, whose failure is dropped. `Access`, `Creat`, `Recreat` are
`demo_make_file`; with `caller` = "copy" it is `demo_file_data_copy` that wants the
directory, and `Chdir` its next call.

## 3. Runs

| Run | Instance | Shows |
|---|---|---|
| `JobListFaults` | 2 processes, 2 names, 2 adds, 1 kill, every failure | `TypeOK`, `NoLoss`, `MissingOnlyMidSave`, `NoStrayTmp` |
| `CommandLine` | 1 process on the restore list, all lists of up to 3 options, up to 2 paths, 3 adds, 1 kill, failures; one name of two hopeless; the user repeats `-d` with all names | `WrongPlaceIsReported`, `SuccessIsReal`, `ImplementsQueue`, `CommandsEnd`, `JobsGetDone` |
| `JobListForAll` | 1 process, `-d` alone repeated | `JobsGetDone` violated, see below |
| `FileCopyFaults` | 1 job at a time, an empty file or one of 2 blocks, of 2 kinds, 3 edits or deletions, every call failing, up to the first state that is `Deceived` | `TypeOK`, `NoBadBackup`, `BackupIsSnapshot`, `RestoreIsReal` |
| `FileCopyParallel` | 2 jobs, empty file (the properties are about names, not contents), `open`, `mkstemp`, `read`, `unlink`, `chdir`, `attrs` and `remove` failing | `OrigMissingOnlyMidRestore`, `NoStrayTmp` |
| `FileCopyRetry` | 1 job at a time, 1 block, 1 edit, 1 kill, 6 kinds of calls failing until some moment, fair | `RetryHeals` |
| `JobContext` | 3 elements, 2 names, lists of up to 2 read, any allocation failing, fair loop | `TypeOK`, `RingOK`, `NoLeak`, `AddAppends`, `ImplementsArray`, `LoopEnds` |
| `AttrSync` | 2 user attributes, 2 changes, any call failing | `TypeOK`, `SyncedIsImage`, `StatIsSnapshot`, `TimeComesLast` |
| `DataSyncFaults` | 1 process, 2 kinds of blocks, 2 blocks, an edit or a kill, every call failing until some moment, directory missing at first, fair | `TypeOK`, `SyncedIsRead`, `FailureKeepsDest`, `NoStrayTmp`, `RetryHeals` |
| `DataSyncParallel` | 2 processes, up to 2 blocks, no failure | `OneSuccessIsEnough` |
| `CJsonText` | lists of up to 2 jobs with paths of up to 2 bytes of 7 kinds, every cut of them; some 17000 texts written by hand; a buffer of 4 bytes, `INT_MAX` 60, nesting limit 3; any allocation failing | `InsideBuffer`, `InBounds`, `RoundTrip`, `NoLeak`, `ImplementsBuffer` |
| `MakePath` | 2 processes, 3 files in 2 directories, 2 removals, failures | `TypeOK`, `EndMeansMade`, `CallsEnd` |

Bounds. Two processes suffice for every race of the lists, since each is between two
accesses of one process and one access of another; two names let a job be in
front of another; three adds let a name be on the list twice and another between, two are
what two processes can have in hand at once. One
kill leaves one orphan. Two blocks of two kinds and three edits are the least with which
an owner who goes back and forth gets a mixture past the comparison of the hashes, which
`BackupIsSnapshot` has to exempt (`Deceived`) and nothing more; a content has blocks all
alike, so that every mixture and every beginning of one differs from it. In `DataSyncFaults`
there is an edit or a kill and not both (`EditOrKill`): a kill leaves nothing in memory, and
on the disk a dest like those `Init` begins with, so that what an edit does to the call after
a kill is what it does to the first. Four inodes (six for two jobs)
hold every file that is named or open at once, so `Free # {}` never stops the model
for want of inodes that matter; two processes in `DataSync` have at most five: orig, dest,
an old dest that is still open, and two new files. `FileCopyFaults` goes no further from a
state that is `Deceived` (`Undeceived`): such a state stays so, and the properties say
nothing of it. `FileCopyParallel` leaves out the failures its properties do not speak of or
that end in the same error path from the same files as one of those it has. The kinds of
blocks are interchangeable, so `FileCopyRetry` and `DataSyncFaults` begin with an original
whose first block is a certain one (`FirstBlock`; a symmetry set would not be sound for
liveness). An element can be first, last, in between or the only one in a list of three. Two
changes of attributes can come between the same two calls or around the calls in
between. Two levels of directories are the least with one above and one below the
level another process is at. Three options have every pair of flags and one that spoils
them; two paths are one that fails and one after it. The seven bytes of a path are one of
each way `print_string_ptr` treats a byte. The texts are every string of up to 4
characters of the structure of JSON behind `[`, every string literal of up to 6 characters
of `\ " u 0`, every pair of `\uXXXX` of five kinds (the two surrogates, two other
lengths of UTF-8, no number), whole and cut. With 4 bytes
at first and an `INT_MAX` of 60 the buffer grows, is clamped to `INT_MAX` and is refused
more in the same runs.

`WithoutFree`, the view of `FileCopyFaults` and `DataSyncParallel`, takes states for one
that differ only in what inodes hold that have neither a name nor an open file: no
action reads it before it has been overwritten. In `CommandLine` one process is enough
for `CommandsEnd`, since the only loops of a command are over its own paths and `ctx`.

Fairness. Weak fairness of each process's steps: the operating system runs a process
that has been started, and none of its system calls waits for another process. Nobody
is forced to start an invocation, except in `CommandLine`, `JobListForAll`,
`FileCopyRetry` and `DataSyncFaults`, where strong fairness of the request says that the user asks again
and again; that is a premise about the user, and what the properties are about.
`FairSpec` of `JobContext` and
`MakePath` only says that a running loop or call goes on. `RetrySpec` of `FileCopy` and
`DataSync` has one more premise, weak fairness of `Recover`: failures come to an end; until
then every call may fail any number of times, and what that leaves on the disk is what the
retries have to cope with. Elsewhere nothing forces a failing call to succeed. `JobsGetDone` holds in
`CommandLine` although
`mkstemp`, `write`, `unlink` and `chdir` may fail for ever, as it asks for the
job to be carried out, not to be taken off the list.

What the checks found:

- `JobListForAll`: `-d` alone stops at the first job that fails, and saves nothing
  (`lib/job_proxy.c:231`). As the failing job stays at the head, the next `-d` begins
  with it again, and those behind it are never done. The usage text (`src/main.c:29`)
  promises to "do job which in config json". With a name the job is found wherever it
  is (`CommandLine`).
- An exit status of zero speaks of the last path only (`SuccessIsReal`), and `-a` without a
  path, which is answered with the usage text, ends with zero as well.
- After a chdir() back that fails the command looks up its other paths in the wrong
  directory, but not without having reported an error (`WrongPlaceIsReported`).
- The premises of the properties are what the code does not protect against: `-a`
  beside another invocation (`clobbered`), the `Destructive` failures (`fatal`), an `fread()`
  error taken for the end of the file, an `fclose()` that fails while the
  owner cuts the file, and an owner who goes from AB to CD, back and forth again during a
  backup, so that copy and second reading both find AD, which the file never held
  (`Deceived`); a restore from a backup a kill has left short
  (`crashes = 0` in `RestoreIsReal`).
- The clean-up at the `out` labels drops the results of `unlink()` (`lib/file_utils.c:203`,
  `lib/file_data_sync.c:264` and `367`): a temporary file stays behind where the `unlink()`
  of that very file fails, and only there (`NoStrayTmp` of `JobList`, `FileCopy`, `DataSync`).
- An invocation that reports an error may nevertheless have changed the list: `-a -d` whose
  `-d` fails has appended its job, and a `chdir()` back that fails comes after the `rename()`.
  `JobQueue` therefore speaks of what happens to the jobs, not of what is answered.
- What is left of a file with a set-user bit, or with a set-group bit and its group allowed
  to execute it, is one without (`Image` in `AttrSync`), and a synchronised file is up to a microsecond older than the original.
- Two delta synchronisations of one file may cut, remove and replace what the other is
  reading, and yet `OneSuccessIsEnough` holds: one fails only where another goes on to
  succeed. It does not hold of three, which the attempt to prove it for any number
  brought up: `p` renames its new file and has its last blocks still in the buffer; `q`, which
  looked for dest between the `unlink()` and the `rename()` of `p`, cuts that file with
  `creat()`; `r`, which made its delta against it before the cut, opens nothing again and
  applies the delta to what `fclose()` has written by now behind the cut, zeros in
  front. `p` and `r` succeed, and dest has zeros where orig has data.

## 4. Proofs

For every set of processes and names, every `MayFail` and every bound:

- `JobListProofs!TypeCorrect`: `Spec => []TypeOK`. Not inductive as it stands: that the
  list is never the beginning of an array needs that the temporary file is whole once
  its process is past `write` (`pc` is `unlink` or `rename`).
- `JobListProofs!SavesTidyUp`: `Spec => []NoStrayTmp`. Inductive with `TypeOK`; one step per
  action shows that a save which is over has removed its temporary file or is `unremoved`,
  which only a failing `unlink()` of that file makes it.
- `JobListProofs!ListIsOnlyBrieflyMissing`: `Spec => []MissingOnlyMidSave`. The strengthening
  says the same already once somebody is past the initialisation, not only once a job is
  owed: an addition that makes the first job owed would otherwise have no hypothesis to
  start from.
- `JobListProofs!AcceptedJobsAreKept`: `Spec => []NoLoss`, whatever calls may fail. The inductive invariant says
  for each label what the context of a process holds in relation to the list on the disk:
  a process that adds or saves while nobody else adds has all names owed in its
  context or its temporary file; between `unlink` and `rename` the temporary file
  stands in for the list; processes that only carry out jobs take away only what
  they have carried out. The invariant was model-checked first.
- `CommandLineProofs!ListIsAQueue`: `Spec => ImplementsQueue` under
  `SerialAssumption` (one process) and `SparedAssumption` (no destructive failure).
  The queue is the list, or the temporary file between `unlink` and `rename`; one
  proof step per action maps it to a step of the queue or to a stutter. It rests on
  `SeqLemmas` for what finding and removing a job does to a sequence.

- `CommandLineProofs!CommandsAreInvocations`: `CmdSpec => Spec`, so that what is proved of
  `JobList` holds under `main()`. From it `CommandsKeepTheQueue`: `CmdSpec =>
  ImplementsQueue`. `LostDirectoryIsReported`: `CmdSpec => []WrongPlaceIsReported`; the
  inductive invariant says that `cwd` is the directory of the command, or a failure has
  been reported, or `rc` says so already, or the save has kept the former in `old`.
- `CommandLineProofs!SuccessMeansDone`: `CmdSpec => SuccessIsReal`. The invariant `ResultInv`
  follows the path `main()` is at through the invocation: what a save is about to leave on
  the disk already deals with the path (`Settled`), and what it has answered `SUCCESS` for is
  what the list says. It needs the types of `JobList` for the save and that no
  Destructive failure turns a save that failed into a list that looks whole.
- `MakePathProofs!TypeCorrect`, `WantedIsMade`: for any paths and any number of processes.
  Until somebody removes a directory those that are made stay, so the invariant `WayInv`
  need only say of each process that the directory above the one it is about to make is
  there, whoever has made it; a `mkdir()` that finds its directory made by another
  changes nothing in that.
- `CJsonProofs!WritesStayInside`: `BufferSpec => []InsideBuffer` for every first
  size and every `INT_MAX`. `InsideBuffer` is inductive as it stands. `CJsonText` implements
  `BufferSpec` (`ImplementsBuffer`, model-checked).
- `CJsonProofs!TypeCorrect`, `ListIsARing`, `NothingLeaks`, `AddedJobsAreLast`,
  `ContextIsAnArray`: for any number of elements, names and jobs read, whatever allocation
  fails. `RingOK` alone is not inductive: it says nothing of the successor an element that is
  not allocated would bring along, nor of where the last one leads. The invariant
  `MemoryInv` says that the pointers go along a `Chain` of different elements and back, that
  all of them are allocated (and nothing else, until memory runs out), and that an
  element which is not has no successor. One lemma per pointer operation turns a
  chain into the next: `AttachAppends` into the one with an element more at its end,
  `DetachRemoves` into the one without the element taken out, which distinguishes the
  first, the last, the only and an inner one as the code does. That walking the
  pointers finds the chain and ends after it (`ChainIsElements`) is an induction along
  the list, done through the least place where the two would differ. The jobs then are the
  entries of the chain, and each call does to them what `JobArray` says.
- `AttrSyncProofs!TypeCorrect`, `StatFromOneMoment`, `TimeIsLast`: for any number of user
  attributes and of changes. The inductive invariant adds to the three properties what
  the local variables hold at each call (`struct stat` is of one moment of the call,
  what was set from it is still there) and what has been copied by then.
- `AttrSyncProofs!StillIsImage`: `Spec => []SyncedIsImage`. The invariant `ImageInv` lists
  what the copy has of a file that keeps still before each call, and that no later call
  takes it away again: `chmod()` and the access list both set permissions, `chown()` clears
  the set-user and set-group bits as `Chowned` says.
- `FileCopyProofs!TypeCorrect`, `CopyTidiesUp`, `FileIsOnlyBrieflyMissing`: for any number of
  jobs side by side.
- `FileCopyProofs!ReportedBackupIsSnapshot`, `NoBackupIsBad`, `RestoredFileIsReal`: for one job
  at a time, the case these properties speak of, any number of blocks, edits, inodes, kills
  and failures. That a backup which passes the comparison of the MD5s is a snapshot is not
  obvious, since the file is read a second time for its MD5 and may change in between. The
  argument: as long as no edit brings a block back, one that the file has had in its place
  since the backup began and has no longer (`Gone`) stays gone. A copy is either a content the
  file has had since the job began or has a block that is gone (`Genuine`); the second
  reading can only find blocks that are not, so a copy of the latter kind does not
  pass. The invariant `BackupInv` says at each label how far the two readings have got.
  `RestoreInv` does the same for the restore, whose source nobody edits.
- `DataSyncProofs!TypeCorrect`, `SyncTidiesUp`: for any number of processes. `Ready` says of a
  call that is over that it has no temporary files, or that "unlink" is in `late`.
- `DataSyncProofs!FailedSyncKeepsDest`, `SyncedDestIsOrig`: for one process, any basis, any
  number of blocks, edits, kills and failures. The inductive invariant `SoloInv` has one part for
  each of the three runs of librsync: the signature is a beginning of dest (`Signed`); each
  part of the delta can be applied to dest and gives a block orig has had in that place
  (`DeltaOK`); what is in the new file and in its buffer is what the parts so far give
  (`Patched`). `Apart` says that the new file, dest, orig and what is open are different
  inodes, so that no write of one changes another, and `Exchange` what name stands for
  what at each step.
- `DataSyncProofs!OneSuccessLasts`: `Spec => []OneSuccessIsEnough` for two processes of which no
  call fails, any number of blocks and inodes. Nothing `SoloInv` says of dest holds here: the
  other process may cut the dest a signature is of (`creat()`), put another in its place, or
  write behind its end what was still in its buffer. `DuoInv` says what is left. A
  signature is right as far as the file it is of still reaches, and reaches no further than the
  file if somebody has yet to write behind its end (`SigFits`); a cut comes from a process
  about to open dest and such a write from one about to end, and with two processes, one of
  which reads, the other cannot do the former and then have the latter left to do
  (`StepOtherSig`). So a part of the delta either makes the block of orig it stands for or cannot
  be applied, and a new file is orig when it is renamed (`DeltaFits`, `Begun`). A success lasts
  because of `Lasting`: once there has been one, dest is orig, perhaps when its writer has
  closed it (`DestIsOrig`), or somebody is on the way to one (`Hopeful`). Only a `creat()` or an
  `unlink()` can take either away, and both leave the process that does them hopeful; a
  `rename()` makes dest orig, or soon to be, whatever has been there.

`SoloInv` of both modules was model-checked before it was proved, and so was `DuoInv`, with one
kind of block and with two. Four facts about the buffer carry the proofs: what
`fclose()` writes at the end of a file is appended to it (`WrittenAppends`), and behind the end
of one that was cut leaves what it has (`WrittenBehind`); a file with its buffer grows by the
block put into the buffer (`ConcatAppend`), and both keep their type (`WrittenType`).

The assumptions are those named in the modules (`NameAssumption`, `JobAssumption`,
`FaultAssumption`, `BoundAssumption`, `ValueAssumption`, `PathsAssumption`,
`SizeAssumption`, `InodeAssumption`, `GoalAssumption`,
`NodeAssumption`, `NullAssumption`, and the two above), and for the theorems about one job or
process `Proc = {p}`. They are not true of two: jobs that run side by side on
one file copy, cut and rename over each other, and the properties say so. `OneSuccessLasts`
assumes `Proc = {p, q}` and `MayFail = {}`; it is false for three (see above), and
a call whose `fclose()` fails succeeds with less than orig. Only
model-checked: the abstract run `ImplementsBuffer` and the other properties of `CJsonText`
(recursive operators, which the prover cannot use), and liveness (`CommandsEnd`, `JobsGetDone`,
`RetryHeals`, `LoopEnds`, `CallsEnd`), which is beyond the prover.

## 5. Not modelled

- Numbers with a fraction, an exponent or a sign, and the decimal point of the locale: the
  program writes times and types only and reads neither. Everything of cJSON that the
  program does not call: comparing, duplicating, minifying, printing into a given buffer,
  creating arrays of numbers, references, replacing and inserting.
- `getopt_long` itself, `--test`; `realpath` and the length of a path. A relative path given
  to `-a` and run by a later command from another directory: names in `Flaky` stand for it.
- The `demo_rs_*_file` functions, which only open files for what `DataSync` models; a test
  program calls them in a function it does not run.
- `malloc` failures outside `JobContext` and `CJsonText`, apart from `cJSON_Print`; `getcwd` failures,
  which end a call before it does anything.
- Test programs and build files.

## 6. Plan

In this order:

1. Abstract specification of replacing a file, implemented by `FileCopy` and by
   `DataSync` with one process.
2. `System`: two lists and a file together: a restore while its backup is being redone;
   attributes set by name while another job puts a new file in place.
3. The `demo_rs_*_file` functions.
