# Limiz in TLA+

Limiz is a metrics exporter written in Go: an HTTP service that reports system
metrics (`/metrics`) and inventory data (`/datas`), keeps a local JSON-lines
history of its metrics, monitors its own collection times, runs signed plugins,
and can install itself as a Windows service. This directory holds TLA+ models
of the parts of it that keep state or depend on an order of events, the
configurations that model-check them with TLC, and TLAPS proofs about them.
`PROJECT.json` lists every run, property, theorem and the source lines each
definition stands for.

## 1. Inventory

| Component | State | Operations | Interacts with | What is hard |
|---|---|---|---|---|
| Datas cache (`internal/datas/registry.go`) | per name: `data`, `errMsg`, `ready` under an RWMutex; `stopCh` | `Start`, `runProvider`, `collect`, `Get`, `Stop` | providers; HTTP handlers; `OnRefresh` writes a monitor record | one goroutine per provider and any number of handlers; providers that hang; two plugins of one name |
| Datas registry (same file) | list of providers | `NewRegistry`, `RegisterPlugin`, `CollectJSON` | configuration | fixed after start-up |
| Datas providers (`providers_linux.go`, `providers_windows.go`) | none | `Collect` | operating system | may hang or fail; otherwise parsing |
| Data and metric plugins (`plugin_exec.go`, `plugin_verify.go`, `plugin_parser.go`, twice) | none between calls | `Collect`: verify, run with a timeout, parse | subprocesses, signature files | time-out against completion, a grandchild holding the pipe, text that is not quite Prometheus |
| Monitor store (`internal/monitor/store.go`) | open file and encoder, `dayTag`, under a mutex; current and rotated files | `NewStore`, `Write`, `rotateLocked`, `cleanOld`, `Close` | all collecting goroutines; the file system | midnight, crashes, restarts, failing file operations |
| Monitor reader (`ReadRecords`) | none | `ReadRecords`, `readFile` | reads the store's files from another process | rotation while it reads; partial lines |
| Monitor statistics (`internal/monitor/cli.go`) | slices and buckets of one call | `RunCLI`, `printStats`, `printHourlyBreakdown`, two insertion sorts | reader | boundaries: percentile index, last errors, records at the edge of the period |
| Local writer (`internal/localwriter`) | open file, `dbStart`, `stopCh`, wait group; current and rotated files | `New`, `Start`, `loop`, `writeSnapshot`, `rotateFile`, `cleanOldFiles`, `Stop`; backend `Open`, `Write`, `Close` | metric registry; service shutdown | rotation in several fallible steps, stop against tick, restarts |
| Metric registry and collectors (`internal/collectors`) | list of collectors | `Register`, `CollectRaw`, `Collect` | operating system, plugins | stateless |
| Plugin signing (`internal/signing`, `cmd/sign-plugin`) | key and signature files | `generateKeys`, `signFile`, `signAll` | plugin verification | a plugin rebuilt after it was signed |
| TLS certificates (`internal/tlsutil`) | certificate and key files; certificates and key container of the Windows store | `LoadCertificate`, `loadFromStore`, `GenerateSelfSigned`, `WritableCertDir`, `ImportToStore` | main program, Windows | files and store entries that must match and are replaced one by one, results that are not looked at, fallback order |
| Windows service (`internal/winsvc`) | service record, process, `stopCh`, `stoppedCh` | `Install`, `Uninstall`, `Start`, `Stop`, `RunService`, `serviceMain`, `serviceHandler` | service control manager, application | three threads and a manager, fixed sleeps |
| Windows setup (`cmd/setup`) | installed files | stop, overwrite, install, start | Windows service | each step can fail and leave the service stopped |
| Example plugins, packaging scripts | none | | | not modelled |

`cmd/limiz/main.go` is not part of the repository, so the HTTP server, the
configuration page and the order of start and shutdown are unknown; where a
package depends on its caller, the caller is modelled as external and may do
whatever the package allows.

## 2. Modules

| Module | Models | Its state against the code's |
|---|---|---|
| `AtomicCache` | what `DatasCache` promises to callers of `Get` | one published result per name, requests that read entry by entry |
| `DatasCache` | `registry.go` 169-288 | `pc[p]` is the goroutine of entry `p`; `state`, `writer`, `readers` are a `perProviderState` and its RWMutex; `rpc`, `idx`, `seenErr`, `got` are the locals of `Get` |
| `DatasCacheProofs` | theorems about `DatasCache` | |
| `MonitorStore` | `store.go` 49-187 | `pc` is where the holder of `s.mu` is; `enc`, `dayTag` the fields of `Store`; `current`, `rotated`, `exists` the directory, and `cut` of a file that its last line has no end |
| `MonitorStoreProofs` | theorems about `MonitorStore` | |
| `MonitorReader` | `store.go` 189-258, beside `MonitorStore` | `listed` is what `ReadDir` returned, `found` is `allRecords` |
| `MonitorReaderProofs` | theorems about `MonitorReader` | |
| `MonitorStats` | `cli.go`, the filter and the sort of `store.go` 228-258 | `recs`, `errors` are the slices of `RunCLI`, `a` and `i` the slice and index of the sort that runs, `buckets` and `n` those of `printHourlyBreakdown`; `stats`, `shown`, `more` are what is printed |
| `MonitorStatsProofs` | theorems about `MonitorStats` | |
| `LocalWriter` | `writer.go`, `backend_jsonl.go` | `pc` is where `loop` is; `file` the backend; `age` is `time.Since(dbStart)`; `cut` that the file's last line has no end |
| `LocalWriterProofs` | theorems about `LocalWriter` | |
| `WinService` | `winsvc/service_windows.go`, the service steps of `cmd/setup` | `svc`, `handler`, `app` are the threads of the service process; `stopCh`, `stoppedCh` whether they are closed; `task`, `pc`, `left` the commands and their sleeps; `installed`, `marked`, `status`, `accepts`, `control` the service control manager |
| `WinServiceProofs` | theorems about `WinService` | |
| `PluginParser` | `collectors/plugin_parser.go`, the text of `Registry.Collect` | pure operators over tokens |
| `PluginExec` | `sign-plugin`, `plugin_verify.go` and `plugin_exec.go` of both packages | `pc`, `hash`, `answer` are the locals of `Collect`, `ran` the version that was started; `watching`, `timedOut` the goroutine of `exec.CommandContext`; `child`, `stdout`, `held` the program |
| `PluginExecProofs` | theorems about `PluginExec` | |
| `TlsCert` | `tlsutil.go`, `generate.go`, `store_other.go`, `store_windows.go` 209-495 | `crt`, `key` are the files of a directory; `certs`, `bound`, `container` are the certificates in LocalMachine, those with a reference to the key container and that container; `gpc` is where `GenerateSelfSigned` and `ImportToStore` are, `named` whether the imported key has its name; `user` the administrator's certificate in CurrentUser; `lpc`, `at`, `readCrt` where `LoadCertificate` is, `denied` the sources it was not allowed to read |
| `TlsCertProofs` | theorems about `TlsCert` | |
| `MC*` | values of the constants for TLC | |

`MonitorReader` EXTENDS `MonitorStore`: the reader is another process that
shares only the file system. `DatasCache` instantiates `AtomicCache` through the
mapping `Value`, `Phase`.

### DatasCache

Every step between two points where another goroutine can observe a difference is one
action: `Collect` returns (no lock held), `mu.Lock` announces itself and then waits for
the readers it found (Go's RWMutex turns new readers away as soon as a writer waits),
the two assignments of the branch taken, `ready` with `Unlock`, the callback, and the
`select`. `Get` takes one lock per entry, reads `ready`, `errMsg` and the entry, and
gives it back. Results are version numbers, saturating at `MaxVersion`, so that "stale",
"torn" and "never collected" can be told apart and the loops never run dry. `TypeOK`
binds the locks to the goroutines as well: `readers` are the handlers that are between
`RLock` and `RUnlock` of that name, no more and no fewer. A ticker's tick may be there
at any time. `published` and `since` are history variables.

### MonitorStore

Days are numbers; records carry the day on which they were made, which is why a
record that waits for the mutex over midnight is filed under the day before. A
rotation is the code's chain of close, rename, list, remove and reopen, and
every link can fail (`Faulty`) or be the last before a crash; `NewStore` runs the
same `cleanOld`. The encoder is `nil`, `ok` or `broken`: `json.Encoder` repeats
the first error of its writer for ever. The clock never goes back.

A write that fails or a process that dies leaves nothing of a record, all of it
but the newline, or a part of it (`Remains`). After a part the file is `cut`: it is
opened with O_APPEND, so the next record continues that line and is no record for
any reader, and the line after it is whole again (`OwnLine`). `stored` are
the records that were written as lines of their own; these are what retention
speaks of, and `DropsOnlyImpaired` bounds the others: a record is lost by the write
that fails, while the encoder is unusable until the next rotation, or as the
one that continues a cut line.

### MonitorReader

Each file is read in one step, the directory is listed in another, and the
service runs in between. A partial line sends the reader to `spinning`: the
decoder repeats its error, `More` stays true, and the loop has no other exit.

### MonitorStats

One command, without concurrency, but with four loops over data nobody has
tested at its edges. The records of the files are an input; what `readFile`
keeps of them is `Kept`, and `ReadRecord` takes them in the order of time,
those of one second in any order, because `sort.Slice` is not stable. A turn of
an insertion sort's outer loop is a step. Durations are whole numbers, so that
sums are exact; the float product in `p95Idx` is exact as well, since the error
of 0.95 is less than half a unit of the last place of any whole product. Hours
are those of a clock without daylight saving: in the repeated hour of autumn the
key of `printHourlyBreakdown` is the same for both.

### LocalWriter

The mutex of `Writer` is only ever taken by the loop and, after the wait group,
by `Stop`, so the loop's position is the whole of it. Snapshots are numbers that
saturate at `MaxSnaps`; rotated files are a sequence in the order of their names.
The wall clock neither stands still between rotations nor goes back: two
rotations never get one name. `age` counts up to `Rotate` only, which is all the
comparison `age >= Rotate` can tell. A snapshot that is appended to a cut line is
not whole, as in `MonitorStore`, and only whole ones are `synced`.

The code has no retry of its own for a file it could not open: `dbStart` is left
old, so that the next tick rotates again. `ClosedIsRetried` says this of every tick,
and `WritingResumes` what it is for. With `Rotate` 0 there is no rotation and thus
no second `Open`: an encoder that has failed once stays broken until the process
ends. Both properties say so in their premise.

### WinService

The package leans on time: the handler sleeps three seconds between closing
`stopCh` and closing `stoppedCh`, setup sleeps two seconds before it overwrites
the program, and uninstall polls for fifteen. `Tick` lets a second pass, and
only while no thread of the service process has something to do (`Quiet`): a
thread of an idle machine runs well within a second. What the code needs of the
service control manager is external: a stop is refused unless the last status is
RUNNING with SERVICE_CONTROL_STOP accepted, controls are delivered one at a time,
ControlService returns when the handler has, a service that is deleted while it
runs is only marked, and the file of a running program cannot be written. The
process ends once `RunService` has returned, and with it the service is stopped for
the manager even if `setServiceStatus` has never been called, as when
`RegisterServiceCtrlHandlerEx` has failed and there is no `statusHandle`.

The program file is held by the service process and by every command line
(`Commands`), since both are `limiz.exe`; setup's `os.WriteFile` fails then, and
setup ends. `UnlockedForSetup` says of setup's own wait that it is long enough for
the service and for the command it has started. A command line that somebody else has
started, such as an uninstall that polls, may still hold the file (section 4).

### PluginParser and PluginExec

The two plugin packages verify and run a program in the same way, line for
line, so one model has both, and `kind` says what is made of the output. A
signature is the pair of a key and a version; the cryptography is the library's.
The three parts of `exec.Cmd.Run` matter: the goroutine that kills at the
deadline, the wait for the process, and the wait for the end of its output,
which no deadline ends. A killed process is gone before time passes again.

`Collect` names the program by its path, and opens it twice: `VerifyPlugin` reads
what is hashed (`hash`), and the operating system starts what is there by then
(`ran`). A build that is put in place between the two is `replaced`, which the code
does not notice. `RunsOnlySigned` therefore says two things apart: what was read
is signed by the embedded key, and what runs is what was read unless it was replaced.

Texts are sequences of tokens: the characters that the parser looks at, and
`Words`, which have none of them. What a plugin prints is what `PrintMetrics` makes
of metrics, which is the format of `Registry.Collect` and of `dir-size`. The loops
over the characters of a text are recursive functions of the position, `Split` with
the turn of `splitLabelPairs` or of `strings.Fields`.

`ParsedAsMeant` is about outputs that are `Printable`: names, keys and types are
words, no label is given twice, metrics of one name have one help and one type, a
help does not end in a space, a value is a number, and a label's value is any
sequence of tokens without a quote or `}`. A help with a space at its end would come
back without it; the parser does not handle quotes and `}` in values (section 4).
Lines beyond the scanner's 64 KiB are left out. That the outputs of the runs are printable
is `PrintableAssumption` of `MCPluginExec`, which TLC evaluates.

### TlsCert

Generation and loading are two processes that share files and know nothing of
each other. Generation opens a file, which empties it, and then writes it, first
the certificate and then the key, and may fail or end before each step. The
directories it can write depend on the user who runs it, and so differ from one
generation to the next.

`ImportToStore` may follow in the process that has generated. Its calls of
Windows are steps, and each may fail and end it (`ImportEnds`); the two whose
result the code does not look at, the deletion of the old key and the naming of
the new one, go on either way. The store is what those calls need of it:
certificates, of which only one with the same serial number is replaced, and one
machine key by the name `Limiz`. The key of an older certificate is therefore
whatever key has that name by then. `loadFromStoreWithFlag` finds a
certificate and acquires its key in two calls. `Own` stands for a certificate
that the administrator has added with its own key, to LocalMachine or, as
`user` says, to CurrentUser; no code of Limiz does either.

Every source may be there and yet not be readable: `os.Stat` needs no permission to
read a file, a generated key has the mode 0600 of the user who has generated it,
and a private key of the store may be refused to the service. `denied` are the
sources that have failed for such a cause. The two properties about what is
loaded name it where it matters: an unreadable configured pair ends the loading,
an unreadable pair elsewhere does not hide the next source.

## 3. Runs

| Run | Instance | Question |
|---|---|---|
| `DatasCache_safety` | 2 providers, 1 handler, 2 versions | Are answers whole, complete and fresh, and does the cache implement `AtomicCache`? |
| `DatasCache_live` | 2 providers of which one may hang, 1 handler, 1 version | Are requests answered, do the others refresh, does Stop end them? |
| `MonitorStore_safety` | 2 writers, 4 days, 3 records, `maxDays` 1, failures and crashes, a reader | Are records kept, stored once, lost only by a failing write, an encoder not reopened since or a cut line, and counted once by the reader? Are old files bounded? |
| `MonitorReader_missed` | 1 writer, 3 days, no failures | finding: a rotation hides a day of records |
| `MonitorReader_malformed` | 1 writer, 2 days, failures | finding: a partial line is not skipped |
| `MonitorStats` | all databases of up to 3 records; 4, 19, 20, 21 and 40 durations in every rotation; 4 errors of which 2 are shown; 4 periods | Is P95 the 95th percentile, is every error shown or counted, with none of its type hidden by an older one, does each hour add up its own records? |
| `LocalWriter` | 1 rotated file kept, 3 snapshots, failures and kills | Which snapshots are kept, does Stop end with a snapshot, is a closed file retried at the next tick, does writing resume? |
| `WinService` | 2 command lines and setup; sleeps of 3, 2 and 15 s; shutdowns of 0 to 4 s | Is a shutdown cut off, a channel closed twice, the program overwritten while the service or setup's own command runs, a service deleted too early, a stop lost? |
| `PluginExec` | 2 builds, 2 keys, 16 outputs, a timeout of 1 | Is what is verified signed and, unless it is replaced in between, what runs; is the whole output parsed as meant; does the timeout end the program? |
| `PluginExec_timeout` | 1 output, 2 builds, 2 keys | finding: metrics after the timeout |
| `TlsCert` | 3 directories, 2 of them search paths, 2 pairs, the Windows store, sources that cannot be read | Is a half written or half imported pair loaded, a whole and readable one overlooked? |
| `TlsCert_import` | the same | finding: an import succeeds and its certificate has no key |

Why these bounds are enough. Two providers are the least with which an answer
can mix an old and a new entry and with which one can hang while the other goes
on; a second handler shares nothing with the first but the count of readers,
which one handler already makes non-zero for the writer. Two versions tell the
latest collection from an earlier one. Two writers can be on both sides of the
day check at midnight; with `maxDays` 1, three records on four days give one
rotation more than are kept and gaps of a day without a record. A rotated file
more than is kept, together with a removal that failed, needs three rotations,
which is `MaxRotated`. Two command lines and setup are the least with which two
can stop, start and delete against each other, and the sleeps are the code's, with
shutdowns below, at and above the handler's. Two builds and two keys give a
signature of the wrong program and one by the wrong key; the outputs have every
token the parser looks at, in the first and the last label, and metrics with and
without a name in common. Two pairs leave a directory, or the store, with a
certificate of one and a key of the other, and three directories give a broken
one before a whole one. Three records are of every kind at every edge of a
period, sorted in every order and with every tie; the percentile's index changes
its distance to the end at 20 records, so that 19, 20, 21 and 40 are on both sides
of the change; four errors in two lists are cut in the first list, between the
two and in the second.

`VIEW Relevant` of `MCMonitorReader` and `MCTlsCert` leaves out of the comparison
of states what neither a step nor a property looks at any more: in the first
history that only `NothingMissed` uses, which that run does not check, and what
a reader that never returns has read; in the second what was read by a step that
is over, and histories of a loading that was disturbed, of which the properties say
nothing. Two states with the same view have successors with the same views and the
same properties, so that nothing is lost.

Fairness. `DatasCache` assumes that the Go scheduler runs every runnable
goroutine (WF), that a `Collect` outside `Hanging` returns, that a `select` with
two ready cases does not pass over one of them for ever (SF, the choice is
random) and that the RWMutex serves those a writer kept waiting (SF, its
documented behaviour). `LocalWriter` assumes the same of its loop and its
`select`, that time passes, and that an open which is tried again and again
succeeds at last. `MonitorReader` assumes only that the command runs.
`WinService` assumes that the threads of the service and the application run (WF)
and that seconds pass whenever they leave room for it (SF). Calls of
`Get` and `Stop`, commands, failures, crashes and midnight are never fair.
`TimeoutEnds` of `PluginExec` is a safety property, over a clock that cannot
pass the deadline without the kill, and needs no fairness.

## 4. What the runs found

* `ReadRecords` lists the directory first and reads the current file last; a
  rotation in between hides a file (`store.go:189`, run `MonitorReader_missed`).
* `readFile` does not skip a malformed line but loops on it (`store.go:250`, run
  `MonitorReader_malformed`).
* `Collect` of a plugin whose child keeps the output open returns after the
  timeout, with metrics (`plugin_exec.go:55`, run `PluginExec_timeout`).
* `ImportToStore` does not look at whether the key got its name, and succeeds with
  a certificate whose key cannot be found (`store_windows.go:422`, run
  `TlsCert_import`). It passes the key's name as the name of the property, too.

Met on the way, without a run of their own:

* Two entries of one name share a state, so that `Get` answers in full while one
  of them has not collected (`registry.go:192`, against the comment at 259).
  `FullOnlyWhenAllCollected` is therefore stated under `UniqueNames`.
* `cleanOld` counts files, its comment speaks of days (`store.go:139`): with days
  without a record, a file older than `maxDays` days stays.
* `parseMetricLine` ends the labels at the first `}`, inside a quoted value too, and
  `parseLabels` trims quotes instead of reading escapes (`plugin_parser.go`).
* `ReadRecords` speaks of `[since, now]` (`store.go:190`) and keeps what is younger.
  The "last 20 errors" (`cli.go:102`) are the last of the metric errors followed
  by the data errors, so that a recent metric error gives way to older data errors;
  `ErrorsAccounted` says so much for each type only. The window "whichever is
  bigger for errors" (`cli.go:94`) is the requested one.
* A record or snapshot that is appended to a line which a full disk or a crash has left
  without an end is lost with it: both files are opened with O_APPEND and nobody looks
  at their last byte (`store.go:74`, `store.go:96`, `backend_jsonl.go`).
* With the rotation of the local writer disabled (`Rotate` 0), a file that was closed or
  whose encoder has failed is never opened again (`writer.go`).
* What `VerifyPlugin` has verified and what `exec.CommandContext` starts are two
  openings of one path (`plugin_exec.go:38`, `plugin_exec.go:49`, `plugin_exec.go:55`); a binary that is
  replaced in between runs once without having been verified, whereas
  `docs/plugin-system.md` has every plugin verified before it runs.
* Setup's wait lets the service go, but a command line that waits, such as the
  15 seconds of an uninstall (`service_windows.go:186`), is `limiz.exe` as well
  and makes the overwriting fail (`cmd/setup/main.go:79`).
* A certificate that root has generated has a key of mode 0600 (`generate.go:87`); when
  it is configured and the service runs as `User=limiz`, the start fails
  (`tlsutil.go:17`), as section 6 of `docs/tls_certs.md` lists among its troubles.
* `docs/tls_certs.md:12` speaks of the first successful source; configured files
  that exist and do not load end the search (`tlsutil.go:18`). Section 2 of the same
  document has the existence of the files decide, so the two sentences disagree
  with each other before either disagrees with the code, and there is no run for it.
* A second import leaves the first certificate bound to the second key
  (`store_windows.go:467` replaces a certificate of the same serial number only),
  and `loadFromStore`, which takes the first certificate it finds, does not compare
  the two; `LoadedWasMade` says for that reason that both parts were made, and only
  of files that they are one pair.
* The signer makes PKCS #1 v1.5 signatures for RSA keys whatever `opts` asks for
  (`store_windows.go:113`).

## 5. Proofs

`DatasCacheProofs` proves, for any number of entries and handlers, any naming
and any set of hanging providers:

* `TypeCorrect`: `Spec => []TypeOK`, the handlers that hold a lock included.
* `LockCorrect`: `Spec => []LockExclusion`, with the inductive `LockInv`: the
  goroutine that is between `AnnounceLock` and `Unlock` is exactly `writer` of
  its name, it is past `AcquireLock` only while `readers` is empty, and a handler
  between `RLock` and `RUnlock` is counted.
* `WholeResultsCorrect`: `Spec => []WholeResults`. The strengthening `DataInv`
  says that a result waiting to be stored has a version, that a ready state
  nobody is storing into has data or an error, and that an error `Get` has seen
  is still there; the lock invariant gives that a handler past `RLock` looks at a
  state nobody is storing into.
* `FullOnlyWhenAllCollectedCorrect` and `FreshAnswersCorrect`:
  `Spec => []FullOnlyWhenAllCollected` and `Spec => []FreshAnswers`, which both speak
  of providers of different names. `PublishedInv` says that outside of a store the
  fields of a name are what its provider has published last, `AnswerInv` that the
  entries `Get` has passed were published and are no older than the request;
  what is published never gets older (`PublishedGrows`).
* `RefinementCorrect`: `Spec => AtomicSpec`. `ProviderRefines` maps the first of the
  two stores to `AtomicCache`'s publication and every other step of a goroutine to a
  stutter, because `Unlock` leaves in the fields what the first store has promised;
  `RequestRefines` maps the reading of an entry to a step and the locks to stutters,
  because a handler past `RLock` sees nobody storing (`ReaderSeesQuiet`).

`MonitorStoreProofs` proves, for any `MaxDays`, number of days, writers and
records:

* `TypeCorrect`: `Spec => []TypeOK`.
* `RetentionCorrect`: `Spec => []RetainsRecent`, for records that were written as lines
  of their own. The strengthening: no day tag and
  no rotated file is of a day to come and no record is younger than its file
  (`StampInv`), a rotation never meets a file of its own name (`NameInv`), every
  written record that is not on disk is old (`AgeInv`), and what `cleanOld` has
  chosen to remove is old (`VictimInv`). That counting files
  never removes a young one is `TooOldIsOld`: MaxDays distinct later days fit
  between a file and today only if the file is MaxDays days old.
* `DropsOnlyImpairedCorrect`: `Spec => DropsOnlyImpaired`. The invariant: unless the
  store is impaired, the encoder is usable and the file ends with a line wherever a
  record is about to be written.
* `StoredOnceCorrect`: `Spec => []StoredOnce`. Records are told apart by their number:
  those on disk, the one being written and those that wait all have a number handed
  out before (`NumberInv`), and no two of them the same one (`ApartInv`).
* `RotatedBoundedCorrect`: `Spec => []RotatedBounded`. `BoundInv` counts the rotated
  files at every point of a rotation. `KeptAreFew` says that those not too old are
  at most `MaxDays`, since the number of younger files tells them apart.

`MonitorReaderProofs` proves, for the same constants:

* `ReadOnceCorrect`: `ReaderSpec => []ReadOnce`. `SeenInv` says that no record read
  so far will be written again, `UnreadInv` that none is in a file which is still to
  be read; a rotation moves the current file to a name that is read before it or not
  at all, and `StoredOnce` gives that two files share no record.

`LocalWriterProofs` proves, for any `MaxFiles`, interval and number of snapshots:

* `TypeCorrect`: `Spec => []TypeOK`, with `RemovalInv`, the count of the removal loop:
  the files there are `MaxFiles`, those in excess and those that resisted.
* `AtMostMaxFilesCorrect`: `Spec => []AtMostMaxFiles`, from `CountInv`: without a
  failure no file resists, so that the loop leaves `MaxFiles`.
* `FinalSnapshotCorrect`: `Spec => []FinalSnapshot`. `StopInv` follows the loop from
  the closed `stopCh` to its return: it returns after the last snapshot only, which
  is taken after the call and, without a failure, into an open file.
* `RetainsNewestCorrect`: `Spec => []RetainsNewest`. The files are in the order of
  what is in them (`OrderInv`), and a synced snapshot is in a file or the
  `MaxFiles`-th newest file was rotated after it (`KeptInv`), which a removal
  keeps because it takes the oldest and a failed rotation because it changes nothing.
* `ClosedIsRetriedCorrect`: `Spec => []ClosedIsRetried`. A file is closed by `Stop` or by
  a rotation that its age has caused, and the age starts anew with an open file only.

`WinServiceProofs` proves, for any number of command lines and any times, of which
setup's wait and the deadline of uninstall are positive:

* `TypeCorrect`: `Spec => []TypeOK`.
* `ChannelsClosedOnceCorrect`: `Spec => []ChannelsClosedOnce`. `ChannelInv`: a stop is
  accepted only while both channels are open and the handler waits, and the handler
  closes them in their order.
* `ShutdownNotCutCorrect`: `Spec => []ShutdownNotCut`. `ShutdownInv`: the application
  notices `stopCh` before the handler's sleep gets shorter, so that a shutdown that is
  quicker than the sleep always has less left than the sleep.
* `UnlockedForSetupCorrect` and `DeletedWhenStoppedCorrect`: `Spec =>
  []UnlockedForSetup` and `Spec => []DeletedWhenStopped`. The first is about the service
  and setup's own command; it leaves open other command lines, of which the code knows
  nothing. `WaitInv`: no time passes between the end of the handler and that of the
  process, so that a command whose stop was taken still has its whole wait before it or
  the process has ended.

`PluginExecProofs` proves, for any number of builds and keys and any timeout, and for
any outputs where nothing else is said:

* `TypeCorrect`: `Spec => []TypeOK`, with `SignerInv`.
* `RunsOnlySignedCorrect` and `SignedIsNotRefusedCorrect`: `Spec => []RunsOnlySigned` and
  `Spec => []SignedIsNotRefused`. `SigInv`: the signature file is empty, cut short or
  one the signer has made; `VerifyInv`: the hash an undisturbed verification carries
  is the binary's, and so is what runs, unless it was replaced since it was read.
* `TimeoutEndsCorrect`: `Spec => TimeoutEnds`, from the same invariant: a program that
  runs is watched, and the clock waits for what the watcher does.
* `RoundTrip`: `parsePrometheusText(PrintMetrics(ms)) = Meant(ms)` for every
  `Printable(ms)`: any number of metrics and labels, texts of any length. A label's
  text read from between two pairs leaves the parser between two pairs again, so that
  the text of the labels is split at the commas that join them and at no comma in a
  value (`PairRead`, `PairsSplit`); `ParsePair` gives back each label (`PairParsed`),
  whose value may hold commas, `=` and spaces; a line has its first `{` where the
  labels begin and the first `}` after it where they end (`MetricParsed`,
  `MetricLine`). `Knows` is the invariant of the scanner's loop: after the lines
  of n metrics the parser has these n as they are meant, and its maps speak of their
  names and of no others (`KnowsMore`).
* `ParsedAsMeantCorrect`: `Spec => []ParsedAsMeant`, for any set of printable outputs:
  `RoundTrip`, and `OutputInv`: a program that has ended by itself has printed
  everything, and only such a one gives an answer.

`TlsCertProofs` proves, for any lists of directories and any number of pairs:

* `TypeCorrect`: `Spec => []TypeOK`, with `PlaceInv`: the loader is at a place
  that exists, the configured files or a search path.
* `LoadedWasMadeCorrect`: `Spec => []LoadedWasMade`. `MadeInv` says that a pair
  whose key is on disk was written to its end, since the key is written last, so
  that a certificate that matches a key is of such a pair whenever it was read; and
  that what an import puts into the store is of such a pair, since it follows.
  `FoundInv`: a key file that was found exists as long as it is read, since nothing
  in the model removes one, so that a missing key never matches.
* `GeneratedIsLoadedCorrect`: `Spec => []GeneratedIsLoaded`. `WholeInv` says that
  the history variable `complete` tells what is on disk, and `ReadInv` that a
  loader nobody has disturbed, and that could read both files, has read from the
  configured directory what is still in it.
* `FailsOnlyWithoutPairCorrect`: `Spec => []FailsOnlyWithoutPair`. `PassedInv`
  says what an undisturbed loader knows of each source it has passed: a search path
  before `at` has no whole pair or could not be read, LocalMachine has no certificate
  of the name or one that has no key and may be found first, or was refused, CurrentUser
  has none or was refused. What was found stays what it is, because a step that changes
  files or store disturbs the loader (`PassedStays`).

`MonitorStatsProofs` proves, for any databases, periods and number of errors shown:

* `PercentileCorrect`: `Spec => []PercentileRight`. `SortInv` says that the slice
  is sorted up to `i` and is a permutation of the durations of its type, which
  `SortTurn` keeps because `Insert` moves one element to where it belongs
  (`InsertSorts`); `SortedPercentile` counts, by the bijections of
  `FiniteSetTheorems`, the elements on either side of the index in a sorted slice, and
  `PermutedCounts` that the records have as many; `StatsInv` keeps the printed result.
* `TypeCorrect`: `Spec => []TypeOK`, with `SortInv` and `HoursSorted`, since the rows
  are typed by the hours they are sorted by.
* `ErrorsAccountedCorrect`: `Spec => []ErrorsAccounted`. `ReadInv`: the records come in
  the order of time (`InOrder`), and the two lists of errors have each error among
  them as often as it was read and in that order (`Separated`). `ShownInv`: what is
  printed is the end of the two lists joined, and `more` counts the rest; what is cut
  off a list is no newer than what is left of it (`NoneHidden`).
* `BreakdownCorrect`: `Spec => []BreakdownAddsUp`. Each record adds to each of the five
  columns what `Gain` says, and the row of an hour has in each what the records in the
  files with a time in that hour add (`RowTotal`), neither more nor less; every record
  of the period has a row, and every row a record. `FilesInv`: what is read and unread
  have, for each column and hour, what the records of the files have for the period;
  `SumsInv`: the gains of the records read are what the summaries are about;
  `SummaryInv`: the summaries printed so far are of their records; `HourInv`: there is a
  bucket for each row, and the rows have together the gains of the records so far
  (`Broken`); `ContentInv`: and each row alone has those of its own hour. A record
  changes one bucket (`OldBucket`) or adds one (`NewBucket`), and `RowHours` gives that
  each kept record is in the hour of a row and each row's hour has one.

Sums, splits and scans are recursive functions, which TLA+ defines by CHOOSE.
`PluginExecProofs` and `MonitorStatsProofs` prove that each equation has a solution
(`Recursion`, `TotalsExist`, `ScanExists`) and that every solution has the values
in question (`Steps`, `SumIs`, `ScanIs`). They do so by `Induction`, stated for a set instead
of a predicate: a set of naturals that has 0 and every successor has all, since their
order is well founded and every set of them has a least element (`Least`).

The constants' assumptions are the named `ConstantsAssumption` of each module and
`WordsAssumption` of `PluginParser`, which TLC evaluates in the runs. Every
invariant that the passing runs check is proved, `TimeoutEnds` and the refinement of
`AtomicCache` too. What is model-checked only is liveness (`DatasCache_live`,
`StopTerminates`, `WritingResumes`, `StopEnds`), because TLAPS has no rule for fairness
here.

## 6. Not modelled

Providers, collectors and example plugins (parsing), the packaging scripts, the
contents of records and metrics, the lengths of intervals, the HTTP server.
Clock steps backwards are left out: they make both rotations overwrite a file
of the same name. A restart of the local writer forgets the age of its file, so
that a process restarted more often than the interval never rotates; nothing
documented bounds that file. When `runFunc` returns by itself, or setup fails after
its stop, the service stays as it is; nothing documented says that it should not.
The signer over NCrypt and the layout of the key blob are left out. The event log, the registry path of
a service, directories and `base.config.json` of setup are left out.

## 7. Plan

1. Label values with `}` and quotes in `PluginParser`, against the text format
   that `docs/plugin-system.md` asks of plugins.
2. Proofs: the steps of a liveness argument that are not temporal, for instance that the
   loops of `cleanOldFiles` and of `Get` have a measure every turn decreases.
