# Enc_Envelope in TLA+

Enc_Envelope seals digital evidence. A desktop program encrypts the evidence
file, splits the key among four parties, has the parties sign and time-stamp a
seal record, and stores all of it in a local SQLite database; later it unseals
the evidence (recovering the key from two shares, a key-management file or the
local share) and reseals what the analysis produced. A research-site web portal
receives the records and keeps the suspect's and the investigator's key shares
behind a multi-factor login. This directory holds TLA+ models of that program,
the TLC configurations that check them on small instances and TLAPS proofs of
what matters most.

## 1. Inventory

### Components, their state and their operations

Paths are under `src/src/`.

| Component | Source | State | Operations | Modelled by |
|---|---|---|---|---|
| Segmented encryption | `desktop/crypto/aes_gcm_encrypt.py` | the `.enc` output, the `.enc.progress` file, the running call | `encrypt_file`: load or discard progress, write segments, save progress, finish | `Container`, `EncFile` |
| Seal wizard, progress dialog | `desktop/gui/seal_wizard.py`, `progress_dialog.py` | step and buttons, session data, encryption worker, signing threads | next, previous, step clicks, read-only view, encryption, cancel, destroy, complete | `SealWizard` |
| Case store, case manager, completion | `desktop/db/sqlite_store.py`, `desktop/gui/case_manager.py`, `app.py`, `desktop/record/history_manager.py` | `seal_records`, `key_shares`, the record files, the loaded list | create, delete, load, start a wizard, save, complete | `CaseStore` |
| Unseal wizard and process | `desktop/gui/unseal_wizard.py`, `desktop/unseal_process.py` | session, results u3..u7, validation and record threads | validate, decrypt, record, save, navigate | `UnsealWizard`; what its saves leave in `CaseStore` |
| Reseal wizard and process | `desktop/gui/reseal_wizard.py`, `desktop/reseal_process.py` | session, results r1..r8 | compare, classify, encrypt, record, split, save | `ResealWizard`; what its saves leave in `CaseStore` |
| Decryption | `desktop/crypto/aes_gcm_decrypt.py` | the `.part` file, the published plaintext | `decrypt_file` | `UnsealWizard`, `Container` |
| Seal process | `desktop/seal_process.py` | session, results s1..s7 | `run_s1` .. `run_s7`, used by tests only | `SealProcess` |
| Key splitting | `desktop/crypto/sss_split.py`, `sss_recover.py` | none | `split_key`, `recover_key` | `KeyShares` (a split is a token) |
| Local keys, time lock | `desktop/crypto/local_kms.py`, `time_access_control.py` | master key file, unlock times | wrap, unwrap, check | no |
| Record building, classification | `desktop/record/record_builder.py`, `unknown_classifier.py` | none | build, validate, match by hash | `CaseStore`, `SealProcess`, `ResealWizard`, without validation |
| Web authentication | `web/auth/*.py`, `web/routes/suspect.py` | one-time codes in memory, failures in the database, the session cookie | page, send-otp, authenticate, lockout | `WebAuth` |
| Web key shares, sync | `web/models/db_models.py`, `web/routes/*.py` | cases, shares, records | register, upload, recover | `WebShares`, `Ledger`, composed with `SealProcess` in `KeyCustody` |
| Push to the research site | `desktop/sync/` | none | push, errors logged | no |
| PDF documents, signatures, other screens | | none, or output only | | no |

`PROJECT.json` lists all of them with what is left out of each.

### How they interact

The desktop program is one Tk event loop (`MainApp`) that shows one screen at a
time: home, case manager, or one wizard. A wizard runs its long work on threads
(encryption under a modal dialog; signing, validation and saving without one) and
hears from them through a queue it polls or through `after`. Wizards never call one
another; what one leaves for the next is a sealed container and a record file on
disk and a row of the database. The row has four writers: the case manager
(create, delete), the save thread of the last unseal or reseal step, and the
completion handler of `MainApp`, which inserts a missing row and then updates it.
The case manager decides on a list it loaded in another thread. The web portal
shares no process with the desktop; its routes run in parallel on the threads of
one server and share the code store (memory), the failure table (database) and
whatever the browsers carry in their cookies.

### What is hard

* **Interruption and resume.** An encryption can be cancelled, fail or die at any
  point, and a later call trusts what the earlier one left (`EncFile`).
* **Threads that outlive the screen that started them.** Encryption workers,
  signing threads, save threads and list loads report to a wizard that has moved
  on or is gone (`SealWizard`, `UnsealWizard`, `ResealWizard`, `CaseStore`).
* **Free navigation.** Step clicks, a read-only view of earlier steps and the
  Return key reach handlers in orders the forms do not suggest (the three wizards).
* **Several writers of one row**, each in its own transaction (`CaseStore`).
* **Check and act apart.** Lockout, failure count and session are each read and
  written at different moments of a request (`WebAuth`); a case is looked up and then
  inserted (`WebShares`).
* **Retries of single steps** over the state that several earlier attempts left, and
  shares handed out by each (`SealProcess`, `KeyCustody`).

### What makes each component correct

* Encryption: what a container it returns opens to is the whole source under the call's
  key, and it is made of one origin; a resume never trusts segments that are not there; a cancel keeps what
  was finished; a call that is left alone ends.
* Seal wizard: no step before what it needs; the record and the shares belong to
  the file on disk; a finished file stays, and an unfinished one is gone and does not come
  back unless the log says that it stays;
  neither the dialog nor S5 blocks for ever.
* Case store: record and shares are stored together and under their own id; the
  newest record and the shares of the last split are what is stored once nobody writes any
  more, and where they are not the next save sets it right.
* Unsealing: what is published was verified, or its own mismatch accepted; the
  session knows of all plaintext; the record is of the process that published it;
  the wizard does not stay busy.
* Web authentication: a code lets in once, and only its own session; nobody is
  authenticated without the chain; failures stay bounded and a lockout ends.
* Resealing: what the process records as encrypted is whole on disk under its key;
  what is saved belongs to it; a closed wizard leaves nothing that the last run of its
  process began, unless the log says so; the key of what was encrypted stays.
* Web shares: what is registered or uploaded stays, and who is told so can rely on it;
  the key recovered from shares that were handed out together opens the container that
  the record describes.

## 2. Plan

Order of work; 1 to 8 are done.

1. `Container` (the file format and what opens) and `EncFile` (the encryption),
   with proofs. The program's main risk is a container that does not open.
2. `SealWizard` with the dialog and the threads, with proofs.
3. `CaseStore`: what all wizards leave behind, with proofs. It composes the three
   kinds of wizard, reduced to what they store, with the case manager.
4. `WebAuth`, with proofs.
5. `UnsealWizard` with the decryption's publication, with proofs: threads, the
   acceptance of mismatches, and the read-only view that replaces the process.
6. `ResealWizard`: the comparison, the encryption of several files of which one may
   fail, the retries and the saves.
7. `SealProcess` and `WebShares`, composed in `KeyCustody`: the way of a key from
   the sealing to its recovery; `Ledger`, what each table of the portal promises, and the
   refinement that shows it is kept.
8. Theorems for 6 and 7: type invariants, `SealedOnDisk`, `StoredOpens` and `PendingGone`;
   `BundleOpens`, `RecoversKey` and the refinement of `Ledger`; `NothingReappears` for
   `SealWizard`.
9. Theorems for `SealedIsSource` and for the properties of `case_store`, and for what
   `case_status` shows one case of.
10. An abstract sealed file ("what is returned is the source as it was at some
   time of the call, under the key of the call"), `SealedFile`, implemented by `EncFile`, with its
   proof.

## 3. Modules

| Module | What it is |
|---|---|
| `Container` | the container format as a sequence of cells, and `Opens` (what `decrypt_file` publishes) |
| `EncFile` | `encrypt_file` and the user around it |
| `SealedFile` | abstract: what a call of `encrypt_file` promises |
| `EncFileProofs`, `EncLayoutProofs` | the theorems of `EncFile`, the refinement of `SealedFile` among them |
| `SealWizard`, `SealWizardProofs` | the seal wizard, its dialog and threads, and their theorems |
| `UnsealWizard`, `UnsealWizardProofs` | the unseal wizard with its processes and threads, and their theorems |
| `CaseStore`, `CaseStoreProofs` | the database as the desktop program writes it, and its theorems |
| `WebAuth`, `WebAuthProofs` | the suspect's login, and its theorems |
| `ResealWizard`, `ResealWizardProofs` | the reseal wizard with its processes, its encryption and its saves, and their theorems |
| `KeyShares` | splits, shares, recovery |
| `SealProcess` | the sealing without a wizard, with retries and restarts |
| `WebShares` | cases, shares and records on the portal |
| `Ledger` | abstract: entries that stay, and answers that can be relied on |
| `KeyCustody`, `KeyCustodyProofs` | `SealProcess` and `WebShares` together, the refinement of `Ledger`, and the theorems about all of them |
| `MC...` | model values, orders of symmetry and concrete functions for TLC |

In every module, a definition whose comment begins "Faulty" is not part of the
specification: it is the form a plausible bug would give the definition after it,
and each property is known to notice one of them.

### `Container` and `EncFile`

A container is a sequence of cells: header, then per segment its units of
ciphertext and a tag, then the metadata. A unit stands for one buffer of the
code's read loop; the last segment may be short. `enc` is the file, `prog` the
progress file, `pc` the place in `encrypt_file`; each `pc` step is one write, one
read or one call that may raise. Writes are in place (`PutAt`) because a resumed call
seeks into the old file: what lies behind the position survives until it is
overwritten. The last tag may sit in the file object's buffer (`buffered`):
`Flushed` is the file after the flush that a close does and a kill does not.
`EditSource` bumps the source's version (its `mtime_ns`). `Cancel`, `ReadFails`,
`SaveFails`, `RemoveFails` and `Kill` are the faults, at the places where the code
calls what raises. `_load_progress` compares file name and segment size first
(`SameTarget`); `Trusted` is its guards 1, 2 and 4. Guard 3, a number of segments out of
range, is left out with the corrupt progress files: under guard 1 no file the program wrote
fails it.

`Opens` is what `decrypt_file` needs to publish a plaintext: the header and the metadata are in
place, every segment's tag verifies under the key (`Authentic`), and the hash of the plaintext is
the one in the metadata (`HashAgrees`). The last can fail without any tampering: a call that
resumes takes the hash in a pass of its own before it reads the rest of the source, and an edit
between the two gives a container that is refused.

`SealedFile` is the abstract specification: a call begins, resumed or not, the source may be edited,
and the call is given up or seals, which leaves a text that is the whole source, each unit of a
version between the beginning and the end of the call; or a container that cannot be decrypted. If
the promise is `Sound`, it leaves one of these only after a resumed call under which the source
was edited (`Refusable`). `Promise` is its instance. The refinement
mapping takes the running call's parameters for `call` and, for `holds`, what decrypting the
file with the key of the call gives (`Opens`, `Decrypted`); it is `Sound` when `Orderly`. No file, segment or progress
is in the abstract state, so nothing that earlier calls left may show in the result.

### `SealWizard`

`screen` says which part of the event loop runs: the wizard, the modal dialog, or
the join of `<Destroy>`. `Show` is `_show_step` with its side effects (S5 starts a
signing thread, S6 splits the key); `GoNext` is `_go_next` with each step's validator;
`nextCmd` is what the Next button is bound to, which the read-only view rebinds while
Return still runs `_go_next`. The encryption is the worker of the dialog
(`EncFile` models it in full; here it leaves a partial or whole output). Form
validation is abstracted to whether a source and a subject were entered; the fields
of S2, keyboard focus and the contents of the signing files are left out. The clean-up
(`CleanUp`, `RemovePending`) either removes the last output or fails to, which the code only
logs: the screen is then `left`, as after a join that timed out.

### `UnsealWizard`

`procs` are the `UnsealProcess` objects by number, each reduced to U4's verdict and
to whether `u5` and `u6` are in its state; `current` is `_data["_process"]`. `task`
is the busy state: the thread of `run_async` and, once that has ended, its result
waiting for the poll. `worker`, `part` and `out` are `decrypt_file` under the dialog:
the temporary file, and the process whose plaintext was published. `Show` is
`_show_step`, which starts the decryption at U5, the record after it, and a save
thread at U7. `accepted` is an observation finer than the code's single
`mismatch_acknowledged`: whose mismatch the user accepted. U3's form checks are taken to
pass, and any validation may match, mismatch or fail. `advance_to` and `set_data`
have no caller and are left out.

### `CaseStore`

`rows` and `shares` are the two tables, `papers` the record files the wizards
leave, `procs` the processes by the order of their wizards, `savers` the save
threads of U7 and R8. A save thread reads the split and then writes in one
transaction (`SaverReads`, `SaverWrites`). Completion is `Complete`, `CheckRow`,
`InsertRow`, and then `UpdateRow` for the seal wizard or `MetaRaises` for the other two,
whose data makes `_save_case_meta` raise (section 7). The case manager's loads are
`LoadReads` and `ApplyCases`; `Listed` lets a keyword choose any subset. Whichever record file a form
is filled in with, by `get_case_for_unseal` or by the user, is in `Given`. Certificates, artifacts
and statistics are left out.

Nothing in the code orders the writers of a row: save threads are not joined, two of one wizard
may overlap, and an error is only logged. So the newest record is not always the one stored, and
the module says exactly when it may not be. `rowLags` and `sharesLag` are history variables, sets of ids.
An id enters `rowLags` when a record is issued that is not given to a save at once, when a save of it fails
or is cut off, when a thread of an earlier wizard still runs as a new save starts (`Overtaken`),
when a completion finds no row (it may insert an empty record) or is cut off, and when the row is deleted. It leaves the set
when the newest process starts a save, or updates the row, with no such thread running. `sharesLag` is the same for the
split: it collects failed saves of a reseal, and saves that start while a thread runs that may hold an
earlier split (`HoldsSplit`). `RowOfNewest` and `SharesAgree` speak of all other ids,
once no thread saves for them any more (`Idle`).

### `WebAuth`

`requests` are the requests in service, each with the session it came with and the
stage it has reached; `Deliver` brings an answer, with its session cookie, back to
the browser, and an answer may be lost. `codes` is the code store, `inbox` the
suspect's mail, `failures` the table that the lockout counts. The chain is a
constant sequence of factors. `grants` is an observation: who was let in with which
code. Left out: the CSRF token, a case without an e-mail address, two codes with
the same six digits, other pages that rewrite the cookie, and a deployment with
several server processes (each would have its own code store). `Rows` bounds the failures
recorded within a window: with all rows in use a failure cannot be recorded, as
when the database raises, which the code allows anyway.

### `ResealWizard`

As in `UnsealWizard`, `procs` are the processes by number and `current` is
`_data["_process"]`. R1 makes a process (`LoadRecord`), R2 compares on a thread
(`Compared`: a file whose hash the record has is known, each other one is to be
classified in R3), and `_show_step(5)` opens the dialog whose worker encrypts the
files one by one: `WorkerTakes`, `WorkerWrites` and `WorkerFinishes` are one round of
the loop of `run_r5_encrypt`, `EncPath` the output that a file's stem gives. `disk` says
per output path which process wrote it and whether it is whole. `Close` and
`CloseUnderDialog` are the two ways the wizard is destroyed, the second with the join that
may time out; the clean-up removes any subset of the pending outputs and logs the others
(`RemovePending`, screen `left`). `saving` is the save thread of R8, which reads the process when it runs.
A file that is excluded in R3 is one that is not derived; files that vanish before R5, or
cannot be read in R2, are dropped without a message, as in the code (`gone`, `readable`).
Left out: the checks of the forms and the fields of the record.

### `SealProcess`, `WebShares`, `Ledger`, `KeyCustody`

`SealProcess` has one action per step. The docstring of the module promises that on an
error "the current state is preserved so the user can retry from the failing step", so
the environment may repeat the failed step, start the background run again, or run S1
again; a restart loses the state and leaves the disk and the database. Keys are numbered
as they are drawn and splits as they are made (`KeyShares`). S5 is one step: what it
signs and the time stamp are left out, and so is the envelope of shares 3 and 4.

`WebShares` keeps the tables by database, since `get_db` gives each request MariaDB or,
when that cannot be reached, the SQLite file. `register_case` is two steps (`LookUp`,
`InsertCase`) and registrations are served side by side; uploads are one step because no
case is ever deleted. `answer` is what the last request was told; an answer to a success
may get lost, and the client may then ask again. Nothing in the repository uploads share
4, which `emergency_recover` needs: `DepositShare4` is the administrator's hand and external.

`KeyCustody` joins the two: shares that `SealProcess` handed out are uploaded, under
the id they came with or another one. `Ledger` is the abstract specification of one
table. Three instances of it are implemented: `CaseLedger` (a registration that was
answered with success is the one that stays), `ShareLedger` and `RecordLedger` (who is
told of success finds some entry there, though it may be another one's: INSERT OR
IGNORE). The refinement mapping takes the table for the entries and the answer, if it
is one to an upload of that kind, for what was told. Records are never replaced in either
database, but MariaDB's INSERT IGNORE drops a record whose case is not there and the answer is a
success (section 7): that one answer is not counted as told (`ReliableRecordKeys`).

## 4. Runs

| Run | Module, configuration | Shows |
|---|---|---|
| `enc_orderly` | `EncFile`, `EncFile_orderly` | `SealedIsSource`, `CancelKeepsSegments`, `TypeOK`, and that the sound `SealedFile` is implemented (`SealsSource`), when all calls use one segment size and a progress save never fails; the source may be edited at any time |
| `enc_any` | `EncFile_any` | `OneOrigin`, `SealsSource` and, under fairness, `EventuallySeals`, with two segment sizes, two sources of one name and every fault |
| `enc_splice` | `EncFile_splice` | violation: `ResumeCovered` with two segment sizes and two cancels |
| `seal_wizard` | `SealWizard` | the wizard's five invariants, `FinishedFileStays`, `DialogEnds`, `SigningUnblocks` |
| `unseal_wizard` | `UnsealWizard` | `StepsInOrder`, `PublishedIsVerified`, `RecordOfOutput`, `PlaintextAccounted`, `TypeOK` and, under fairness, `Responds` |
| `case_store` | `CaseStore` | `BundleTogether`, `NothingCrosses`, `RowOfNewest`, `SharesAgree`, `TypeOK` with late and overlapping threads, failures, restarts, cancels, deletions and old records |
| `case_status` | `CaseStore_status` | violation: `StatusOfHistory` |
| `web_auth` | `WebAuth` | `CodeForOne`, `AuthEarned`, `FailureBound`, `TypeOK` and, under fairness, `LockoutEnds`, with two browsers, two concurrent requests, restarts and lost answers |
| `reseal_wizard` | `ResealWizard` | `SealedOnDisk`, `StoredOpens`, `PendingGone`, `TypeOK` |
| `reseal_key` | `ResealWizard_key` | violation: `KeyStays` |
| `custody` | `KeyCustody` | `BundleOpens`, `RecoversKey`, `TypeOK`, and that the portal's tables are ledgers (`LedgersKept`), with a MariaDB database |

### Bounds, and why they are enough

* `EncFile`: sources of three or five units and segments of one to three give one,
  two and three segments, equal and short last ones; a splice needs two segment
  sizes and two interrupted calls. `MaxFaults` of two or three lets a call resume on what
  a resumed call left. A nonce can be drawn
  as long as it occurs nowhere, in a file or in the call; nine are enough that
  one is always left (deadlock is checked).
  `MaxVer` of two tells an edited source from an unedited one.
* `SealWizard`: two sources with two outputs, two keys and two subjects let every
  datum disagree with another; two signing threads overlap. Returning to S1 and
  retrying has no bound.
* `UnsealWizard`: three validations: one whose decryption is cancelled or fails, one
  whose plaintext is kept, and one in the read-only view after it. Failed validations,
  cancels, returns and record attempts have no bound.
* `CaseStore`: two ids; three wizards make a seal, an unseal and a reseal, or two
  wizards of one case around another's; two save threads race, of one wizard or of two;
  `MaxEvents` of three holds that life cycle (two are enough for `case_status`).
* `WebAuth`: the bound of `FailureBound` is reached with two requests in service and
  one failure allowed. Two browsers, two requests and one code make every mix-up of
  session and browser that one code can be in; the theorems hold for any number.
  `Lockout` and `Expiry` count ticks, and an age beyond the expiry is as good as
  another (`Older`).
* `ResealWizard`: two files with two outputs, one of them known to the record; two
  processes make an encryption that is abandoned and one that is kept, or a replacement
  after the encryption. Cancels, retries, splits and saves have no bound. The
  case of two files with one output path is in the model and covered by the proof of
  `SealedOnDisk`.
* `KeyCustody`: two runs of S1 and two sealings make a bundle whose parts come from
  different attempts; two registrations race for one seal id, and shares of the second
  sealing are uploaded under the first one's id. One database, which is MariaDB (it may do
  all that SQLite does, and drop a record); several are covered by the theorems.

`CHECK_DEADLOCK FALSE` is given where the system may stop: a closed wizard, a
program with its bound of wizards used up, a server with no codes left to draw.
Symmetry is used in runs without liveness only.

### Fairness

Nothing is assumed of the user, of a browser, or of a fault. `EncFile` assumes that
a running call takes its next step (`WF_vars(Worker)`): a thread of a live process
runs. `SealWizard` assumes that the threads end (`WorkerFinishes \/ WorkerFails`,
`SignerEnds`: their work is finite, network calls have time-outs), that the dialog's poll and
`after` callbacks run while the event loop does, and that `join(5)` returns.
`UnsealWizard` assumes the same of its threads and polls, except that the user need not
cancel and saves need not end. `ResealWizard`, `CaseStore` and `KeyCustody` assume
none: their properties are about safety.
`WebAuth` assumes that time passes (`WF_vars(Tick)`), not even that requests are
served.

## 5. Proofs

Proved by TLAPS for every value of the constants that meets the modules' named
assumptions. Each argument is an inductive invariant (`IInv` or the like), with one
lemma per action.

* **`EncFileProofs`**: `TypeCorrect`, `OriginCorrect` (`OneOrigin`). `OneOrigin`
  speaks of a finished container; `OriginInv` adds that every list of segments,
  in the running call, in the progress file and in the metadata, is of one job, and
  that the progress file is never empty. It holds for all segment sizes and all faults.
* **`EncLayoutProofs`**: `SealedOpensCorrect`, `ResumeCoveredCorrect`,
  `CancelCorrect`, `SealedIsSourceCorrect`, each from the assumption `Orderly` (one segment
  size; `_save_progress` does not fail after a tag). Without it they are false: `enc_splice`. The invariant
  `LayoutInv` says what each stage has on disk; its core is `ProgressInv`, that a
  progress file whose segments fit the output's size describes it, because the
  file always ends before the tag of the segment after them. That is what makes the size test of `_load_progress`
  sound. `SourceInv` adds the versions: a source's only grows (`VersionInv`), every
  ciphertext unit in the segments of a call lies between the version the call bound and
  the source's current one, so that they coincide while nothing was edited; the hash of a
  call that does not resume follows the units it wrote, the hash of one that does is of one
  version (`HashInv`); and both survive the return (`ReturnedInv`).
  `SealsSourceCorrect`, the refinement of `SealedFile`, does not assume `Orderly`: a returned
  container of any setting that opens holds the source, so the containers of `enc_splice` are lost
  but never decrypt to something else. A start begins the abstract
  call, resumed or not; every other step of the worker but the return stutters; a fault gives up;
  the return seals (`ReturnSeals`, from `OpenedText`: every unit of the source lies in one of the segments,
  `UnitPlace`, and its version between the two of `VersionInv`). `PromiseInv` needs
  `LayoutInv` and `HashInv` only for a container to open, and that a call can be told from none
  (`CallsAssumption`): under `Orderly` the tags of a returned container verify, and its hash
  agrees unless the call resumed and the source was edited under it. `SealedOpens` is part of what `SealsSource` checks; that `ResumeCovered`
  holds under `Orderly` is the theorem, that it fails without is the run `enc_splice`.
  `CallsEndCorrect`, again for every setting, is why a call ends: each step of the worker lowers `Rank`
  (the units left, weighted, and the place in the segment), which nothing raises while the call runs;
  it needs that a segment is begun only where one is left and not written beyond its end
  (`WithinSegment`).
* **`SealWizardProofs`**: `TypeCorrect`, `StepsInOrderCorrect`,
  `RecordDescribesFileCorrect`, `SharesOpenFileCorrect`,
  `FinishedFileStaysCorrect`, `NothingReappearsCorrect` (the output of an unfinished encryption is
  gone for good, or the log says that it stays). The strengthening `Session` ties the worker to the
  session: a finished encryption excludes a worker, a worker has the session's key, and a task that
  ended well under the dialog has left a whole file; `Outcome` ties record and
  shares to the finished encryption.
* **`UnsealWizardProofs`**: `TypeCorrect`, `StepsInOrderCorrect`,
  `PublishedIsVerifiedCorrect`, `RecordOfOutputCorrect`,
  `PlaintextAccountedCorrect`. The strengthening says whose things the session holds:
  `Verdict` ties the verdict shown to the current process, `Publication` lets a process
  have `u5` only if it published the plaintext, and `Recording` lets one have `u6` only
  if its result is the session's. Without the last two a replaced process could still be
  recorded or saved.
* **`CaseStoreProofs`**: `TypeCorrect`, `BundleTogetherCorrect`, `NothingCrossesCorrect`,
  `RowOfNewestCorrect`, `SharesAgreeCorrect`, all without any assumption about the order or the
  success of saves. The strengthening of the first three says that a save thread has a
  process that issued its record, that a reseal was split before it is saved, and that a
  process never changes what it issued. For the other two, `LeadOK` says what the threads that
  still run may write to a table that does not lag: for an id outside `rowLags` each of
  them is of the newest process of the id (`RowFollows`); for one outside `sharesLag` each that is
  to store shares is of the last split's reseal and holds no earlier split (`SharesFollow`). That is
  inductive because an id whose newest process has not saved, or which another process's thread may
  still write, is in the set. What the theorems promise rests on how little
  the sets collect, so the events that add an id are named one by one in section 3 and at
  the actions.
  `OnlyUnsealCorrect`: every case in the list is accepted for
  unsealing and only for that, which is what `case_status` shows an instance of.
* **`WebAuthProofs`**: `TypeCorrect`, `CodeForOneCorrect`, `AuthEarnedCorrect`,
  `FailureBoundCorrect`. `CodesOK` says that a code that let
  someone in is gone from the store, and that every session that holds a code,
  in a cookie, a request or an answer, is of the browser it was drawn for. `CountOK`
  counts with the recorded failures the requests that are past the check and may still
  record one: together they never exceed the bound. `LockoutRunsOutCorrect` says why a lockout
  ends: while it lasts the requests in service only become fewer, and a failure that is
  recorded is one of theirs.
* **`ResealWizardProofs`**: `TypeCorrect`, `SealedOnDiskCorrect`,
  `StoredOpensCorrect`, `PendingGoneCorrect`, for any files and outputs, two files with one
  output included. `Flow` says who is at work when (a worker runs only behind the dialog or
  a destroyed wizard, and none once the encryption is kept). `Outcome` lets only the
  process of `encrypt_done` have `r5`, so that a save thread of any other process stores
  nothing. `Written` is the loop invariant of the worker: each finished output is whole
  unless a later file, or the one at hand, has the same path. `LostForGoodCorrect` is what
  follows from the step `reseal_key` finds: once the process with `r5` was replaced unsplit
  (`KeyLost`), nothing is ever stored, since R7 splits only for the current
  process, which has no `r5`, and a stored bundle is of a process that was split (`SplitFirst`).
* **`KeyCustodyProofs`**: `TypeCorrect`, `BundleOpensCorrect`, `RecoversKeyCorrect`,
  `LedgersKeptCorrect`. `Progress` says what the state of the sealing holds at each step,
  whether the step runs or failed and may be repeated; in particular an S7 to be repeated
  has the split that is stored. `Newest` says that the newest key is the container's unless
  S1 did not finish with it. `OneSplit` gives each seal id one split. The refinement maps
  each of the portal's tables to a `Ledger`, its answers to `told`: every step enters at
  most one entry where there was none, and tells only what is then there; for the records this is so
  in MariaDB, too, except for the success told of a row it dropped. It needs that
  the three kinds of keys and the two kinds of answers can be told apart (`AnswersApart`).

Model-checked only: the liveness properties (`EventuallySeals`, `DialogEnds`,
`SigningUnblocks`, `Responds`, `LockoutEnds`), which are out of the prover's reach. For
`EventuallySeals` and `LockoutEnds` the safety half of the argument is proved
(`CallsEndCorrect`, `LockoutRunsOutCorrect`); that a step is taken at all, and that time passes, is
fairness and `ENABLED`, which TLC checks.

## 6. Hazards

`PROJECT.json` lists every hazard with its line and the properties that would
notice it. Those without a property have a note with the reason.

## 7. Where the code and what is said of it disagree

Shown by a run:

* **Resume over another call's segments** (`enc_splice`): a progress file refused for
  its segment size is not discarded and is later trusted by the file's size alone
  (`aes_gcm_encrypt.py:452`).
* **Completion of an unsealing or resealing raises** (`case_status`):
  `_save_case_meta` takes the investigator for a dictionary outside its `try`
  (`app.py:442`), the two wizards store a string. The status is never derived, the
  wizard stays open, and `Accepts` never lets a reseal start from the list
  (`OnlyUnsealCorrect` proves it for every number of cases and wizards).
* **The key of a resealing can get lost** (`reseal_key`): after R5 a click on R1 shows it
  read-only, but Return still runs `_validate_r1`, which puts a new process into the
  session (`reseal_wizard.py:436`). The key was in the old one. R7 then fails with
  "R5가 완료되지 않았습니다." and R5 is not run again, because `encrypt_done` is set: the
  containers cannot be opened by anyone. `LostForGoodCorrect` proves that this is final: no click,
  retry or save thread gets shares of any key stored afterwards.

Seen while reading, visible in the models or planned for them, with no run:

* A case made before its sealing is listed as `S1U0R0` (`sqlite_store.py:355`), and
  `_on_start_seal` refuses every status that contains `S1` (`case_manager.py:624`),
  with a message that only such cases are eligible.
* A deletion during a load is not followed by a reload: the deleted case stays
  listed (`case_manager.py:366`).
* Two save threads of one reseal may end in either order, so the shares stored may
  be of an earlier split than the ones shown (`reseal_wizard.py:1385`); likewise a save thread of
  an earlier wizard may overwrite a newer record (`unseal_wizard.py:1065`). The next save sets
  either right; nothing in the program notices or starts one.
* A save or completion that fails is only logged (`app.py:481`), and a completion that finds no row
  stores an empty record unless it is a seal's (`app.py:346`).
* `get_case_for_unseal` fills the form in with `<id>_record.json`
  (`sqlite_store.py:740`; `reseal_wizard.py:327` says that is the unseal record), which is
  the name of the sealing's record: unsealing and resealing write
  `<id>_unseal_record.json` and `<id>_reseal_record.json`. Unsealing a resealed case from
  the list with the form as it is starts from the history of the sealing, and the row's
  history shrinks: the events of the resealing are no longer in it. The model has this (`Given`), and
  no property here claims that histories only grow.
* A call of `encrypt_file` that resumes hashes the source in a pass of its own
  (`aes_gcm_encrypt.py:116`). If the source is edited between that pass and the reads, the call
  returns a container that `decrypt_file` refuses as tampered with (`aes_gcm_decrypt.py:108`).
* An unfinished output that cannot be removed stays, with a line in the log
  (`seal_wizard.py:264`, `reseal_wizard.py:260`).
* Shares 3 and 4 of a seal made in the wizard are never stored (`app.py:359`) although the
  last step says so (`i18n.py:572`).
* The plain form cannot use its code: the redirect of send-otp leads to a page that
  overwrites the session id the code is stored under (`web/routes/suspect.py:112`).
* Resealing: two sources with one stem have one output, of which the last one stays
  (`reseal_process.py:274`); the clean-up knows the outputs of the last run of R5 of the current
  process only (`:271`): those of a process that a new validation of R1 replaced, and of an earlier run
  whose files the last one no longer takes, stay on disk without a key; the key is split anew at each passage of R7, and R8 starts a save at each
  display; after a new comparison without unknown files the classification of the one before stays
  (`reseal_wizard.py:647`).
* "Enc_Envelope 웹 DB가 키 조각 단일 원장" (`docs/research-site-sync-contract.md:22`: the
  portal's database is the single ledger of key shares), but a request whose MariaDB
  connection fails is served from the SQLite file (`db_models.py:216`): the shares
  of one seal may end up in two databases.
* An upload for an index that is taken is answered as a success although the share
  stored is another one (`db_models.py:363`); on MariaDB a record of a case that is not registered is
  dropped and answered as a success (`db_models.py:412`). Nothing uploads share
  4, which `emergency_recover` needs.
* The desktop's push to the research site logs its failures and never repeats them
  (`research_site_client.py:163`); `check_unlock_time` and `decrypt_envelope` have no
  caller, so the unlock time binds nobody.
* `SealProcess.run_s5` renders the PDF before the certificate's fingerprint is in the record.
* `enc_path_pending` is overwritten by each attempt (`seal_wizard.py:453`), so the
  clean-up (`:237`) knows the last output only; the forms stay editable after the
  signature (`:1316`, `:1383`).
* `verify_otp` pops the code on every attempt (`otp_service.py:182`); its docstring
  says on success or expiry (`:172`).
* Going back from S4, changing S3 and reviewing S4 again does not rebuild the record:
  the preview shows the new subject, the record keeps the old one (`seal_wizard.py:742`).
* In the unseal wizard's read-only view the fields of U3 stay editable and Return
  validates them again: a new process replaces the one that decrypted
  (`unseal_wizard.py:587`). Its record and its save then fail, which is what keeps
  `RecordOfOutput`; but a record that was not made before can never be made, and U7
  says "saved" (`unseal_wizard.py:1051`, i18n `complete.unseal_saved`) whatever the save
  did.
* U7 shows that a mismatch was accepted if any ever was, also for a file replaced since
  (`unseal_wizard.py:631`, `:1047`); the question itself is asked anew for each
  mismatch (`PublishedIsVerified`).

## 8. Not modelled

The reasons are in `PROJECT.json`, component by component. Cryptography is
symbolic: a ciphertext opens under the key, nonce and layout it was made with and
under no other; the SSS arithmetic, the PDF layout, the time-stamp protocol and the
screens that only read are left out.
