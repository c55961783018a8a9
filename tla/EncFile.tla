------------------------------- MODULE EncFile -------------------------------
(***************************************************************************)
(* encrypt_file of desktop/crypto/aes_gcm_encrypt.py: segmented AES-GCM    *)
(* encryption of a source file into a container, with a .progress file     *)
(* that lets an interrupted encryption resume.                             *)
(*                                                                         *)
(* Successive calls of encrypt_file write the same output path; between    *)
(* and during calls the user may edit the source, choose another segment   *)
(* size, or come back with another key.  A call can be cancelled from its  *)
(* progress callback, fail with an I/O error, or die with the process.     *)
(***************************************************************************)
EXTENDS Container

CONSTANTS
  BaseName,       \* os.path.basename of each source
  FaultKinds,     \* what may go wrong: a subset of "cancel", "read" (a read
                  \* of the source raises), "save" (_save_progress raises),
                  \* "remove" (os.remove raises) and "kill"
  MaxFaults,      \* faults in a behaviour: bound
  None

ASSUME FaultsAssumption == MaxFaults \in Nat

VARIABLES
  \* Disk
  enc,        \* the output file
  prog,       \* the .progress file
  ver,        \* version (mtime_ns) of each source
  \* The running call
  pc,         \* where it is
  job,        \* its parameters and the source binding it took with stat()
  resumed,    \* start_chunk > 0
  atts,       \* nonces/tags/chunk_lengths of the finished segments
  cur,        \* the GCM stream of the segment being written
  done,       \* units of that segment written so far
  buffered,   \* the last tag is still in the file object's buffer
  hash,       \* what the hash covers
  \* Observation and bound
  sealed,     \* the result the last call returned, None if it has not
  dirty,      \* the source was edited since that call took its binding
  faults

vars == <<enc, prog, ver, pc, job, resumed, atts, cur, done, buffered, hash,
          sealed, dirty, faults>>
run == <<job, resumed>>
chunk == <<cur, done>>

Job == [src: Sources, csize: Segments, key: Keys, ver: Versions]
Progress == [name: {BaseName[s] : s \in Sources}, job: Job, atts: Seq(Attempt)]
Stages == {"idle", "hash", "open", "chunk", "write", "save", "boundary",
           "meta", "header", "remove"}

ASSUME NoneAssumption == None \notin Progress \cup Job \cup Attempt

TypeOK ==
  /\ enc \in Seq(Cell)
  /\ prog \in Progress \cup {None}
  /\ ver \in [Sources -> Versions]
  /\ pc \in Stages
  /\ job \in Job \cup {None}
  /\ pc # "idle" => job \in Job
  /\ resumed \in BOOLEAN
  /\ atts \in Seq(Attempt)
  /\ cur \in Attempt \cup {None}
  /\ pc = "write" => cur \in Attempt
  /\ done \in Nat
  /\ buffered \in BOOLEAN
  /\ hash \in Hashes
  /\ sealed \in Job \cup {None}
  /\ dirty \in BOOLEAN
  /\ faults \in 0..MaxFaults

Init ==
  /\ enc = <<>>
  /\ prog = None
  /\ ver = [s \in Sources |-> 1]
  /\ pc = "idle"
  /\ job = None
  /\ resumed = FALSE
  /\ atts = <<>>
  /\ cur = None
  /\ done = 0
  /\ buffered = FALSE
  /\ hash = [u \in Units |-> 0]
  /\ sealed = None
  /\ dirty = FALSE
  /\ faults = 0

-----------------------------------------------------------------------------
(* Starting a call: stat, then _load_progress.                             *)

\* The call takes j as parameters and continues after the segments al.
Start(j, al) ==
  /\ pc = "idle"
  /\ job' = j
  /\ atts' = al
  /\ resumed' = (al # <<>>)
  /\ pc' = IF al # <<>> THEN "hash" ELSE "open"
  /\ hash' = [u \in Units |-> 0]
  /\ cur' = None
  /\ done' = 0
  /\ sealed' = None
  /\ dirty' = FALSE
  /\ UNCHANGED <<ver, buffered, faults>>

\* target_file and chunk_size are compared first.
SameTarget(j) == /\ prog # None
                 /\ prog.name = BaseName[j.src]
                 /\ prog.job.csize = j.csize

\* Faulty variants of Trusted, each without one of the guards.
TrustedAnyVersion(j) == /\ prog.job.src = j.src
                        /\ prog.job.key = j.key
                        /\ DataEnd(j.csize, Len(prog.atts)) <= Len(enc)
TrustedAnyKey(j) == /\ prog.job.src = j.src
                    /\ prog.job.ver = j.ver
                    /\ DataEnd(j.csize, Len(prog.atts)) <= Len(enc)

\* Guard 1 (path, size and mtime), guard 2 (key), guard 4 (output size).
Trusted(j) == /\ prog.job.src = j.src
              /\ prog.job.ver = j.ver
              /\ prog.job.key = j.key
              /\ DataEnd(j.csize, Len(prog.atts)) <= Len(enc)

\* No progress file, or one for another target: start over, touch nothing.
StartFresh(j) ==
  /\ ~SameTarget(j)
  /\ Start(j, <<>>)
  /\ UNCHANGED <<enc, prog>>

\* A guard refuses: discard both files, each as far as os.remove succeeds.
StartDiscarding(j) ==
  /\ SameTarget(j)
  /\ ~Trusted(j)
  /\ Start(j, <<>>)
  /\ \/ prog' = None
     \/ "remove" \in FaultKinds /\ UNCHANGED prog
  /\ \/ enc' = <<>>
     \/ "remove" \in FaultKinds /\ UNCHANGED enc

StartResuming(j) ==
  /\ SameTarget(j)
  /\ Trusted(j)
  /\ Start(j, prog.atts)
  /\ UNCHANGED <<enc, prog>>

EncryptFile(s, c, k) ==
  LET j == [src |-> s, csize |-> c, key |-> k, ver |-> ver[s]]
  IN  StartFresh(j) \/ StartDiscarding(j) \/ StartResuming(j)

-----------------------------------------------------------------------------
(* The steps of a call.                                                    *)

Goto(from, to) == pc = from /\ pc' = to

\* What the file holds once the buffered tag of the last segment is out.
Flushed == IF buffered
             THEN PutAt(enc, DataEnd(job.csize, Len(atts)), Tag(atts[Len(atts)]))
             ELSE enc

\* A resumed call hashes the whole source in a pass of its own.
CollectMetadata ==
  /\ Goto("hash", "open")
  /\ hash' = [u \in Units |-> ver[job.src]]
  /\ UNCHANGED <<enc, prog, ver, run, atts, chunk, buffered, sealed, dirty, faults>>

\* open(output, "r+b" or "wb"): "wb" truncates and writes an empty header.
Open ==
  /\ Goto("open", IF More(job.csize, Len(atts)) THEN "chunk" ELSE "meta")
  /\ enc' = IF resumed /\ enc # <<>> THEN enc ELSE <<Header(0)>>
  /\ UNCHANGED <<prog, ver, run, atts, chunk, buffered, hash, sealed, dirty, faults>>

\* Nonces that occur nowhere: os.urandom never repeats one.
Fresh ==
  LET used(al) == {al[i].id : i \in 1..Len(al)}
  IN  Ids \ (used(atts)
             \cup (IF prog = None THEN {} ELSE used(prog.atts))
             \cup {enc[p].att.id : p \in {q \in 1..Len(enc) : enc[q].kind \in {"ct", "tag"}}}
             \cup UNION {used(enc[p].atts) : p \in {q \in 1..Len(enc) : enc[q].kind = "meta"}})

\* A faulty variant of NewChunk that draws no nonce.
NewChunkSameNonce ==
  /\ Goto("chunk", "write")
  /\ done' = 0
  /\ UNCHANGED <<enc, prog, ver, run, atts, cur, buffered, hash, sealed, dirty, faults>>

NewChunk ==
  /\ Goto("chunk", "write")
  /\ Fresh # {}
  /\ cur' = [id |-> CHOOSE i \in Fresh : TRUE, key |-> job.key, src |-> job.src,
             ver |-> job.ver, csize |-> job.csize]
  /\ done' = 0
  /\ UNCHANGED <<enc, prog, ver, run, atts, buffered, hash, sealed, dirty, faults>>

\* Read, hash (inline unless resumed), encrypt and write one buffer.
WriteBuffer ==
  LET c == job.csize
      k == Len(atts)
      u == Read(c, k) + done + 1
  IN  /\ pc = "write"
      /\ done < ChunkLen(c, k + 1)
      /\ enc' = PutAt(Flushed, DataEnd(c, k) + done + 1, Ct(cur, u, ver[job.src]))
      /\ hash' = IF resumed THEN hash ELSE [hash EXCEPT ![u] = ver[job.src]]
      /\ done' = done + 1
      /\ buffered' = FALSE
      /\ UNCHANGED <<prog, ver, pc, run, atts, cur, sealed, dirty, faults>>

\* A faulty variant of WriteTag that does not count the segment.
WriteTagUncounted ==
  /\ Goto("write", "save")
  /\ done = ChunkLen(job.csize, Len(atts) + 1)
  /\ enc' = Flushed
  /\ buffered' = TRUE
  /\ atts' = IF atts = <<>> THEN <<cur>> ELSE atts
  /\ UNCHANGED <<prog, ver, run, chunk, hash, sealed, dirty, faults>>

\* finalize(): the 16-byte tag goes to the file object's buffer.
WriteTag ==
  /\ Goto("write", "save")
  /\ done = ChunkLen(job.csize, Len(atts) + 1)
  /\ enc' = Flushed
  /\ buffered' = TRUE
  /\ atts' = Append(atts, cur)
  /\ UNCHANGED <<prog, ver, run, chunk, hash, sealed, dirty, faults>>

\* Written to a .tmp file, then os.replace.
SaveProgress ==
  /\ Goto("save", "boundary")
  /\ prog' = [name |-> BaseName[job.src], job |-> job, atts |-> atts]
  /\ UNCHANGED <<enc, ver, run, atts, chunk, buffered, hash, sealed, dirty, faults>>

\* The callback returns: next segment, or close the file.
Continue ==
  /\ pc = "boundary"
  /\ \/ /\ More(job.csize, Len(atts))
        /\ pc' = "chunk"
        /\ UNCHANGED <<enc, buffered>>
     \/ /\ ~More(job.csize, Len(atts))
        /\ pc' = "meta"
        /\ enc' = Flushed
        /\ buffered' = FALSE
  /\ UNCHANGED <<prog, ver, run, atts, chunk, hash, sealed, dirty, faults>>

\* _write_metadata_and_finalize: metadata at the end of the file, then ...
WriteMetadata ==
  /\ Goto("meta", "header")
  /\ enc' = Append(enc, Meta(atts, job.csize, hash))
  /\ UNCHANGED <<prog, ver, run, atts, chunk, buffered, hash, sealed, dirty, faults>>

\* ... its offset at the start.
WriteHeader ==
  /\ Goto("header", "remove")
  /\ enc' = PutAt(enc, 1, Header(Len(enc)))
  /\ UNCHANGED <<prog, ver, run, atts, chunk, buffered, hash, sealed, dirty, faults>>

\* os.remove(progress), return EncryptionResult.
Return ==
  /\ Goto("remove", "idle")
  /\ prog' = None
  /\ sealed' = job
  /\ UNCHANGED <<enc, ver, run, atts, chunk, buffered, hash, dirty, faults>>

-----------------------------------------------------------------------------
(* What goes wrong.                                                        *)

Fault(kind) == /\ kind \in FaultKinds
               /\ faults < MaxFaults
               /\ faults' = faults + 1

\* An exception unwinds the call: the with block flushes and closes the file.
Unwind ==
  /\ pc' = "idle"
  /\ enc' = Flushed
  /\ buffered' = FALSE
  /\ UNCHANGED <<prog, ver, run, atts, chunk, hash, sealed, dirty>>

\* A faulty variant of Cancel: the callback is called before the save.
CancelBeforeSave ==
  /\ \/ pc = "write" /\ 0 < done /\ done < ChunkLen(job.csize, Len(atts) + 1)
     \/ pc = "save"
  /\ Fault("cancel")
  /\ Unwind

\* The progress callback raises: within a segment, or after its save.
Cancel ==
  /\ \/ pc = "write" /\ 0 < done /\ done < ChunkLen(job.csize, Len(atts) + 1)
     \/ pc = "boundary"
  /\ Fault("cancel")
  /\ Unwind

\* src.read or collect_metadata raises, or the source ends early.
ReadFails ==
  /\ \/ pc = "hash"
     \/ pc = "write" /\ done < ChunkLen(job.csize, Len(atts) + 1)
  /\ Fault("read")
  /\ Unwind

SaveFails ==
  /\ pc = "save"
  /\ Fault("save")
  /\ Unwind

\* The container is complete but its progress file stays: an EncryptionError.
RemoveFails ==
  /\ pc = "remove"
  /\ Fault("remove")
  /\ Unwind

\* The process dies: what is still buffered is lost.
Kill ==
  /\ pc # "idle"
  /\ Fault("kill")
  /\ pc' = "idle"
  /\ buffered' = FALSE
  /\ UNCHANGED <<enc, prog, ver, run, atts, chunk, hash, sealed, dirty>>

\* The source is written to; its mtime changes.
EditSource(s) ==
  /\ ver[s] < MaxVer
  /\ ver' = [ver EXCEPT ![s] = @ + 1]
  /\ dirty' = (dirty \/ (pc # "idle" /\ job.src = s))
  /\ UNCHANGED <<enc, prog, pc, run, atts, chunk, buffered, hash, sealed, faults>>

-----------------------------------------------------------------------------
Worker == \/ CollectMetadata \/ Open \/ NewChunk \/ WriteBuffer \/ WriteTag
          \/ SaveProgress \/ Continue \/ WriteMetadata \/ WriteHeader \/ Return

Faulty == Cancel \/ ReadFails \/ SaveFails \/ RemoveFails \/ Kill

User == \/ \E s \in Sources, c \in Segments, k \in Keys : EncryptFile(s, c, k)
        \/ \E s \in Sources : EditSource(s)

Next == Worker \/ Faulty \/ User

Spec == Init /\ [][Next]_vars

\* The worker thread runs; the user and the faults owe nothing.
FairSpec == Spec /\ WF_vars(Worker)

-----------------------------------------------------------------------------
(* Properties.                                                             *)

\* The attempt a was made by a call with the parameters and the binding j.
MadeBy(j, a) == /\ a.key = j.key
                /\ a.src = j.src
                /\ a.ver = j.ver
                /\ a.csize = j.csize

\* A returned container lists segments of one origin only: one key, one source,
\* one stat() of it, one segment size, whatever calls were cut short before
\* (what guards 1 and 2 of _load_progress are for).
OneOrigin ==
  sealed # None => \A k \in 1..Len(Footer(enc).atts) : MadeBy(sealed, Footer(enc).atts[k])

\* encrypt_file returns only containers that the key it was given opens, save
\* for a call that resumed and whose source was edited while it ran.
SealedOpens == sealed # None /\ (~dirty \/ ~resumed) => Opens(enc, sealed.key)

\* If the source was left alone during the call that returned, the container
\* holds exactly that version of it, however many calls contributed segments
\* and whatever was edited between them, and decrypt_file's hash check passes.
\* A call that did not resume hashes what it encrypts, so for it the check
\* passes even if the source changed under it.
SealedIsSource ==
  sealed # None =>
    /\ ~dirty \/ ~resumed => HashAgrees(enc)
    /\ ~dirty => \A k \in 1..Len(atts) : \A j \in 1..ChunkLen(sealed.csize, k) :
                   enc[DataEnd(sealed.csize, k - 1) + j].ver = sealed.ver

\* "Progress is saved before the callback so a cancellation never loses a
\* completed segment": after a cancellation both files hold every segment.
CancelKeepsSegments ==
  [][Cancel /\ atts # <<>> =>
       /\ prog' # None /\ prog'.job = job /\ prog'.atts = atts
       /\ Covers(enc', job.csize, atts)]_vars

\* A call resumes only over segments that are really in the output file (what
\* guard 4 of _load_progress checks by size alone).
ResumeCovered ==
  pc = "open" /\ resumed => Covers(enc, job.csize, atts)

\* When nothing interrupts it any more, a call returns a container, whatever
\* the interrupted calls before it left on the disk.
EventuallySeals == pc # "idle" /\ faults = MaxFaults ~> sealed # None

\* One segment size only, and a finished segment is always followed by its
\* progress: the setting in which resuming by size alone is sound.
Orderly == "save" \notin FaultKinds /\ \A c, d \in Segments : c = d

\* A call of the promise can be told from none.
ASSUME CallsAssumption == None \notin [src: Sources, key: Keys, from: Versions, resumes: BOOLEAN]

\* encrypt_file implements its promise: what decrypting a returned container
\* gives is the whole source under the key of the call, each unit of a version
\* it had during that call, even where other calls wrote the unit or the source
\* was edited in between; nothing else is ever taken for a result.  It fails to
\* open only where calls differ in segment size or a save failed, or if the call
\* resumed (and so hashed the source in a pass of its own) and the source was
\* edited while it ran.
Promise == INSTANCE SealedFile WITH
  Sound <- Orderly,
  call <- IF pc = "idle" THEN None
          ELSE [src |-> job.src, key |-> job.key, from |-> job.ver, resumes |-> resumed],
  holds <- IF sealed = None THEN None
           ELSE [key |-> sealed.key,
                 text |-> IF Opens(enc, sealed.key) THEN Decrypted(enc) ELSE None]

SealsSource == Promise!Spec

-----------------------------------------------------------------------------
(* The invariants behind OneOrigin and SealedOpens.                        *)

AllMadeBy(j, al) == \A k \in 1..Len(al) : MadeBy(j, al[k])

\* The .progress file on disk is the one of the running call and is up to date.
OwnProgress == prog # None /\ prog.job = job /\ prog.atts = atts

\* Lists of segments are of one origin wherever they are kept.
OriginInv ==
  /\ pc # "idle" => AllMadeBy(job, atts)
  /\ pc = "write" => MadeBy(job, cur)
  /\ prog # None => AllMadeBy(prog.job, prog.atts) /\ prog.atts # <<>>
  /\ pc \in {"chunk", "write", "save", "boundary", "meta"} => Len(enc) > 0
  /\ pc \in {"header", "remove"} =>
       Len(enc) > 1 /\ Footer(enc) = Meta(atts, job.csize, hash)
  /\ pc \in {"idle", "hash", "open", "meta", "header", "remove"} => ~buffered
  /\ buffered \/ pc = "save" => atts # <<>>
  /\ sealed # None =>
       /\ pc = "idle" /\ sealed = job /\ AllMadeBy(job, atts)
       /\ Len(enc) > 1 /\ Footer(enc) = Meta(atts, job.csize, hash)

\* A progress file whose segments fit in the output file describes them, and
\* the output file ends before the tag of the segment after them.
ProgressInv ==
  prog # None =>
    LET c == prog.job.csize
        k == Len(prog.atts)
    IN  /\ DataEnd(c, k) <= Len(enc) => Covers(enc, c, prog.atts)
        /\ More(c, k) => Len(enc) < DataEnd(c, k + 1)

\* What each stage of a call has on disk.
StageInv ==
  LET c == job.csize
      k == Len(atts)
  IN  /\ pc \in {"hash", "open"} =>
           IF resumed THEN OwnProgress /\ DataEnd(c, k) <= Len(enc) ELSE atts = <<>>
      /\ pc \in {"chunk", "write"} =>
           /\ More(c, k)
           /\ IF k = 0 THEN ~buffered ELSE OwnProgress
           /\ IF buffered THEN Len(enc) + 1 = DataEnd(c, k) ELSE DataEnd(c, k) <= Len(enc)
           /\ Covers(Flushed, c, atts)
      /\ pc = "chunk" /\ k = 0 => Len(enc) = 1
      /\ pc = "write" =>
           /\ done <= ChunkLen(c, k + 1)
           /\ done > 0 => ~buffered /\ DataEnd(c, k) + done <= Len(enc)
           /\ k = 0 => Len(enc) = 1 + done
           /\ \A j \in 1..done :
                LET x == enc[DataEnd(c, k) + j]
                IN  x.kind = "ct" /\ x.att = cur /\ x.unit = Read(c, k) + j
      /\ pc \in {"save", "boundary"} =>
           /\ k > 0
           /\ buffered
           /\ Len(enc) + 1 = DataEnd(c, k)
           /\ Covers(Flushed, c, atts)
      /\ pc = "boundary" => OwnProgress
      /\ pc \in {"meta", "header", "remove"} =>
           /\ OwnProgress
           /\ ~More(c, k)
           /\ DataEnd(c, k) <= Len(enc)
           /\ Covers(enc, c, atts)
      /\ pc = "remove" => enc[1] = Header(Len(enc))

SealedInv ==
  sealed # None => /\ enc[1] = Header(Len(enc))
                   /\ Covers(enc, job.csize, atts)

LayoutInv == ProgressInv /\ StageInv /\ SealedInv
=============================================================================
