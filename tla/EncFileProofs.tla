---------------------------- MODULE EncFileProofs ----------------------------
(***************************************************************************)
(* Proofs about EncFile: for every source size, every set of segment       *)
(* sizes, keys, sources and nonces, and every number of faults.            *)
(***************************************************************************)
EXTENDS EncFile, TLAPS

-----------------------------------------------------------------------------
(* Typing.                                                                 *)

\* A write into a file, or at its end, changes the cell written and no other.
LEMMA PutAtFacts ==
  ASSUME NEW e \in Seq(Cell), NEW p \in 1..(Len(e) + 1), NEW x \in Cell
  PROVE  /\ Len(PutAt(e, p, x)) = IF p <= Len(e) THEN Len(e) ELSE Len(e) + 1
         /\ PutAt(e, p, x)[p] = x
         /\ \A q \in 1..Len(e) : q # p => PutAt(e, p, x)[q] = e[q]
<1>1. CASE p <= Len(e)
  BY <1>1 DEF PutAt
<1>2. CASE ~(p <= Len(e))
  BY <1>2 DEF PutAt
<1>3. QED
  BY <1>1, <1>2

\* Wherever it is made, a write keeps the file a sequence of cells, not shorter
\* than it was.
LEMMA PutAtType ==
  ASSUME NEW e \in Seq(Cell), NEW p \in Nat \ {0}, NEW x \in Cell
  PROVE  PutAt(e, p, x) \in Seq(Cell) /\ Len(PutAt(e, p, x)) >= Len(e)
<1>1. CASE p <= Len(e)
  BY <1>1 DEF PutAt
<1>2. CASE ~(p <= Len(e))
  BY <1>2 DEF PutAt
<1>3. QED
  BY <1>1, <1>2

\* The cells the steps write are cells.
LEMMA CellTypes ==
  /\ \A at \in Nat : Header(at) \in Cell
  /\ \A a \in Attempt, u \in Nat, v \in Versions : Ct(a, u, v) \in Cell
  /\ \A a \in Attempt : Tag(a) \in Cell
  /\ \A al \in Seq(Attempt), c \in Segments, h \in Hashes : Meta(al, c, h) \in Cell
BY DEF Cell, Header, Ct, Tag, Meta

\* Layout offsets are natural numbers.
LEMMA LayoutType ==
  ASSUME NEW c \in Segments, NEW k \in Nat
  PROVE  /\ Read(c, k) \in Nat
         /\ DataEnd(c, k) \in Nat \ {0}
BY SizeAssumption, SegmentsAssumption DEF Read, DataEnd, Smaller

\* Flushing the file object leaves a sequence of cells.
LEMMA FlushedType ==
  ASSUME TypeOK, job \in Job, buffered => Len(atts) > 0
  PROVE  Flushed \in Seq(Cell) /\ Len(Flushed) >= Len(enc)
<1>1. CASE ~buffered
  BY <1>1 DEF Flushed, TypeOK
<1>2. CASE buffered
  <2>1. atts[Len(atts)] \in Attempt /\ Len(atts) \in Nat
    BY <1>2 DEF TypeOK
  <2>2. DataEnd(job.csize, Len(atts)) \in Nat \ {0}
    BY <2>1, LayoutType DEF Job
  <2>3. QED
    BY <1>2, <2>1, <2>2, PutAtType, CellTypes DEF Flushed, TypeOK
<1>3. QED
  BY <1>1, <1>2

\* What the steps leave in the list of segments and in the buffer: Flushed is
\* well typed wherever a step uses it.
LEMMA FlushedTyped ==
  ASSUME TypeOK, OriginInv, pc # "idle"
  PROVE  Flushed \in Seq(Cell) /\ Len(Flushed) >= Len(enc)
<1>1. job \in Job
  BY DEF TypeOK
<1>2. buffered => Len(atts) > 0
  BY DEF TypeOK, OriginInv
<1>3. QED
  BY <1>1, <1>2, FlushedType

\* Init establishes typing and origin.
LEMMA InitOrigin == Init => TypeOK /\ OriginInv
<1> SUFFICES ASSUME Init PROVE TypeOK /\ OriginInv
  OBVIOUS
<1>1. <<>> \in Seq(Cell) /\ <<>> \in Seq(Attempt)
  OBVIOUS
<1>2. [u \in Units |-> 0] \in Hashes
  BY MaxVerAssumption DEF Hashes
<1>3. [s \in Sources |-> 1] \in [Sources -> Versions]
  BY MaxVerAssumption DEF Versions
<1>4. TypeOK
  <2>1. resumed \in BOOLEAN /\ buffered \in BOOLEAN /\ dirty \in BOOLEAN
    BY DEF Init
  <2>2. faults \in 0..MaxFaults
    BY FaultsAssumption DEF Init
  <2>3. enc \in Seq(Cell) /\ atts \in Seq(Attempt)
    BY <1>1 DEF Init
  <2>4. ver \in [Sources -> Versions] /\ hash \in Hashes
    BY <1>2, <1>3 DEF Init
  <2>5. pc \in Stages /\ pc = "idle" /\ done \in Nat
    BY DEF Init, Stages
  <2>6. prog = None /\ job = None /\ cur = None /\ sealed = None
    BY DEF Init
  <2>7. QED
    BY <2>1, <2>2, <2>3, <2>4, <2>5, <2>6 DEF TypeOK
<1>5. OriginInv
  BY DEF Init, OriginInv
<1>6. QED
  BY <1>4, <1>5

\* Every kind of start is a Start with the segments of a trusted progress file
\* or with none.
LEMMA StartType ==
  ASSUME TypeOK, OriginInv,
         NEW s \in Sources, NEW c \in Segments, NEW k \in Keys, EncryptFile(s, c, k)
  PROVE  TypeOK' /\ OriginInv'
<1> DEFINE j == [src |-> s, csize |-> c, key |-> k, ver |-> ver[s]]
<1>1. j \in Job
  BY DEF Job, TypeOK
<1>2. PICK al \in Seq(Attempt) :
        /\ Start(j, al)
        /\ al # <<>> => prog # None /\ al = prog.atts /\ MadeBy(j, prog.job)
        /\ prog' \in {prog, None}
        /\ enc' \in {enc, <<>>}
  <2> <<>> \in Seq(Attempt)
    OBVIOUS
  <2>1. CASE StartFresh(j)
    <3>1. Start(j, <<>>) /\ prog' = prog /\ enc' = enc
      BY <2>1 DEF StartFresh
    <3>2. QED
      BY <3>1
  <2>2. CASE StartDiscarding(j)
    <3>1. Start(j, <<>>) /\ prog' \in {prog, None} /\ enc' \in {enc, <<>>}
      BY <2>2 DEF StartDiscarding
    <3>2. QED
      BY <3>1
  <2>3. CASE StartResuming(j)
    <3>1. Start(j, prog.atts) /\ prog' = prog /\ enc' = enc /\ prog # None
      BY <2>3 DEF StartResuming, SameTarget
    <3>2. MadeBy(j, prog.job)
      BY <2>3 DEF StartResuming, SameTarget, Trusted, MadeBy
    <3>3. prog.atts \in Seq(Attempt)
      BY <3>1 DEF TypeOK, Progress
    <3>4. QED
      BY <3>1, <3>2, <3>3
  <2>4. QED
    BY <2>1, <2>2, <2>3 DEF EncryptFile
<1>3. TypeOK'
  <2>1. job' \in Job /\ sealed' = None /\ cur' = None
    BY <1>1, <1>2 DEF Start
  <2>2. resumed' \in BOOLEAN /\ buffered' \in BOOLEAN /\ dirty' \in BOOLEAN
    BY <1>2 DEF TypeOK, Start
  <2>3. hash' \in Hashes /\ done' \in Nat
    BY <1>2, MaxVerAssumption DEF Start, Hashes, TypeOK
  <2>4. pc' \in Stages /\ pc' # "write"
    BY <1>2 DEF Start, Stages
  <2>5. enc' \in Seq(Cell) /\ prog' \in Progress \cup {None} /\ atts' \in Seq(Attempt)
    <3>1. <<>> \in Seq(Cell)
      OBVIOUS
    <3>2. QED
      BY <1>2, <3>1 DEF TypeOK, Start
  <2>6. ver' \in [Sources -> Versions] /\ faults' \in 0..MaxFaults
    BY <1>2 DEF TypeOK, Start
  <2>7. QED
    BY <2>1, <2>2, <2>3, <2>4, <2>5, <2>6 DEF TypeOK
<1>4. OriginInv'
  <2>1. AllMadeBy(j, al)
    <3>1. CASE al = <<>>
      BY <3>1 DEF AllMadeBy
    <3>2. CASE al # <<>>
      <4>1. AllMadeBy(prog.job, al)
        BY <1>2, <3>2 DEF OriginInv
      <4>2. MadeBy(j, prog.job)
        BY <1>2, <3>2
      <4> HIDE DEF j
      <4>3. QED
        BY <4>1, <4>2 DEF AllMadeBy, MadeBy
    <3>3. QED
      BY <3>1, <3>2
  <2>2. QED
    BY <1>2, <2>1 DEF OriginInv, Start, AllMadeBy, MadeBy
<1>5. QED
  BY <1>3, <1>4

\* The steps of a call keep typing and origin.
LEMMA WorkerType ==
  ASSUME TypeOK, OriginInv, Worker
  PROVE  TypeOK' /\ OriginInv'
<1> USE DEF run, chunk, Goto
<1>0. pc # "idle" /\ job \in Job
  BY DEF Worker, CollectMetadata, Open, NewChunk, WriteBuffer, WriteTag, SaveProgress,
         Continue, WriteMetadata, WriteHeader, Return, TypeOK
<1>1. CASE CollectMetadata
  <2>1. hash' \in Hashes
    BY <1>0, <1>1 DEF CollectMetadata, Hashes, Versions, TypeOK, Job
  <2>2. TypeOK'
    BY <1>1, <2>1 DEF CollectMetadata, TypeOK, Stages
  <2>3. OriginInv'
    BY <1>1 DEF CollectMetadata, OriginInv
  <2>4. QED
    BY <2>2, <2>3
<1>2. CASE Open
  <2>1. enc' \in Seq(Cell) /\ Len(enc') > 0
    <3>1. Header(0) \in Cell
      BY CellTypes
    <3>2. <<Header(0)>> \in Seq(Cell) /\ Len(<<Header(0)>>) = 1
      BY <3>1
    <3>3. enc # <<>> => Len(enc) > 0
      BY DEF TypeOK
    <3>4. QED
      BY <1>2, <3>2, <3>3 DEF Open, TypeOK
  <2>2. pc' \in {"chunk", "meta"}
    BY <1>2 DEF Open
  <2>3. TypeOK'
    BY <1>2, <2>1, <2>2 DEF Open, TypeOK, Stages
  <2>4. OriginInv'
    BY <1>2, <2>1, <2>2 DEF Open, OriginInv
  <2>5. QED
    BY <2>3, <2>4
<1>3. CASE NewChunk
  <2>1. (CHOOSE i \in Fresh : TRUE) \in Ids
    BY <1>3 DEF NewChunk, Fresh
  <2>2. cur' \in Attempt
    BY <1>0, <1>3, <2>1 DEF NewChunk, Attempt, Job
  <2>3. TypeOK'
    BY <1>3, <2>2 DEF NewChunk, TypeOK, Stages
  <2>4. OriginInv'
    BY <1>3 DEF NewChunk, OriginInv, MadeBy
  <2>5. QED
    BY <2>3, <2>4
<1>4. CASE WriteBuffer
  <2> DEFINE u == Read(job.csize, Len(atts)) + done + 1
             p == DataEnd(job.csize, Len(atts)) + done + 1
  <2>1. cur \in Attempt /\ ver[job.src] \in Versions
    BY <1>0, <1>4 DEF WriteBuffer, TypeOK, Job
  <2>2. u \in Nat /\ p \in Nat \ {0} /\ done \in Nat
    <3>1. Len(atts) \in Nat /\ done \in Nat /\ job.csize \in Segments
      BY <1>0 DEF TypeOK, Job
    <3>2. Read(job.csize, Len(atts)) \in Nat /\ DataEnd(job.csize, Len(atts)) \in Nat \ {0}
      BY <3>1, LayoutType
    <3>3. QED
      BY <3>1, <3>2
  <2>3. enc' = PutAt(Flushed, p, Ct(cur, u, ver[job.src]))
    BY <1>4 DEF WriteBuffer
  <2>4. enc' \in Seq(Cell) /\ Len(enc') >= Len(enc)
    <3> HIDE DEF u, p
    <3>1. Flushed \in Seq(Cell) /\ Len(Flushed) >= Len(enc)
      BY <1>0, FlushedTyped
    <3>2. Ct(cur, u, ver[job.src]) \in Cell
      BY <2>1, <2>2, CellTypes
    <3>3. enc' \in Seq(Cell) /\ Len(enc') >= Len(Flushed)
      BY <2>2, <2>3, <3>1, <3>2, PutAtType
    <3>4. Len(enc') \in Nat /\ Len(Flushed) \in Nat /\ Len(enc) \in Nat
      BY <3>1, <3>3 DEF TypeOK
    <3>5. QED
      BY <3>1, <3>3, <3>4
  <2>5. hash' \in Hashes
    <3> HIDE DEF u, p
    <3>1. hash' = hash \/ hash' = [hash EXCEPT ![u] = ver[job.src]]
      BY <1>4 DEF WriteBuffer, u
    <3>2. hash \in Hashes /\ ver[job.src] \in 0..MaxVer
      BY <2>1, MaxVerAssumption DEF TypeOK, Versions
    <3>3. QED
      BY <3>1, <3>2 DEF Hashes
  <2>6. TypeOK'
    <3>1. done' = done + 1 /\ buffered' = FALSE /\ pc' = pc
      BY <1>4 DEF WriteBuffer
    <3>2. done' \in Nat
      BY <2>2, <3>1
    <3>3. buffered' \in BOOLEAN
      BY <3>1
    <3>4. QED
      BY <1>4, <2>1, <2>4, <2>5, <3>1, <3>2, <3>3 DEF WriteBuffer, TypeOK
  <2>7. OriginInv'
    BY <1>4, <2>4 DEF WriteBuffer, OriginInv, TypeOK
  <2>8. QED
    BY <2>6, <2>7
<1>5. CASE WriteTag
  <2>1. enc' \in Seq(Cell) /\ Len(enc') >= Len(enc)
    BY <1>0, <1>5, FlushedTyped DEF WriteTag
  <2>2. cur \in Attempt /\ atts' = Append(atts, cur) /\ atts' \in Seq(Attempt) /\ atts' # <<>>
    BY <1>5 DEF WriteTag, TypeOK
  <2>3. TypeOK'
    BY <1>5, <2>1, <2>2 DEF WriteTag, TypeOK, Stages
  <2>4. AllMadeBy(job, atts')
    <3>1. AllMadeBy(job, atts) /\ MadeBy(job, cur) /\ atts \in Seq(Attempt)
      BY <1>0, <1>5 DEF WriteTag, OriginInv, TypeOK
    <3>2. QED
      BY <2>2, <3>1 DEF AllMadeBy
  <2>5. OriginInv'
    <3>1. Len(enc') > 0
      BY <1>5, <2>1 DEF WriteTag, OriginInv, TypeOK
    <3>2. QED
      BY <1>5, <2>2, <2>4, <3>1 DEF WriteTag, OriginInv
  <2>6. QED
    BY <2>3, <2>5
<1>6. CASE SaveProgress
  <2>1. prog' \in Progress /\ prog'.job = job /\ prog'.atts = atts
    BY <1>0, <1>6 DEF SaveProgress, Progress, Job, TypeOK
  <2>2. TypeOK'
    BY <1>6, <2>1 DEF SaveProgress, TypeOK, Stages
  <2>3. AllMadeBy(prog'.job, prog'.atts) /\ prog'.atts # <<>>
    BY <1>6, <2>1 DEF SaveProgress, OriginInv
  <2>4. OriginInv'
    BY <1>6, <2>3 DEF SaveProgress, OriginInv
  <2>5. QED
    BY <2>2, <2>4
<1>7. CASE Continue
  <2>1. enc' \in Seq(Cell) /\ buffered' \in BOOLEAN /\ Len(enc') > 0
    <3>1. Flushed \in Seq(Cell) /\ Len(Flushed) > 0 /\ Len(enc) > 0
      BY <1>0, <1>7, FlushedTyped DEF Continue, OriginInv, TypeOK
    <3>2. QED
      BY <1>7, <3>1 DEF Continue, TypeOK
  <2>2. pc' \in {"chunk", "meta"} /\ (pc' = "meta" => ~buffered') /\ (buffered' => buffered)
    BY <1>7 DEF Continue
  <2>3. TypeOK'
    BY <1>7, <2>1, <2>2 DEF Continue, TypeOK, Stages
  <2>4. OriginInv'
    BY <1>7, <2>1, <2>2 DEF Continue, OriginInv
  <2>5. QED
    BY <2>3, <2>4
<1>8. CASE WriteMetadata
  <2>1. enc' = Append(enc, Meta(atts, job.csize, hash)) /\ enc' \in Seq(Cell)
    BY <1>0, <1>8, CellTypes DEF WriteMetadata, TypeOK, Job
  <2>2. Len(enc') > 1 /\ Footer(enc') = Meta(atts, job.csize, hash)
    <3>1. Len(enc) > 0 /\ enc \in Seq(Cell)
      BY <1>8 DEF WriteMetadata, OriginInv, TypeOK
    <3>2. QED
      BY <2>1, <3>1 DEF Footer
  <2>3. TypeOK'
    BY <1>8, <2>1 DEF WriteMetadata, TypeOK, Stages
  <2>4. OriginInv'
    BY <1>8, <2>2 DEF WriteMetadata, OriginInv
  <2>5. QED
    BY <2>3, <2>4
<1>9. CASE WriteHeader
  <2>1. enc \in Seq(Cell) /\ Len(enc) > 1 /\ Footer(enc) = Meta(atts, job.csize, hash)
    BY <1>9 DEF WriteHeader, OriginInv, TypeOK
  <2>2. enc' = PutAt(enc, 1, Header(Len(enc))) /\ Header(Len(enc)) \in Cell
    BY <1>9, CellTypes DEF WriteHeader, TypeOK
  <2>3. enc' \in Seq(Cell) /\ Len(enc') = Len(enc) /\ Footer(enc') = Footer(enc)
    <3> DEFINE x == Header(Len(enc))
               n == Len(enc)
    <3>1. n \in Nat /\ n > 1
      BY <2>1
    <3>2. 1 \in 1..(n + 1) /\ n \in 1..n /\ n # 1
      <4> HIDE DEF n
      <4>1. QED
        BY <3>1
    <3>3. Len(PutAt(enc, 1, x)) = n /\ PutAt(enc, 1, x)[n] = enc[n]
      BY <2>1, <2>2, <3>1, <3>2, PutAtFacts
    <3>4. PutAt(enc, 1, x) \in Seq(Cell)
      BY <2>1, <2>2, PutAtType
    <3>5. QED
      BY <2>2, <3>3, <3>4 DEF Footer
  <2>4. TypeOK'
    BY <1>9, <2>3 DEF WriteHeader, TypeOK, Stages
  <2>5. OriginInv'
    BY <1>9, <2>1, <2>3 DEF WriteHeader, OriginInv
  <2>6. QED
    BY <2>4, <2>5
<1>10. CASE Return
  <2>1. TypeOK'
    BY <1>0, <1>10 DEF Return, TypeOK, Stages
  <2>2. OriginInv'
    BY <1>10 DEF Return, OriginInv
  <2>3. QED
    BY <2>1, <2>2
<1>11. QED
  BY <1>1, <1>2, <1>3, <1>4, <1>5, <1>6, <1>7, <1>8, <1>9, <1>10 DEF Worker

\* Exceptions and a killed process keep typing and origin.
LEMMA FaultyType ==
  ASSUME TypeOK, OriginInv, Faulty
  PROVE  TypeOK' /\ OriginInv'
<1> USE DEF run, chunk, Fault
<1>1. /\ pc # "idle" /\ pc' = "idle" /\ buffered' = FALSE
      /\ enc' \in {enc, Flushed}
      /\ faults < MaxFaults /\ faults' = faults + 1
      /\ UNCHANGED <<prog, ver, run, atts, chunk, hash, sealed, dirty>>
  BY DEF Faulty, Cancel, ReadFails, SaveFails, RemoveFails, Kill, Unwind
<1>2. enc' \in Seq(Cell)
  BY <1>1, FlushedTyped DEF TypeOK
<1>3. faults' \in 0..MaxFaults /\ buffered' \in BOOLEAN
  <2>1. faults \in Nat /\ faults' \in Nat /\ faults' <= MaxFaults
    BY <1>1, FaultsAssumption DEF TypeOK
  <2>2. faults' \in 0..MaxFaults
    BY <2>1
  <2>3. buffered' \in BOOLEAN
    BY <1>1
  <2>4. QED
    BY <2>2, <2>3
<1>4. TypeOK'
  BY <1>1, <1>2, <1>3 DEF TypeOK, Stages
<1>5. OriginInv'
  BY <1>1 DEF OriginInv
<1>6. QED
  BY <1>4, <1>5

\* An edit of a source changes neither file.
LEMMA EditType ==
  ASSUME TypeOK, OriginInv, NEW s \in Sources, EditSource(s)
  PROVE  TypeOK' /\ OriginInv'
<1> USE DEF run, chunk
<1>1. ver' \in [Sources -> Versions] /\ dirty' \in BOOLEAN
  BY MaxVerAssumption DEF EditSource, TypeOK, Versions
<1>2. TypeOK'
  BY <1>1 DEF EditSource, TypeOK
<1>3. OriginInv'
  BY DEF EditSource, OriginInv
<1>4. QED
  BY <1>2, <1>3

\* Typing and origin are inductive.
LEMMA NextType == TypeOK /\ OriginInv /\ [Next]_vars => TypeOK' /\ OriginInv'
<1> SUFFICES ASSUME TypeOK, OriginInv, [Next]_vars
             PROVE  TypeOK' /\ OriginInv'
  OBVIOUS
<1>1. CASE Worker
  BY <1>1, WorkerType
<1>2. CASE Faulty
  BY <1>2, FaultyType
<1>3. CASE User
  BY <1>3, StartType, EditType DEF User
<1>4. CASE UNCHANGED vars
  BY <1>4 DEF vars, TypeOK, OriginInv
<1>5. QED
  BY <1>1, <1>2, <1>3, <1>4 DEF Next

\* encrypt_file's state stays well typed.
THEOREM TypeCorrect == Spec => []TypeOK
<1>1. Spec => [](TypeOK /\ OriginInv)
  BY InitOrigin, NextType, PTL DEF Spec
<1>2. QED
  BY <1>1, PTL

\* Guards 1 and 2 of _load_progress do what they are for: whatever calls were
\* cancelled, failed or killed before, with whatever keys, sources, versions and
\* segment sizes, a returned container lists segments of one origin.
THEOREM OriginCorrect == Spec => []OneOrigin
<1>1. TypeOK /\ OriginInv => OneOrigin
  BY DEF OriginInv, OneOrigin, AllMadeBy, Footer, Meta
<1>2. Spec => [](TypeOK /\ OriginInv)
  BY InitOrigin, NextType, PTL DEF Spec
<1>3. QED
  BY <1>1, <1>2, PTL
=============================================================================
