--------------------------- MODULE EncLayoutProofs ---------------------------
(***************************************************************************)
(* Resuming by size alone is sound when all calls use one segment size and *)
(* a finished segment is never left without its progress (Orderly): every  *)
(* container encrypt_file returns opens under the key it was given, and    *)
(* holds the version of the source that the call took if nothing changed   *)
(* it meanwhile.  With any segment sizes and faults, EncFile implements    *)
(* SealedFile, which is Sound in that setting.                             *)
(***************************************************************************)
EXTENDS EncFileProofs

-----------------------------------------------------------------------------
(* Layout.                                                                 *)

\* Segments lie one after the other, in order, within the source.
LEMMA LayoutOrder ==
  ASSUME NEW c \in Segments, NEW i \in Nat, NEW k \in Nat, i <= k
  PROVE  /\ Read(c, i) <= Read(c, k)
         /\ DataEnd(c, i) <= DataEnd(c, k)
         /\ i < k => DataEnd(c, i) < DataEnd(c, k)
<1>1. c \in Nat /\ i * c \in Nat /\ k * c \in Nat /\ Size \in Nat
  BY SegmentsAssumption, SizeAssumption
<1>2. i * c <= k * c
  <2>1. k * c = i * c + (k - i) * c
    BY <1>1
  <2>2. (k - i) * c >= 0
    BY <1>1
  <2>3. QED
    BY <1>1, <2>1, <2>2
<1>3. Read(c, i) \in Nat /\ Read(c, k) \in Nat /\ Read(c, i) <= Read(c, k)
  BY <1>1, <1>2 DEF Read, Smaller
<1>4. QED
  BY <1>3 DEF DataEnd

\* A segment and its tag end where the next one starts.
LEMMA LayoutStep ==
  ASSUME NEW c \in Segments, NEW k \in Nat
  PROVE  /\ ChunkLen(c, k + 1) \in Nat
         /\ DataEnd(c, k + 1) = DataEnd(c, k) + ChunkLen(c, k + 1) + 1
         /\ Read(c, k) \in Nat
         /\ DataEnd(c, k) \in Nat
         /\ DataEnd(c, k) >= 1
         /\ DataEnd(c, k + 1) \in Nat
<1>1. Read(c, k) \in Nat /\ Read(c, k + 1) \in Nat
  BY LayoutType
<1>2. Read(c, k) <= Read(c, k + 1)
  BY LayoutOrder
<1>3. QED
  BY <1>1, <1>2 DEF ChunkLen, DataEnd

\* No segment: just the header.
LEMMA LayoutStart ==
  ASSUME NEW c \in Segments
  PROVE  DataEnd(c, 0) = 1
BY SegmentsAssumption, SizeAssumption DEF DataEnd, Read, Smaller

\* A file that agrees with another one on the segments and is long enough
\* covers them too.
LEMMA CoversSame ==
  ASSUME NEW c \in Segments, NEW al \in Seq(Attempt),
         NEW e \in Seq(Cell), NEW f \in Seq(Cell), Covers(e, c, al),
         DataEnd(c, Len(al)) <= Len(f),
         \A q \in 2..DataEnd(c, Len(al)) : f[q] = e[q]
  PROVE  Covers(f, c, al)
<1> SUFFICES ASSUME NEW k \in 1..Len(al) PROVE ChunkAt(f, c, k, al[k])
  BY DEF Covers
<1>1. ChunkAt(e, c, k, al[k])
  BY DEF Covers
<1> DEFINE n == Len(al)
           m == k - 1
           from == DataEnd(c, m)
           len == ChunkLen(c, k)
           to == DataEnd(c, k)
           end == DataEnd(c, n)
<1>2. n \in Nat
  BY al \in Seq(Attempt)
<1>3. k \in Nat /\ m \in Nat /\ k = m + 1 /\ k <= n
  <2> k \in 1..n
    OBVIOUS
  <2> HIDE DEF n
  <2> QED
    BY <1>2
<1>4. to = from + len + 1 /\ len \in Nat /\ from \in Nat /\ from >= 1 /\ to \in Nat
  <2> HIDE DEF m
  <2> QED
    BY <1>3, LayoutStep DEF from, len, to
<1>5. to <= end /\ end \in Nat
  <2> HIDE DEF n
  <2> QED
    BY <1>2, <1>3, LayoutOrder, LayoutType DEF to, end
<1>6. Len(f) \in Nat /\ end <= Len(f)
  BY f \in Seq(Cell)
<1> HIDE DEF n, m, from, len, to, end
<1>7. to \in 2..end
  BY <1>4, <1>5
<1>8. \A j \in 1..len : from + j \in 2..end
  BY <1>4, <1>5
<1>9. to <= Len(f)
  BY <1>4, <1>5, <1>6
<1>10. \A q \in 2..end : f[q] = e[q]
  BY DEF end, n
<1>11. QED
  BY <1>1, <1>7, <1>8, <1>9, <1>10 DEF ChunkAt, from, len, to, m

\* One more segment.
LEMMA CoversGrows ==
  ASSUME NEW c \in Segments, NEW al \in Seq(Attempt), NEW a \in Attempt,
         NEW e \in Seq(Cell), Covers(e, c, al), ChunkAt(e, c, Len(al) + 1, a)
  PROVE  Covers(e, c, Append(al, a))
<1> DEFINE bs == Append(al, a)
           n == Len(al)
<1>1. /\ n \in Nat
      /\ Len(bs) = n + 1
      /\ bs[n + 1] = a
      /\ \A k \in 1..n : bs[k] = al[k]
  BY al \in Seq(Attempt), a \in Attempt
<1>2. \A k \in 1..n : ChunkAt(e, c, k, al[k])
  BY DEF Covers
<1>3. ChunkAt(e, c, n + 1, a)
  OBVIOUS
<1> HIDE DEF bs, n
<1>4. \A k \in 1..Len(bs) : k \in 1..n \/ k = n + 1
  BY <1>1
<1>5. \A k \in 1..Len(bs) : ChunkAt(e, c, k, bs[k])
  BY <1>1, <1>2, <1>3, <1>4
<1>6. QED
  BY <1>5 DEF Covers, bs

\* No segment at all.
LEMMA CoversNone ==
  ASSUME NEW c, NEW e, NEW al, al = <<>>
  PROVE  Covers(e, c, al)
BY DEF Covers

-----------------------------------------------------------------------------
(* The stages of a call.                                                   *)

IInv == TypeOK /\ OriginInv /\ LayoutInv

\* A progress file always records a segment.
LEMMA ProgressFacts ==
  ASSUME TypeOK, OriginInv, prog # None
  PROVE  /\ prog.job.csize \in Segments
         /\ prog.atts \in Seq(Attempt)
         /\ Len(prog.atts) \in Nat
         /\ Len(prog.atts) >= 1
         /\ Len(enc) \in Nat
<1>1. prog \in Progress /\ prog.atts # <<>>
  BY DEF TypeOK, OriginInv
<1>2. prog.job.csize \in Segments /\ prog.atts \in Seq(Attempt)
  BY <1>1 DEF Progress, Job
<1>3. QED
  BY <1>1, <1>2 DEF TypeOK

\* What a file shorter than one segment with its tag says about a progress
\* file: that its segments are not there.
LEMMA ShortFile ==
  ASSUME TypeOK, OriginInv, prog # None, NEW e \in Seq(Cell),
         Len(e) < DataEnd(prog.job.csize, 1)
  PROVE  /\ ~(DataEnd(prog.job.csize, Len(prog.atts)) <= Len(e))
         /\ Len(e) < DataEnd(prog.job.csize, Len(prog.atts) + 1)
<1> DEFINE c == prog.job.csize
           n == Len(prog.atts)
<1>1. c \in Segments /\ n \in Nat /\ n >= 1
  BY ProgressFacts
<1> HIDE DEF c, n
<1>2. /\ DataEnd(c, 1) <= DataEnd(c, n) /\ DataEnd(c, n) <= DataEnd(c, n + 1)
      /\ DataEnd(c, 1) \in Nat /\ DataEnd(c, n) \in Nat /\ DataEnd(c, n + 1) \in Nat
  <2>1. n + 1 \in Nat /\ 1 \in Nat /\ n <= n + 1 /\ 1 <= n
    BY <1>1
  <2>2. QED
    BY <1>1, <2>1, LayoutOrder, LayoutType
<1>3. Len(e) \in Nat /\ Len(e) < DataEnd(c, 1)
  BY DEF c
<1>4. QED
  BY <1>2, <1>3 DEF c, n

\* A fresh start, a refused resume and an accepted one.
LEMMA StartLayout ==
  ASSUME IInv, NEW s \in Sources, NEW c \in Segments, NEW k \in Keys, EncryptFile(s, c, k)
  PROVE  LayoutInv'
<1> DEFINE j == [src |-> s, csize |-> c, key |-> k, ver |-> ver[s]]
<1>1. j \in Job /\ j.csize = c /\ TypeOK /\ OriginInv /\ ProgressInv
  BY DEF Job, TypeOK, IInv, LayoutInv
<1>2. PICK al \in Seq(Attempt) :
        /\ Start(j, al)
        /\ prog' \in {prog, None}
        /\ enc' \in {enc, <<>>}
        /\ al # <<>> => /\ prog' # None /\ prog'.atts = al /\ prog'.job = j
                        /\ DataEnd(c, Len(al)) <= Len(enc')
  <2> <<>> \in Seq(Attempt)
    OBVIOUS
  <2>1. CASE StartFresh(j)
    <3>1. Start(j, <<>>) /\ prog' = prog /\ enc' = enc
      BY <2>1 DEF StartFresh
    <3>2. QED
      BY <3>1
  <2>2. CASE StartDiscarding(j)
    <3>1. Start(j, <<>>) /\ prog' \in {prog, None} /\ enc' \in {enc, <<>>}
      BY <2>2 DEF StartDiscarding
    <3>2. QED
      BY <3>1
  <2>3. CASE StartResuming(j)
    <3>1. Start(j, prog.atts) /\ prog' = prog /\ enc' = enc /\ prog # None
      BY <2>3 DEF StartResuming, SameTarget
    <3>2. prog.job.csize = c /\ prog.job.src = s /\ prog.job.ver = ver[s] /\ prog.job.key = k
      BY <2>3 DEF StartResuming, SameTarget, Trusted
    <3>3. DataEnd(c, Len(prog.atts)) <= Len(enc)
      BY <2>3 DEF StartResuming, Trusted
    <3>4. prog.job \in Job /\ prog.atts \in Seq(Attempt)
      BY <3>1, <1>1 DEF TypeOK, Progress
    <3>5. prog.job = j
      BY <3>2, <3>4 DEF Job
    <3>6. QED
      BY <3>1, <3>3, <3>4, <3>5
  <2>4. QED
    BY <2>1, <2>2, <2>3 DEF EncryptFile
<1> HIDE DEF j
<1>3. ProgressInv'
  <2>1. CASE prog' = None
    BY <2>1 DEF ProgressInv
  <2>2. CASE prog' # None /\ enc' = enc
    BY <1>1, <1>2, <2>2 DEF ProgressInv
  <2>3. CASE prog' # None /\ enc' = <<>>
    <3>1. prog' = prog /\ prog # None /\ <<>> \in Seq(Cell) /\ Len(<<>>) = 0
      BY <1>2, <2>3
    <3>2. prog.job.csize \in Segments
      BY <1>1, <3>1, ProgressFacts
    <3>3. Len(<<>>) < DataEnd(prog.job.csize, 1)
      <4>1. 1 \in Nat /\ DataEnd(prog.job.csize, 1) \in Nat \ {0}
        BY <3>2, LayoutType
      <4>2. QED
        BY <3>1, <4>1
    <3>4. QED
      BY <1>1, <2>3, <3>1, <3>3, ShortFile DEF ProgressInv
  <2>4. QED
    BY <1>2, <2>1, <2>2, <2>3
<1>4. /\ pc' = IF al # <<>> THEN "hash" ELSE "open"
      /\ (resumed' <=> al # <<>>) /\ atts' = al /\ job' = j /\ sealed' = None
  BY <1>2 DEF Start
<1>5. StageInv'
  BY <1>1, <1>2, <1>4 DEF StageInv, OwnProgress
<1>6. SealedInv'
  BY <1>4 DEF SealedInv
<1>7. QED
  BY <1>3, <1>5, <1>6 DEF LayoutInv

\* While a segment is being written, the file ends before the segment's tag,
\* and flushing it leaves every finished segment in place.
LEMMA WritingFacts ==
  ASSUME IInv, Orderly, pc \in {"chunk", "write"},
         NEW c, c = job.csize, NEW n, n = Len(atts)
  PROVE  /\ c \in Segments /\ n \in Nat /\ done \in Nat
         /\ Flushed \in Seq(Cell)
         /\ Covers(Flushed, c, atts)
         /\ DataEnd(c, n) <= Len(Flushed)
         /\ Len(Flushed) < DataEnd(c, n + 1)
         /\ buffered => Len(Flushed) = DataEnd(c, n)
         /\ ~buffered => Flushed = enc
         /\ n > 0 => OwnProgress
         /\ n = 0 => Flushed = enc
<1>1. c \in Segments /\ n \in Nat /\ done \in Nat /\ enc \in Seq(Cell) /\ Len(enc) \in Nat
  BY DEF IInv, TypeOK, Job
<1>2. /\ Covers(Flushed, c, atts)
      /\ IF n = 0 THEN ~buffered ELSE OwnProgress
      /\ IF buffered THEN Len(enc) + 1 = DataEnd(c, n) ELSE DataEnd(c, n) <= Len(enc)
      /\ More(c, n)
  BY DEF IInv, LayoutInv, StageInv
<1>3. Flushed \in Seq(Cell)
  BY FlushedTyped DEF IInv
<1>4. /\ DataEnd(c, n) \in Nat /\ DataEnd(c, n + 1) \in Nat /\ DataEnd(c, n) < DataEnd(c, n + 1)
      /\ DataEnd(c, n) >= 1
  <2>1. n + 1 \in Nat /\ n < n + 1 /\ n <= n + 1
    BY <1>1
  <2>2. QED
    BY <1>1, <2>1, LayoutOrder, LayoutStep
<1>5. ~buffered => Flushed = enc
  BY DEF Flushed
<1>6. buffered => Len(Flushed) = DataEnd(c, n)
  <2> SUFFICES ASSUME buffered PROVE Len(Flushed) = DataEnd(c, n)
    OBVIOUS
  <2>1. n > 0 /\ atts[n] \in Attempt
    BY <1>1, <1>2 DEF IInv, TypeOK
  <2>2. Tag(atts[n]) \in Cell
    BY <2>1, CellTypes
  <2>3. DataEnd(c, n) \in 1..(Len(enc) + 1) /\ ~(DataEnd(c, n) <= Len(enc))
    BY <1>1, <1>2, <1>4
  <2>4. Flushed = PutAt(enc, DataEnd(c, n), Tag(atts[n]))
    BY DEF Flushed
  <2>5. QED
    BY <1>1, <1>2, <2>2, <2>3, <2>4, PutAtFacts
<1>7. ~buffered => Len(enc) < DataEnd(c, n + 1)
  <2> SUFFICES ASSUME ~buffered PROVE Len(enc) < DataEnd(c, n + 1)
    OBVIOUS
  <2>1. CASE n = 0
    <3>1. pc = "chunk" => Len(enc) = 1
      BY <2>1 DEF IInv, LayoutInv, StageInv
    <3>2. pc = "write" => Len(enc) = 1 + done /\ done <= ChunkLen(c, n + 1)
      BY <2>1 DEF IInv, LayoutInv, StageInv
    <3>3. DataEnd(c, n) = 1 /\ DataEnd(c, n + 1) = DataEnd(c, n) + ChunkLen(c, n + 1) + 1
      BY <1>1, <2>1, LayoutStart, LayoutStep
    <3>4. ChunkLen(c, n + 1) \in Nat /\ 1 <= 1 + ChunkLen(c, n + 1)
      <4>1. ChunkLen(c, n + 1) \in Nat
        BY <1>1, LayoutStep
      <4>2. QED
        BY <4>1
    <3>5. Len(enc) <= 1 + ChunkLen(c, n + 1)
      <4>1. CASE pc = "chunk"
        BY <3>1, <3>4, <4>1
      <4>2. CASE pc = "write"
        BY <1>1, <3>2, <3>4, <4>2
      <4>3. QED
        BY <4>1, <4>2
    <3>6. DataEnd(c, n + 1) = 1 + ChunkLen(c, n + 1) + 1
      BY <3>3
    <3>7. QED
      BY <1>1, <3>4, <3>5, <3>6
  <2>2. CASE n # 0
    <3>1. prog # None /\ prog.job.csize = c /\ prog.atts = atts
      BY <1>2, <2>2 DEF OwnProgress
    <3>2. QED
      BY <1>2, <3>1 DEF IInv, LayoutInv, ProgressInv
  <2>3. QED
    BY <2>1, <2>2
<1>8. QED
  BY <1>1, <1>2, <1>3, <1>4, <1>5, <1>6, <1>7

\* Opening the output keeps a resumed prefix and truncates everything else.
LEMMA OpenLayout ==
  ASSUME IInv, Orderly, Open
  PROVE  LayoutInv'
<1> DEFINE c == job.csize
           n == Len(atts)
<1>1. /\ c \in Segments /\ n \in Nat /\ enc \in Seq(Cell) /\ Len(enc) \in Nat
      /\ pc = "open" /\ TypeOK /\ OriginInv /\ atts \in Seq(Attempt)
  BY DEF IInv, TypeOK, Job, Open, Goto
<1>2. /\ pc' = IF More(c, n) THEN "chunk" ELSE "meta"
      /\ enc' = IF resumed /\ enc # <<>> THEN enc ELSE <<Header(0)>>
      /\ UNCHANGED <<prog, atts, job, done, buffered, sealed>>
  BY DEF Open, Goto, run, chunk
<1>3. ~buffered /\ sealed = None
  BY <1>1 DEF OriginInv
<1>4. Flushed' = enc'
  BY <1>2, <1>3 DEF Flushed
<1>5. IF resumed THEN OwnProgress /\ DataEnd(c, n) <= Len(enc) ELSE atts = <<>>
  BY <1>1 DEF IInv, LayoutInv, StageInv
<1>6. SealedInv'
  BY <1>2, <1>3 DEF SealedInv
<1>7. CASE resumed
  <2>1. OwnProgress /\ DataEnd(c, n) <= Len(enc) /\ DataEnd(c, n) \in Nat \ {0}
    BY <1>1, <1>5, <1>7, LayoutType
  <2>2. enc' = enc
    BY <1>1, <1>2, <1>7, <2>1
  <2>3. Covers(enc, c, atts) /\ n # 0
    BY <1>1, <2>1 DEF IInv, LayoutInv, ProgressInv, OwnProgress, OriginInv
  <2>4. ProgressInv'
    BY <1>2, <2>2 DEF IInv, LayoutInv, ProgressInv
  <2>5. OwnProgress'
    BY <1>2, <2>1 DEF OwnProgress
  <2> HIDE DEF c, n
  <2>6. StageInv'
    BY <1>2, <1>3, <1>4, <2>1, <2>2, <2>3, <2>5 DEF StageInv, c, n
  <2>7. QED
    BY <1>6, <2>4, <2>6 DEF LayoutInv
<1>8. CASE ~resumed
  <2>1. n = 0 /\ atts = <<>> /\ More(c, n) /\ pc' = "chunk"
    BY <1>2, <1>5, <1>8 DEF More
  <2>2. enc' = <<Header(0)>> /\ enc' \in Seq(Cell) /\ Len(enc') = 1
    BY <1>2, <1>8, CellTypes
  <2>3. DataEnd(c, 0) = 1 /\ DataEnd(c, 1) > 1
    <3>1. 0 \in Nat /\ 1 \in Nat /\ 0 < 1 /\ 0 <= 1
      OBVIOUS
    <3>2. DataEnd(c, 0) < DataEnd(c, 1)
      BY <1>1, <3>1, LayoutOrder
    <3>3. QED
      BY <1>1, <3>2, LayoutStart
  <2>4. ProgressInv'
    <3>1. CASE prog = None
      BY <1>2, <3>1 DEF ProgressInv
    <3>2. CASE prog # None
      <4>1. prog.job.csize = c
        BY <1>1, <3>2, ProgressFacts DEF Orderly
      <4>2. Len(enc') < DataEnd(prog.job.csize, 1)
        BY <2>2, <2>3, <4>1
      <4>3. QED
        BY <1>1, <1>2, <2>2, <3>2, <4>2, ShortFile DEF ProgressInv
    <3>3. QED
      BY <3>1, <3>2
  <2>5. Covers(Flushed', c, atts')
    BY <1>2, <2>1, CoversNone
  <2> HIDE DEF c, n
  <2>6. StageInv'
    BY <1>2, <1>3, <2>1, <2>2, <2>3, <2>5 DEF StageInv, c, n
  <2>7. QED
    BY <1>6, <2>4, <2>6 DEF LayoutInv
<1>9. QED
  BY <1>7, <1>8

\* The steps that write nothing to the output file: the hash pass and a nonce.
LEMMA QuietLayout ==
  ASSUME IInv, Orderly, CollectMetadata \/ NewChunk
  PROVE  LayoutInv'
<1>1. UNCHANGED <<enc, prog, job, atts, buffered, sealed, resumed>>
  BY DEF CollectMetadata, NewChunk, run
<1>2. ProgressInv' /\ SealedInv' /\ Flushed' = Flushed
  BY <1>1 DEF IInv, LayoutInv, ProgressInv, SealedInv, Flushed
<1>3. CASE CollectMetadata
  <2>1. pc = "hash" /\ pc' = "open"
    BY <1>3 DEF CollectMetadata, Goto
  <2>2. StageInv'
    BY <1>1, <2>1 DEF IInv, LayoutInv, StageInv, OwnProgress
  <2>3. QED
    BY <1>2, <2>2 DEF LayoutInv
<1>4. CASE NewChunk
  <2>1. pc = "chunk" /\ pc' = "write" /\ done' = 0
    BY <1>4 DEF NewChunk, Goto
  <2>2. job.csize \in Segments /\ Len(atts) \in Nat
    BY <2>1 DEF IInv, TypeOK, Job
  <2>3. 0 <= ChunkLen(job.csize, Len(atts) + 1)
    BY <2>2, LayoutStep
  <2>4. OwnProgress' <=> OwnProgress
    BY <1>1 DEF OwnProgress
  <2>5. StageInv'
    BY <1>1, <1>2, <2>1, <2>3, <2>4 DEF IInv, LayoutInv, StageInv
  <2>6. QED
    BY <1>2, <2>5 DEF LayoutInv
<1>5. QED
  BY <1>3, <1>4

\* One more buffer of ciphertext goes after the finished segments and before
\* the place of the segment's tag.
LEMMA WriteBufferLayout ==
  ASSUME IInv, Orderly, WriteBuffer
  PROVE  LayoutInv'
<1> DEFINE c == job.csize
           n == Len(atts)
           from == DataEnd(c, n)
           u == Read(c, n) + done + 1
           p == from + done + 1
           x == Ct(cur, u, ver[job.src])
           F == Flushed
<1>1. /\ pc = "write" /\ pc' = "write" /\ done < ChunkLen(c, n + 1) /\ done' = done + 1
      /\ enc' = PutAt(F, p, x) /\ buffered' = FALSE
      /\ UNCHANGED <<prog, job, atts, cur, sealed, resumed>>
  BY DEF WriteBuffer, run
<1>2. /\ c \in Segments /\ n \in Nat /\ done \in Nat
      /\ F \in Seq(Cell)
      /\ Covers(F, c, atts)
      /\ from <= Len(F)
      /\ Len(F) < DataEnd(c, n + 1)
      /\ ~buffered => F = enc
      /\ n > 0 => OwnProgress
      /\ n = 0 => F = enc
  BY <1>1, WritingFacts
<1>3. /\ from \in Nat /\ from >= 1 /\ DataEnd(c, n + 1) = from + ChunkLen(c, n + 1) + 1
      /\ ChunkLen(c, n + 1) \in Nat /\ Read(c, n) \in Nat
  BY <1>2, LayoutStep
<1>4. /\ done > 0 => ~buffered /\ from + done <= Len(enc)
      /\ n = 0 => Len(enc) = 1 + done
      /\ More(c, n)
      /\ \A j \in 1..done : /\ enc[from + j].kind = "ct"
                            /\ enc[from + j].att = cur
                            /\ enc[from + j].unit = Read(c, n) + j
  BY <1>1 DEF IInv, LayoutInv, StageInv
<1>5. cur \in Attempt /\ x \in Cell /\ atts \in Seq(Attempt) /\ TypeOK /\ OriginInv /\ sealed = None
  <2>1. cur \in Attempt /\ ver[job.src] \in Versions /\ atts \in Seq(Attempt) /\ TypeOK
    BY <1>1 DEF IInv, TypeOK, Job
  <2>2. u \in Nat
    BY <1>2, <1>3
  <2> HIDE DEF u
  <2>3. QED
    BY <1>1, <2>1, <2>2, CellTypes DEF IInv, OriginInv
<1> HIDE DEF c, n, from, u, p, x, F
<1>6. from + done <= Len(F) /\ Len(F) \in Nat
  BY <1>2, <1>3, <1>4
<1>7. p \in 1..(Len(F) + 1) /\ p < DataEnd(c, n + 1) /\ p > from /\ p \in Nat
  BY <1>1, <1>2, <1>3, <1>6 DEF p
<1>8. /\ enc' \in Seq(Cell)
      /\ Len(enc') = IF p <= Len(F) THEN Len(F) ELSE Len(F) + 1
      /\ enc'[p] = x
      /\ \A q \in 1..Len(F) : q # p => enc'[q] = F[q]
  <2>1. F \in Seq(Cell) /\ x \in Cell /\ p \in 1..(Len(F) + 1) /\ p \in Nat \ {0}
    <3>1. F \in Seq(Cell)
      BY <1>2
    <3>2. x \in Cell
      BY <1>5
    <3>3. p \in 1..(Len(F) + 1) /\ p \in Nat \ {0}
      BY <1>3, <1>7
    <3>4. QED
      BY <3>1, <3>2, <3>3
  <2>2. PutAt(F, p, x) \in Seq(Cell)
    BY <2>1, PutAtType
  <2>3. /\ Len(PutAt(F, p, x)) = IF p <= Len(F) THEN Len(F) ELSE Len(F) + 1
        /\ PutAt(F, p, x)[p] = x
        /\ \A q \in 1..Len(F) : q # p => PutAt(F, p, x)[q] = F[q]
    BY <2>1, PutAtFacts
  <2>4. QED
    BY <1>1, <2>2, <2>3
<1>9. /\ Len(enc') \in Nat /\ p <= Len(enc') /\ Len(F) <= Len(enc')
      /\ Len(enc') < DataEnd(c, n + 1)
  <2>1. p = Len(F) + 1 \/ p <= Len(F)
    BY <1>6, <1>7
  <2>2. DataEnd(c, n + 1) \in Nat
    BY <1>3
  <2>3. QED
    BY <1>2, <1>6, <1>7, <1>8, <2>1, <2>2
<1>10. Covers(enc', c, atts)
  <2>1. \A q \in 2..from : q \in 1..Len(F) /\ q # p
    BY <1>2, <1>3, <1>6, <1>7
  <2>2. \A q \in 2..from : enc'[q] = F[q]
    BY <1>8, <2>1
  <2>3. from <= Len(enc')
    BY <1>2, <1>3, <1>6, <1>9
  <2>4. QED
    BY <1>2, <1>5, <1>8, <2>2, <2>3, CoversSame DEF from, n
<1>11. \A j \in 1..done' : /\ enc'[from + j].kind = "ct"
                           /\ enc'[from + j].att = cur
                           /\ enc'[from + j].unit = Read(c, n) + j
  <2> SUFFICES ASSUME NEW j \in 1..done'
               PROVE  /\ enc'[from + j].kind = "ct"
                      /\ enc'[from + j].att = cur
                      /\ enc'[from + j].unit = Read(c, n) + j
    OBVIOUS
  <2>1. CASE j = done + 1
    <3>1. from + j = p /\ Read(c, n) + j = u
      BY <1>2, <1>3, <2>1 DEF p, u
    <3>2. QED
      BY <1>8, <3>1 DEF x, Ct
  <2>2. CASE j # done + 1
    <3>1. j \in 1..done /\ done > 0
      BY <1>1, <1>2, <2>2
    <3>2. F = enc
      BY <1>2, <1>4, <3>1
    <3>3. from + j \in 1..Len(F) /\ from + j # p
      BY <1>2, <1>3, <1>6, <3>1 DEF p
    <3>4. QED
      BY <1>4, <1>8, <3>1, <3>2, <3>3
  <2>3. QED
    BY <2>1, <2>2
<1>12. n = 0 => Len(enc') = 1 + done'
  <2> SUFFICES ASSUME n = 0 PROVE Len(enc') = 1 + done'
    OBVIOUS
  <2>1. Len(F) = 1 + done
    BY <1>2, <1>4
  <2>2. from = 1
    BY <1>2, LayoutStart DEF from
  <2>3. p = Len(F) + 1
    BY <1>2, <2>1, <2>2 DEF p
  <2>4. QED
    BY <1>1, <1>2, <1>6, <1>8, <2>1, <2>3
<1>13. ProgressInv'
  <2>1. CASE prog = None
    BY <1>1, <2>1 DEF ProgressInv
  <2>2. CASE prog # None /\ n > 0
    <3>1. prog.atts = atts /\ prog.job = job
      BY <1>2, <2>2 DEF OwnProgress
    <3>2. QED
      BY <1>1, <1>9, <1>10, <3>1 DEF ProgressInv, c, n
  <2>3. CASE prog # None /\ n = 0
    <3>1. prog.job.csize = c
      BY <1>2, <1>5, <2>3, ProgressFacts DEF Orderly
    <3>2. Len(enc') < DataEnd(prog.job.csize, 1)
      BY <1>9, <2>3, <3>1
    <3>3. QED
      BY <1>1, <1>5, <1>8, <2>3, <3>2, ShortFile DEF ProgressInv
  <2>4. QED
    BY <1>2, <2>1, <2>2, <2>3
<1>14. Flushed' = enc' /\ (OwnProgress' <=> OwnProgress)
  BY <1>1 DEF Flushed, OwnProgress
<1>15. done' <= ChunkLen(c, n + 1) /\ from + done' <= Len(enc') /\ from <= Len(enc')
  BY <1>1, <1>2, <1>3, <1>6, <1>9 DEF p
<1>16. StageInv'
  BY <1>1, <1>2, <1>4, <1>10, <1>11, <1>12, <1>14, <1>15 DEF StageInv, c, n, from
<1>17. SealedInv'
  BY <1>1, <1>5 DEF SealedInv
<1>18. QED
  BY <1>13, <1>16, <1>17 DEF LayoutInv

\* The tag closes the segment: once flushed, it is one more finished segment.
LEMMA WriteTagLayout ==
  ASSUME IInv, Orderly, WriteTag
  PROVE  LayoutInv'
<1> DEFINE c == job.csize
           n == Len(atts)
           m == n + 1
           from == DataEnd(c, n)
           len == ChunkLen(c, m)
           to == DataEnd(c, m)
           F == Flushed
           G == PutAt(F, to, Tag(cur))
<1>1. /\ pc = "write" /\ pc' = "save" /\ done = len
      /\ enc' = F /\ buffered' = TRUE /\ atts' = Append(atts, cur)
      /\ UNCHANGED <<prog, job, sealed>>
  BY DEF WriteTag, Goto, run
<1>2. /\ c \in Segments /\ n \in Nat /\ done \in Nat
      /\ F \in Seq(Cell)
      /\ Covers(F, c, atts)
      /\ from <= Len(F)
      /\ Len(F) < to
      /\ ~buffered => F = enc
      /\ n > 0 => OwnProgress
      /\ n = 0 => F = enc
  BY <1>1, WritingFacts
<1>3. /\ from \in Nat /\ from >= 1 /\ to = from + len + 1 /\ to \in Nat
      /\ len \in Nat /\ Read(c, n) \in Nat
  BY <1>2, LayoutStep
<1>4. /\ done > 0 => ~buffered /\ from + done <= Len(enc)
      /\ \A j \in 1..done : /\ enc[from + j].kind = "ct"
                            /\ enc[from + j].att = cur
                            /\ enc[from + j].unit = Read(c, n) + j
  BY <1>1 DEF IInv, LayoutInv, StageInv
<1>5. cur \in Attempt /\ Tag(cur) \in Cell /\ atts \in Seq(Attempt) /\ TypeOK /\ OriginInv
  <2>1. cur \in Attempt
    BY <1>1 DEF IInv, TypeOK
  <2>2. QED
    BY <2>1, CellTypes DEF IInv, TypeOK
<1>6. atts' \in Seq(Attempt) /\ Len(atts') = m /\ atts'[m] = cur
  BY <1>1, <1>5
<1>7. m \in Nat /\ m > 0 /\ m # 0
  BY <1>2
<1>8. sealed = None
  BY <1>1, <1>5 DEF OriginInv
<1>9. Flushed' = G
  BY <1>1, <1>6 DEF Flushed
<1> HIDE DEF c, from, len, to, F, G
<1>10. Len(F) \in Nat /\ Len(F) + 1 = to
  <2>1. Len(F) \in Nat
    BY <1>2
  <2>2. CASE done > 0
    <3>1. from + done <= Len(F)
      BY <1>2, <1>4, <2>2
    <3>2. QED
      BY <1>1, <1>2, <1>3, <2>1, <3>1
  <2>3. CASE done = 0
    BY <1>1, <1>2, <1>3, <2>1, <2>3
  <2>4. QED
    BY <1>2, <2>1, <2>2, <2>3
<1>11. /\ G \in Seq(Cell) /\ Len(G) = to /\ G[to] = Tag(cur)
       /\ \A q \in 1..Len(F) : G[q] = F[q]
  <2>1. F \in Seq(Cell)
    BY <1>2
  <2>2. Tag(cur) \in Cell
    BY <1>5
  <2>3. to \in 1..(Len(F) + 1) /\ to \in Nat \ {0} /\ ~(to <= Len(F))
    BY <1>3, <1>10
  <2>4. G \in Seq(Cell)
    BY <2>1, <2>2, <2>3, PutAtType DEF G
  <2>5. /\ Len(G) = Len(F) + 1 /\ G[to] = Tag(cur)
        /\ \A q \in 1..Len(F) : q # to => G[q] = F[q]
    BY <2>1, <2>2, <2>3, PutAtFacts DEF G
  <2>6. \A q \in 1..Len(F) : q # to
    BY <1>10
  <2>7. QED
    BY <1>10, <2>4, <2>5, <2>6
<1>12. Covers(G, c, atts)
  <2>1. \A q \in 2..from : q \in 1..Len(F)
    BY <1>2, <1>3, <1>10
  <2>2. \A q \in 2..from : G[q] = F[q]
    BY <1>11, <2>1
  <2>3. from <= Len(G)
    BY <1>2, <1>3, <1>10, <1>11
  <2>4. F \in Seq(Cell) /\ G \in Seq(Cell) /\ c \in Segments /\ Covers(F, c, atts)
    BY <1>2, <1>11
  <2>5. QED
    BY <1>5, <2>2, <2>3, <2>4, CoversSame DEF from
<1>13. ChunkAt(G, c, m, cur)
  <2>1. \A j \in 1..len : /\ G[from + j].kind = "ct"
                          /\ G[from + j].att = cur
                          /\ G[from + j].unit = Read(c, n) + j
    <3> SUFFICES ASSUME NEW j \in 1..len
                 PROVE  /\ G[from + j].kind = "ct"
                        /\ G[from + j].att = cur
                        /\ G[from + j].unit = Read(c, n) + j
      OBVIOUS
    <3>1. j \in 1..done /\ done > 0
      BY <1>1, <1>2
    <3>2. F = enc
      BY <1>2, <1>4, <3>1
    <3>3. from + j \in 1..Len(F)
      BY <1>1, <1>3, <1>10
    <3>4. QED
      BY <1>4, <1>11, <3>1, <3>2, <3>3
  <2>2. m - 1 = n
    BY <1>2
  <2> HIDE DEF m
  <2>3. to <= Len(G)
    BY <1>3, <1>11
  <2>4. QED
    BY <1>11, <2>1, <2>2, <2>3 DEF ChunkAt, from, len, to
<1>14. Covers(Flushed', c, atts')
  <2>1. G \in Seq(Cell) /\ c \in Segments
    BY <1>2, <1>11
  <2>2. QED
    BY <1>1, <1>5, <1>9, <1>12, <1>13, <2>1, CoversGrows
<1>15. ProgressInv'
  <2>1. CASE prog = None
    BY <1>1, <2>1 DEF ProgressInv
  <2>2. CASE n = 0
    BY <1>1, <1>2, <2>2 DEF ProgressInv, IInv, LayoutInv
  <2>3. CASE n > 0
    <3>1. prog.atts = atts /\ prog.job = job
      BY <1>2, <2>3 DEF OwnProgress
    <3>2. QED
      BY <1>1, <1>2, <3>1 DEF ProgressInv, c, to
  <2>4. QED
    BY <1>2, <2>1, <2>2, <2>3
<1> HIDE DEF m, n
<1>16. StageInv'
  BY <1>1, <1>6, <1>7, <1>10, <1>14 DEF StageInv, c, to
<1>17. SealedInv'
  BY <1>1, <1>8 DEF SealedInv
<1>18. QED
  BY <1>15, <1>16, <1>17 DEF LayoutInv

\* After a tag the file is one cell short of the segment's end until the flush.
LEMMA BoundaryFacts ==
  ASSUME IInv, pc \in {"save", "boundary"},
         NEW c, c = job.csize, NEW n, n = Len(atts)
  PROVE  /\ c \in Segments /\ n \in Nat /\ n > 0
         /\ buffered
         /\ Len(enc) \in Nat
         /\ Len(enc) + 1 = DataEnd(c, n)
         /\ Flushed \in Seq(Cell)
         /\ Len(Flushed) = DataEnd(c, n)
         /\ Covers(Flushed, c, atts)
         /\ DataEnd(c, n) \in Nat
         /\ DataEnd(c, n) < DataEnd(c, n + 1)
         /\ DataEnd(c, n + 1) \in Nat
<1>1. c \in Segments /\ n \in Nat /\ enc \in Seq(Cell) /\ Len(enc) \in Nat
  BY DEF IInv, TypeOK, Job
<1>2. n > 0 /\ buffered /\ Len(enc) + 1 = DataEnd(c, n) /\ Covers(Flushed, c, atts)
  BY DEF IInv, LayoutInv, StageInv
<1>3. Flushed \in Seq(Cell)
  BY FlushedTyped DEF IInv
<1>4. /\ DataEnd(c, n) \in Nat /\ DataEnd(c, n + 1) \in Nat
      /\ DataEnd(c, n) < DataEnd(c, n + 1) /\ DataEnd(c, n) >= 1
  <2>1. n + 1 \in Nat /\ n < n + 1 /\ n <= n + 1
    BY <1>1
  <2>2. QED
    BY <1>1, <2>1, LayoutOrder, LayoutStep
<1>5. Len(Flushed) = DataEnd(c, n)
  <2>1. atts[n] \in Attempt
    BY <1>1, <1>2 DEF IInv, TypeOK
  <2>2. Tag(atts[n]) \in Cell
    BY <2>1, CellTypes
  <2>3. DataEnd(c, n) \in 1..(Len(enc) + 1) /\ ~(DataEnd(c, n) <= Len(enc))
    BY <1>1, <1>2, <1>4
  <2>4. Flushed = PutAt(enc, DataEnd(c, n), Tag(atts[n]))
    BY <1>2 DEF Flushed
  <2>5. QED
    BY <1>1, <1>2, <2>2, <2>3, <2>4, PutAtFacts
<1>6. QED
  BY <1>1, <1>2, <1>3, <1>4, <1>5

\* The progress of a segment whose tag is not out yet does not fit in the file.
LEMMA SaveProgressLayout ==
  ASSUME IInv, Orderly, SaveProgress
  PROVE  LayoutInv'
<1> DEFINE c == job.csize
           n == Len(atts)
<1>1. /\ pc = "save" /\ pc' = "boundary"
      /\ prog' = [name |-> BaseName[job.src], job |-> job, atts |-> atts]
      /\ UNCHANGED <<enc, job, atts, buffered, sealed>>
  BY DEF SaveProgress, Goto, run
<1>2. /\ n \in Nat /\ n > 0 /\ buffered
      /\ Len(enc) \in Nat /\ Len(enc) + 1 = DataEnd(c, n)
      /\ Covers(Flushed, c, atts)
      /\ DataEnd(c, n) < DataEnd(c, n + 1) /\ DataEnd(c, n) \in Nat
      /\ DataEnd(c, n + 1) \in Nat
  BY <1>1, BoundaryFacts
<1>3. ~(DataEnd(c, n) <= Len(enc)) /\ Len(enc) < DataEnd(c, n + 1)
  <2> HIDE DEF c, n
  <2>1. QED
    BY <1>2
<1>4. prog'.job = job /\ prog'.atts = atts /\ prog' # None
  <2>1. prog' \in Progress
    BY <1>1 DEF Progress, IInv, TypeOK, Job
  <2>2. QED
    BY <1>1, <2>1, NoneAssumption
<1>5. ProgressInv'
  BY <1>1, <1>3, <1>4 DEF ProgressInv
<1>6. OwnProgress' /\ Flushed' = Flushed
  BY <1>1, <1>4 DEF OwnProgress, Flushed
<1>7. StageInv'
  BY <1>1, <1>2, <1>6 DEF StageInv
<1>8. SealedInv'
  BY <1>1 DEF SealedInv, IInv, OriginInv
<1>9. QED
  BY <1>5, <1>7, <1>8 DEF LayoutInv

\* To the next segment with the tag still buffered, or to the metadata with it
\* written.
LEMMA ContinueLayout ==
  ASSUME IInv, Orderly, Continue
  PROVE  LayoutInv'
<1> DEFINE c == job.csize
           n == Len(atts)
<1>1. /\ pc = "boundary" /\ UNCHANGED <<prog, job, atts, done, cur, sealed>>
  BY DEF Continue, run, chunk
<1>2. /\ n \in Nat /\ n > 0 /\ buffered /\ Len(enc) + 1 = DataEnd(c, n)
      /\ Covers(Flushed, c, atts)
      /\ Len(Flushed) = DataEnd(c, n) /\ DataEnd(c, n) \in Nat
  BY <1>1, BoundaryFacts
<1>3. OwnProgress /\ OwnProgress'
  BY <1>1 DEF OwnProgress, IInv, LayoutInv, StageInv
<1>4. SealedInv'
  BY <1>1 DEF SealedInv, IInv, OriginInv
<1>5. CASE More(c, n) /\ pc' = "chunk" /\ UNCHANGED <<enc, buffered>>
  <2>1. ProgressInv' /\ Flushed' = Flushed
    BY <1>1, <1>5 DEF ProgressInv, IInv, LayoutInv, Flushed
  <2>2. n # 0
    BY <1>2
  <2>3. StageInv'
    BY <1>1, <1>2, <1>3, <1>5, <2>1, <2>2 DEF StageInv
  <2>4. QED
    BY <1>4, <2>1, <2>3 DEF LayoutInv
<1>6. CASE ~More(c, n) /\ pc' = "meta" /\ enc' = Flushed /\ buffered' = FALSE
  <2>1. ProgressInv'
    BY <1>1, <1>2, <1>3, <1>6 DEF ProgressInv, OwnProgress
  <2>2. DataEnd(c, n) <= Len(enc')
    BY <1>2, <1>6
  <2>3. StageInv'
    BY <1>1, <1>2, <1>3, <1>6, <2>2 DEF StageInv
  <2>4. QED
    BY <1>4, <2>1, <2>3 DEF LayoutInv
<1>7. QED
  BY <1>5, <1>6 DEF Continue

\* The metadata and the header leave the segments in place.
LEMMA FinishLayout ==
  ASSUME IInv, Orderly, WriteMetadata \/ WriteHeader
  PROVE  LayoutInv'
<1> DEFINE c == job.csize
           n == Len(atts)
           end == DataEnd(c, n)
<1>1. /\ pc \in {"meta", "header"} /\ pc' \in {"header", "remove"}
      /\ pc = "meta" => pc' = "header"
      /\ UNCHANGED <<prog, job, atts, sealed>>
  BY DEF WriteMetadata, WriteHeader, Goto, run
<1>2. /\ OwnProgress /\ ~More(c, n) /\ end <= Len(enc) /\ Covers(enc, c, atts)
  BY <1>1 DEF IInv, LayoutInv, StageInv
<1>3. /\ c \in Segments /\ n \in Nat /\ enc \in Seq(Cell) /\ Len(enc) \in Nat
      /\ atts \in Seq(Attempt) /\ end \in Nat \ {0} /\ hash \in Hashes
  <2>1. c \in Segments /\ n \in Nat
    BY <1>1 DEF IInv, TypeOK, Job
  <2>2. end \in Nat \ {0}
    BY <2>1, LayoutType
  <2>3. QED
    BY <2>1, <2>2 DEF IInv, TypeOK
<1>4. /\ enc' \in Seq(Cell) /\ Len(enc) <= Len(enc')
      /\ \A q \in 2..Len(enc) : enc'[q] = enc[q]
      /\ pc' = "remove" => enc'[1] = Header(Len(enc'))
  <2>1. CASE WriteMetadata
    <3>1. Meta(atts, c, hash) \in Cell /\ enc' = Append(enc, Meta(atts, c, hash))
      BY <1>3, <2>1, CellTypes DEF WriteMetadata
    <3>2. pc' = "header"
      BY <2>1 DEF WriteMetadata, Goto
    <3> HIDE DEF c
    <3>3. QED
      BY <1>3, <3>1, <3>2
  <2>2. CASE WriteHeader
    <3>1. Header(Len(enc)) \in Cell /\ enc' = PutAt(enc, 1, Header(Len(enc)))
      BY <1>3, <2>2, CellTypes DEF WriteHeader
    <3>2. Len(enc) > 1
      BY <2>2 DEF WriteHeader, Goto, IInv, OriginInv
    <3>3. 1 \in 1..(Len(enc) + 1) /\ 1 \in Nat \ {0} /\ 1 <= Len(enc)
      BY <1>3, <3>2
    <3>4. enc' \in Seq(Cell)
      BY <1>3, <3>1, <3>3, PutAtType
    <3>5. /\ Len(enc') = Len(enc) /\ enc'[1] = Header(Len(enc))
          /\ \A q \in 1..Len(enc) : q # 1 => enc'[q] = enc[q]
      BY <1>3, <3>1, <3>3, PutAtFacts
    <3>6. \A q \in 2..Len(enc) : q \in 1..Len(enc) /\ q # 1
      BY <1>3
    <3>7. QED
      BY <1>3, <3>4, <3>5, <3>6
  <2>3. QED
    BY <2>1, <2>2
<1> HIDE DEF c, n, end
<1>5. end <= Len(enc')
  <2>1. Len(enc') \in Nat
    BY <1>4
  <2>2. QED
    BY <1>2, <1>3, <1>4, <2>1
<1>6. Covers(enc', c, atts)
  <2>1. \A q \in 2..end : q \in 2..Len(enc)
    BY <1>2, <1>3
  <2>2. \A q \in 2..end : enc'[q] = enc[q]
    BY <1>4, <2>1
  <2>3. enc' \in Seq(Cell) /\ enc \in Seq(Cell) /\ c \in Segments /\ atts \in Seq(Attempt)
    BY <1>3, <1>4
  <2>4. QED
    BY <1>2, <1>5, <2>2, <2>3, CoversSame DEF end, n
<1>7. ProgressInv'
  BY <1>1, <1>2, <1>6 DEF ProgressInv, OwnProgress, c, n
<1>8. OwnProgress'
  BY <1>1, <1>2 DEF OwnProgress
<1>9. StageInv'
  BY <1>1, <1>2, <1>4, <1>5, <1>6, <1>8 DEF StageInv, c, n, end
<1>10. SealedInv'
  BY <1>1 DEF SealedInv, IInv, OriginInv
<1>11. QED
  BY <1>7, <1>9, <1>10 DEF LayoutInv

\* The call returns.
LEMMA ReturnLayout ==
  ASSUME IInv, Return
  PROVE  LayoutInv'
<1>1. pc = "remove" /\ pc' = "idle" /\ prog' = None /\ UNCHANGED <<enc, job, atts>>
  BY DEF Return, Goto, run
<1>2. ProgressInv' /\ StageInv'
  BY <1>1 DEF ProgressInv, StageInv
<1>3. SealedInv'
  BY <1>1 DEF SealedInv, IInv, LayoutInv, StageInv
<1>4. QED
  BY <1>2, <1>3 DEF LayoutInv

\* An interrupted call leaves a file and a progress file that go together.
LEMMA FaultyLayout ==
  ASSUME IInv, Orderly, Faulty
  PROVE  LayoutInv'
<1>1. /\ pc # "idle" /\ pc' = "idle" /\ UNCHANGED <<prog, job, atts, sealed>>
      /\ \/ enc' = enc
         \/ enc' = Flushed /\ pc \in {"hash", "write", "boundary", "remove"}
  <2>1. CASE Cancel
    BY <2>1 DEF Cancel, Unwind, run
  <2>2. CASE ReadFails
    BY <2>2 DEF ReadFails, Unwind, run
  <2>3. CASE SaveFails
    BY <2>3 DEF SaveFails, Fault, Orderly
  <2>4. CASE RemoveFails
    BY <2>4 DEF RemoveFails, Unwind, run
  <2>5. CASE Kill
    BY <2>5 DEF Kill, run
  <2>6. QED
    BY <2>1, <2>2, <2>3, <2>4, <2>5 DEF Faulty
<1>2. StageInv'
  BY <1>1 DEF StageInv
<1>3. SealedInv'
  BY <1>1 DEF SealedInv, IInv, OriginInv
<1>4. CASE enc' = enc
  BY <1>1, <1>2, <1>3, <1>4 DEF IInv, LayoutInv, ProgressInv
<1>5. CASE enc' = Flushed /\ ~buffered
  BY <1>1, <1>2, <1>3, <1>5 DEF IInv, LayoutInv, ProgressInv, Flushed
<1>6. CASE enc' = Flushed /\ buffered
  <2> DEFINE c == job.csize
             n == Len(atts)
  <2>1. pc \in {"write", "boundary", "chunk", "save"} \/ enc' = enc
    BY <1>1, <1>6 DEF IInv, OriginInv
  <2>2. CASE pc = "write"
    <3>1. Covers(Flushed, c, atts) /\ Len(Flushed) < DataEnd(c, n + 1) /\ n \in Nat
      BY <2>2, WritingFacts
    <3>2. n > 0
      BY <1>6, <3>1 DEF IInv, OriginInv, TypeOK
    <3>3. OwnProgress
      BY <2>2, <3>2, WritingFacts
    <3>4. ProgressInv'
      BY <1>1, <1>6, <3>1, <3>3 DEF ProgressInv, OwnProgress
    <3>5. QED
      BY <1>2, <1>3, <3>4 DEF LayoutInv
  <2>3. CASE pc = "boundary"
    <3>1. Covers(Flushed, c, atts) /\ Len(Flushed) < DataEnd(c, n + 1)
      BY <2>3, BoundaryFacts
    <3>2. OwnProgress
      BY <2>3 DEF IInv, LayoutInv, StageInv
    <3>3. ProgressInv'
      BY <1>1, <1>6, <3>1, <3>2 DEF ProgressInv, OwnProgress
    <3>4. QED
      BY <1>2, <1>3, <3>3 DEF LayoutInv
  <2>4. QED
    BY <1>1, <1>4, <2>1, <2>2, <2>3
<1>7. QED
  BY <1>1, <1>4, <1>5, <1>6

-----------------------------------------------------------------------------
(* The invariant and what it gives.                                        *)

LEMMA InitLayout == Init => IInv
<1>1. Init => LayoutInv
  BY DEF Init, LayoutInv, ProgressInv, StageInv, SealedInv
<1>2. QED
  BY <1>1, InitOrigin DEF IInv

LEMMA NextLayout == Orderly /\ IInv /\ [Next]_vars => IInv'
<1> SUFFICES ASSUME Orderly, IInv, [Next]_vars PROVE LayoutInv'
  BY NextType DEF IInv
<1>1. CASE Worker
  BY <1>1, QuietLayout, OpenLayout, WriteBufferLayout, WriteTagLayout, SaveProgressLayout,
     ContinueLayout, FinishLayout, ReturnLayout DEF Worker
<1>2. CASE Faulty
  BY <1>2, FaultyLayout
<1>3. CASE User
  <2>1. ASSUME NEW s \in Sources, NEW c \in Segments, NEW k \in Keys, EncryptFile(s, c, k)
        PROVE  LayoutInv'
    BY <2>1, StartLayout
  <2>2. ASSUME NEW s \in Sources, EditSource(s)
        PROVE  LayoutInv'
    <3>1. UNCHANGED <<enc, prog, pc, job, resumed, atts, cur, done, buffered, hash, sealed>>
      BY <2>2 DEF EditSource, run, chunk
    <3>2. QED
      BY <3>1 DEF IInv, LayoutInv, ProgressInv, StageInv, SealedInv, OwnProgress, Flushed
  <2>3. QED
    BY <1>3, <2>1, <2>2 DEF User
<1>4. CASE UNCHANGED vars
  <2>1. UNCHANGED <<enc, prog, pc, job, resumed, atts, cur, done, buffered, hash, sealed>>
    BY <1>4 DEF vars
  <2>2. QED
    BY <2>1 DEF IInv, LayoutInv, ProgressInv, StageInv, SealedInv, OwnProgress, Flushed
<1>5. QED
  BY <1>1, <1>2, <1>3, <1>4 DEF Next

\* In the orderly setting guard 4, which looks at the size of the output file
\* only, lets a call resume over nothing but its own segments.
THEOREM ResumeCoveredCorrect ==
  ASSUME Orderly
  PROVE  Spec => []ResumeCovered
<1>1. IInv => ResumeCovered
  BY DEF IInv, LayoutInv, ProgressInv, StageInv, OwnProgress, ResumeCovered
<1>2. Spec => []IInv
  BY InitLayout, NextLayout, PTL DEF Spec
<1>3. QED
  BY <1>1, <1>2, PTL

\* In the orderly setting a cancellation never loses a completed segment.
THEOREM CancelCorrect ==
  ASSUME Orderly
  PROVE  Spec => CancelKeepsSegments
<1>1. IInv /\ Cancel /\ atts # <<>> =>
        /\ prog' # None /\ prog'.job = job /\ prog'.atts = atts
        /\ Covers(enc', job.csize, atts)
  <2> SUFFICES ASSUME IInv, Cancel, atts # <<>>
               PROVE  /\ prog' # None /\ prog'.job = job /\ prog'.atts = atts
                      /\ Covers(enc', job.csize, atts)
    OBVIOUS
  <2>1. pc \in {"write", "boundary"} /\ enc' = Flushed /\ prog' = prog
    BY DEF Cancel, Unwind
  <2>2. Len(atts) \in Nat /\ Len(atts) > 0
    BY DEF IInv, TypeOK
  <2>3. OwnProgress /\ Covers(Flushed, job.csize, atts)
    BY <2>1, <2>2 DEF IInv, LayoutInv, StageInv
  <2>4. QED
    BY <2>1, <2>3 DEF OwnProgress
<1>2. Spec => []IInv
  BY InitLayout, NextLayout, PTL DEF Spec
<1>3. QED
  BY <1>1, <1>2, PTL DEF Spec, CancelKeepsSegments
-----------------------------------------------------------------------------
(***************************************************************************)
(* What a returned container holds.  Versions only grow: a cell holds one  *)
(* that lies between the one its segment was bound to and the one its      *)
(* source has now, so a segment bound to today's version holds nothing     *)
(* else, whichever call wrote it.  The hash is that of the units as they   *)
(* were encrypted, or, of a call that resumed, of the source at its start. *)
(***************************************************************************)

\* The cells of e are not older than their segments and not newer than v.
CellsBetween(e, v) ==
  \A p \in 1..Len(e) : e[p].kind = "ct" =>
     e[p].att.ver <= e[p].ver /\ e[p].ver <= v[e[p].att.src]

VersionInv ==
  /\ pc # "idle" => job.ver <= ver[job.src]
  /\ pc # "idle" /\ ~dirty => job.ver = ver[job.src]
  /\ pc # "idle" /\ dirty => job.ver # ver[job.src]
  /\ CellsBetween(enc, ver)

\* The hash of the n units after the first k segments is that of the cells.
HashedAs(k, n) == \A j \in 1..n :
  hash[Read(job.csize, k) + j] = enc[DataEnd(job.csize, k) + j].ver

HashInv ==
  /\ resumed /\ ~dirty /\ pc \notin {"idle", "hash"} => \A u \in Units : hash[u] = job.ver
  /\ ~resumed /\ pc \notin {"idle", "hash", "open"} =>
       \A k \in 1..Len(atts) : HashedAs(k - 1, ChunkLen(job.csize, k))
  /\ ~resumed /\ pc = "write" => HashedAs(Len(atts), done)

ReturnedInv ==
  sealed # None =>
    /\ ~More(job.csize, Len(atts))
    /\ ~dirty \/ ~resumed =>
         \A k \in 1..Len(atts) : HashedAs(k - 1, ChunkLen(job.csize, k))
    /\ ~dirty =>
         \A k \in 1..Len(atts) : \A j \in 1..ChunkLen(job.csize, k) :
            enc[DataEnd(job.csize, k - 1) + j].ver = job.ver

SourceInv == VersionInv /\ HashInv /\ ReturnedInv

-----------------------------------------------------------------------------
(* Versions. *)

\* Every cell of a written file is the one written or was there before.
LEMMA PutAtCells ==
  ASSUME NEW e \in Seq(Cell), NEW p \in Nat \ {0}, NEW x \in Cell, NEW q,
         q \in 1..Len(PutAt(e, p, x))
  PROVE  PutAt(e, p, x)[q] = x \/ (q \in 1..Len(e) /\ PutAt(e, p, x)[q] = e[q])
<1>1. CASE p <= Len(e)
  BY <1>1 DEF PutAt
<1>2. CASE ~(p <= Len(e))
  BY <1>2 DEF PutAt
<1>3. QED
  BY <1>1, <1>2

LEMMA PutAtBetween ==
  ASSUME NEW e \in Seq(Cell), NEW p \in Nat \ {0}, NEW x \in Cell, NEW v,
         CellsBetween(e, v),
         x.kind = "ct" => x.att.ver <= x.ver /\ x.ver <= v[x.att.src]
  PROVE  CellsBetween(PutAt(e, p, x), v)
<1> DEFINE f == PutAt(e, p, x)
<1>1. \A q \in 1..Len(f) : f[q] = x \/ (q \in 1..Len(e) /\ f[q] = e[q])
  BY PutAtCells
<1> HIDE DEF f
<1>2. CellsBetween(f, v)
  BY <1>1 DEF CellsBetween
<1>3. QED
  BY <1>2 DEF f

\* A cell with something else than ciphertext.
LEMMA OtherCells ==
  /\ \A at : Header(at).kind # "ct"
  /\ \A a : Tag(a).kind # "ct"
  /\ \A al, c, h : Meta(al, c, h).kind # "ct"
BY DEF Header, Tag, Meta

LEMMA FlushedBetween ==
  ASSUME TypeOK, OriginInv, pc # "idle", CellsBetween(enc, ver)
  PROVE  CellsBetween(Flushed, ver)
<1>1. CASE ~buffered
  BY <1>1 DEF Flushed
<1>2. CASE buffered
  <2>1. Len(atts) \in Nat /\ Len(atts) > 0 /\ atts[Len(atts)] \in Attempt
    BY <1>2 DEF TypeOK, OriginInv
  <2>2. DataEnd(job.csize, Len(atts)) \in Nat \ {0} /\ enc \in Seq(Cell)
    BY <2>1, LayoutType DEF TypeOK, Job
  <2>3. Tag(atts[Len(atts)]) \in Cell /\ Tag(atts[Len(atts)]).kind # "ct"
    BY <2>1, CellTypes, OtherCells
  <2>4. QED
    BY <1>2, <2>2, <2>3, PutAtBetween DEF Flushed
<1>3. QED
  BY <1>1, <1>2

\* Versions and the version a call took are numbers.
LEMMA VersionTypes ==
  ASSUME TypeOK
  PROVE  /\ \A s \in Sources : ver[s] \in Nat
         /\ pc # "idle" => job.ver \in Nat /\ job.src \in Sources /\ ver[job.src] \in Versions
<1>1. Versions \subseteq Nat
  BY MaxVerAssumption DEF Versions
<1>2. QED
  BY <1>1 DEF TypeOK, Job

LEMMA WorkerVersions ==
  ASSUME TypeOK, OriginInv, VersionInv, Worker
  PROVE  VersionInv'
<1>1. pc # "idle" /\ UNCHANGED <<ver, job, dirty>>
  BY DEF Worker, CollectMetadata, Open, NewChunk, WriteBuffer, WriteTag, SaveProgress,
     Continue, WriteMetadata, WriteHeader, Return, Goto, run
<1>2. CellsBetween(enc, ver) /\ CellsBetween(Flushed, ver) /\ enc \in Seq(Cell)
  BY <1>1, FlushedBetween DEF VersionInv, TypeOK
<1>3. CellsBetween(enc', ver)
  <2>1. CASE CollectMetadata \/ NewChunk \/ SaveProgress \/ Return
    BY <1>2, <2>1 DEF CollectMetadata, NewChunk, SaveProgress, Return
  <2>2. CASE Open
    <3>1. enc' = enc \/ enc' = <<Header(0)>>
      BY <2>2 DEF Open
    <3>2. CellsBetween(<<Header(0)>>, ver)
      BY OtherCells DEF CellsBetween
    <3>3. QED
      BY <1>2, <3>1, <3>2
  <2>3. CASE WriteTag \/ Continue
    BY <1>2, <2>3 DEF WriteTag, Continue
  <2>4. CASE WriteBuffer
    <3> DEFINE c == job.csize
               n == Len(atts)
               u == Read(c, n) + done + 1
               p == DataEnd(c, n) + done + 1
               x == Ct(cur, u, ver[job.src])
    <3>1. pc = "write" /\ enc' = PutAt(Flushed, p, x)
      BY <2>4 DEF WriteBuffer
    <3>2. /\ cur \in Attempt /\ MadeBy(job, cur) /\ ver[job.src] \in Versions
          /\ Read(c, n) \in Nat /\ DataEnd(c, n) \in Nat \ {0} /\ done \in Nat
      <4>1. c \in Segments /\ n \in Nat /\ done \in Nat /\ cur \in Attempt
        BY <3>1 DEF TypeOK, Job
      <4>2. QED
        BY <1>1, <3>1, <4>1, LayoutType, VersionTypes DEF OriginInv
    <3>3. u \in Nat /\ p \in Nat \ {0}
      BY <3>2
    <3>4. x \in Cell
      BY <3>2, <3>3, CellTypes
    <3>5. x.att.ver <= x.ver /\ x.ver <= ver[x.att.src]
      <4>1. x.att = cur /\ x.ver = ver[job.src]
        BY DEF Ct
      <4>2. cur.ver = job.ver /\ cur.src = job.src
        BY <3>2 DEF MadeBy
      <4>3. job.ver <= ver[job.src] /\ ver[job.src] <= ver[job.src]
        BY <1>1, VersionTypes DEF VersionInv
      <4> HIDE DEF x
      <4>4. QED
        BY <4>1, <4>2, <4>3
    <3>6. Flushed \in Seq(Cell)
      BY <1>1, FlushedTyped
    <3> HIDE DEF p, x
    <3>7. QED
      BY <1>2, <3>1, <3>3, <3>4, <3>5, <3>6, PutAtBetween
  <2>5. CASE WriteMetadata
    <3> DEFINE x == Meta(atts, job.csize, hash)
    <3>1. enc' = Append(enc, x) /\ Len(enc) \in Nat
      BY <1>2, <2>5 DEF WriteMetadata
    <3>2. x \in Cell /\ x.kind # "ct"
      BY <1>1, CellTypes, OtherCells DEF TypeOK, Job
    <3> HIDE DEF x
    <3>3. \A q \in 1..Len(enc') : enc'[q] = x \/ (q \in 1..Len(enc) /\ enc'[q] = enc[q])
      BY <1>2, <3>1, <3>2
    <3>4. QED
      BY <1>2, <3>2, <3>3 DEF CellsBetween
  <2>6. CASE WriteHeader
    <3>1. enc' = PutAt(enc, 1, Header(Len(enc))) /\ Len(enc) \in Nat /\ 1 \in Nat \ {0}
      BY <1>2, <2>6 DEF WriteHeader
    <3>2. QED
      BY <1>2, <3>1, PutAtBetween, CellTypes, OtherCells
  <2>7. QED
    BY <2>1, <2>2, <2>3, <2>4, <2>5, <2>6 DEF Worker
<1>4. CellsBetween(enc', ver')
  BY <1>1, <1>3
<1>5. CellsBetween(enc, ver)'
  BY <1>4 DEF CellsBetween
<1>6. QED
  BY <1>1, <1>5 DEF VersionInv

LEMMA FaultyVersions ==
  ASSUME TypeOK, OriginInv, VersionInv, Faulty
  PROVE  VersionInv'
<1>1. /\ pc # "idle" /\ pc' = "idle" /\ ver' = ver
      /\ enc' = enc \/ enc' = Flushed
  BY DEF Faulty, Cancel, ReadFails, SaveFails, RemoveFails, Kill, Unwind
<1>2. CellsBetween(enc', ver)
  BY <1>1, FlushedBetween DEF VersionInv
<1>3. QED
  BY <1>1, <1>2 DEF VersionInv, CellsBetween

LEMMA StartVersions ==
  ASSUME TypeOK, VersionInv,
         NEW s \in Sources, NEW c \in Segments, NEW k \in Keys, EncryptFile(s, c, k)
  PROVE  VersionInv'
<1> DEFINE j == [src |-> s, csize |-> c, key |-> k, ver |-> ver[s]]
<1>1. /\ ver' = ver /\ job' = j /\ ~dirty'
      /\ enc' = enc \/ enc' = <<>>
  BY DEF EncryptFile, StartFresh, StartDiscarding, StartResuming, Start
<1>2. ver[s] \in Nat
  BY VersionTypes
<1>3. job'.src = s /\ job'.ver = ver[s]
  BY <1>1
<1>4. CellsBetween(enc', ver)
  BY <1>1 DEF VersionInv, CellsBetween
<1>5. QED
  BY <1>1, <1>2, <1>3, <1>4 DEF VersionInv, CellsBetween

LEMMA EditVersions ==
  ASSUME TypeOK, VersionInv, NEW s \in Sources, EditSource(s)
  PROVE  VersionInv'
<1>1. /\ UNCHANGED <<enc, pc, job>> /\ ver' = [ver EXCEPT ![s] = @ + 1]
      /\ dirty' = (dirty \/ (pc # "idle" /\ job.src = s))
  BY DEF EditSource, run
<1>2. \A t \in Sources : ver'[t] = IF t = s THEN ver[s] + 1 ELSE ver[t]
  BY <1>1 DEF TypeOK
<1>3. \A t \in Sources : ver[t] \in Nat /\ ver'[t] \in Nat /\ ver[t] <= ver'[t]
  BY <1>2, VersionTypes
<1>4. pc # "idle" => job.src \in Sources /\ job.ver \in Nat
  BY VersionTypes
<1>5. \A p \in 1..Len(enc) : enc[p].kind = "ct" =>
        enc[p].att.src \in Sources /\ enc[p].ver \in Nat
  <2>1. enc \in Seq(Cell) /\ Versions \subseteq Nat
    BY MaxVerAssumption DEF TypeOK, Versions
  <2>2. \A p \in 1..Len(enc) : enc[p] \in Cell
    BY <2>1
  <2>3. QED
    BY <2>1, <2>2 DEF Cell, Attempt
<1>6. pc' # "idle" => job'.ver <= ver'[job'.src]
  BY <1>1, <1>3, <1>4 DEF VersionInv
<1>7. pc' # "idle" /\ ~dirty' => job'.ver = ver'[job'.src]
  BY <1>1, <1>2, <1>4 DEF VersionInv
<1>71. pc' # "idle" /\ dirty' => job'.ver # ver'[job'.src]
  <2> SUFFICES ASSUME pc # "idle", dirty' PROVE job.ver # ver'[job.src]
    BY <1>1
  <2>1. job.ver <= ver[job.src] /\ job.src \in Sources /\ job.ver \in Nat
    BY <1>4 DEF VersionInv
  <2>2. CASE dirty
    BY <1>3, <2>1, <2>2 DEF VersionInv
  <2>3. CASE ~dirty
    <3>1. job.src = s
      BY <1>1, <2>3
    <3>2. QED
      BY <1>2, <1>3, <2>1, <3>1
  <2>4. QED
    BY <2>2, <2>3
<1>8. CellsBetween(enc', ver')
  <2> SUFFICES ASSUME NEW p \in 1..Len(enc), enc[p].kind = "ct"
               PROVE  enc[p].att.ver <= enc[p].ver /\ enc[p].ver <= ver'[enc[p].att.src]
    BY <1>1 DEF CellsBetween
  <2>1. enc[p].att.ver <= enc[p].ver /\ enc[p].ver <= ver[enc[p].att.src]
    BY DEF VersionInv, CellsBetween
  <2>2. enc[p].att.src \in Sources /\ enc[p].ver \in Nat
    BY <1>5
  <2>3. \A t \in Sources, n \in Nat : n <= ver[t] => n <= ver'[t]
    BY <1>3
  <2>4. QED
    BY <2>1, <2>2, <2>3
<1>9. QED
  BY <1>1, <1>6, <1>7, <1>71, <1>8 DEF VersionInv, CellsBetween

-----------------------------------------------------------------------------
(* Where the cells of the finished segments are. *)

\* The j-th unit of the k-th of n segments and its cell.
LEMMA SegmentPlace ==
  ASSUME NEW c \in Segments, NEW n \in Nat, NEW k \in 1..n, NEW j \in 1..ChunkLen(c, k)
  PROVE  /\ k - 1 \in Nat
         /\ DataEnd(c, k - 1) + j \in 2..(DataEnd(c, n) - 1)
         /\ Read(c, k - 1) + j \in 1..Read(c, n)
<1> DEFINE m == k - 1
<1>1. m \in Nat /\ k \in Nat /\ k = m + 1 /\ k <= n
  OBVIOUS
<1> HIDE DEF m
<1>2. /\ DataEnd(c, k) = DataEnd(c, m) + ChunkLen(c, k) + 1
      /\ ChunkLen(c, k) \in Nat /\ Read(c, m) \in Nat
      /\ DataEnd(c, m) \in Nat /\ DataEnd(c, m) >= 1 /\ DataEnd(c, k) \in Nat
  BY <1>1, LayoutStep
<1>3. /\ Read(c, k) <= Read(c, n) /\ DataEnd(c, k) <= DataEnd(c, n)
      /\ Read(c, k) \in Nat /\ Read(c, n) \in Nat /\ DataEnd(c, n) \in Nat
  BY <1>1, LayoutOrder, LayoutType
<1>4. Read(c, k) = Read(c, m) + ChunkLen(c, k)
  <2>1. ChunkLen(c, k) = Read(c, k) - Read(c, m)
    BY DEF ChunkLen, m
  <2>2. QED
    BY <1>2, <1>3, <2>1
<1>5. j \in Nat /\ 1 <= j /\ j <= ChunkLen(c, k)
  BY <1>2
<1>6. DataEnd(c, m) + j \in 2..(DataEnd(c, n) - 1)
  BY <1>2, <1>3, <1>5
<1>7. Read(c, m) + j \in 1..Read(c, n)
  BY <1>2, <1>3, <1>4, <1>5
<1>8. QED
  BY <1>1, <1>6, <1>7 DEF m

\* What has been read is in the source.
LEMMA ReadUnits ==
  ASSUME NEW c \in Segments, NEW n \in Nat
  PROVE  \A u \in 1..Read(c, n) : u \in Units
<1>1. n * c \in Nat /\ Size \in Nat
  BY SegmentsAssumption, SizeAssumption
<1>2. Read(c, n) \in Nat /\ Read(c, n) <= Size
  BY <1>1 DEF Read, Smaller
<1>3. QED
  BY <1>1, <1>2 DEF Units

AtWork == {"chunk", "write", "save", "boundary", "meta", "header", "remove"}

\* At work, the file reaches at least to the last finished segment's tag, which
\* may still be in the buffer.
LEMMA Reach ==
  ASSUME IInv, pc \in AtWork,
         NEW c, c = job.csize, NEW n, n = Len(atts)
  PROVE  /\ c \in Segments /\ n \in Nat
         /\ enc \in Seq(Cell) /\ Len(enc) \in Nat
         /\ DataEnd(c, n) \in Nat /\ DataEnd(c, n) >= 1
         /\ DataEnd(c, n) <= Len(enc) + 1
<1>1. c \in Segments /\ n \in Nat /\ enc \in Seq(Cell) /\ Len(enc) \in Nat
  BY DEF IInv, TypeOK, Job, AtWork
<1>2. DataEnd(c, n) \in Nat /\ DataEnd(c, n) >= 1
  BY <1>1, LayoutStep
<1>3. DataEnd(c, n) = Len(enc) + 1 \/ DataEnd(c, n) <= Len(enc)
  BY DEF IInv, LayoutInv, StageInv, AtWork
<1>4. QED
  BY <1>1, <1>2, <1>3

\* A flush leaves the cells before the tag alone.
LEMMA FlushKeeps ==
  ASSUME IInv, pc \in AtWork
  PROVE  \A q \in 2..(DataEnd(job.csize, Len(atts)) - 1) : Flushed[q] = enc[q]
<1> DEFINE c == job.csize
           n == Len(atts)
           d == DataEnd(c, n)
<1>1. /\ c \in Segments /\ n \in Nat /\ enc \in Seq(Cell) /\ Len(enc) \in Nat
      /\ d \in Nat /\ d >= 1 /\ d <= Len(enc) + 1
  BY Reach
<1>2. CASE ~buffered
  BY <1>2 DEF Flushed
<1>3. CASE buffered
  <2>1. n > 0 /\ atts[n] \in Attempt
    BY <1>1, <1>3 DEF IInv, OriginInv, TypeOK
  <2>2. Tag(atts[n]) \in Cell /\ Flushed = PutAt(enc, d, Tag(atts[n]))
    BY <1>3, <2>1, CellTypes DEF Flushed
  <2> HIDE DEF n, d
  <2>3. d \in 1..(Len(enc) + 1) /\ \A q \in 2..(d - 1) : q \in 1..Len(enc) /\ q # d
    BY <1>1
  <2>4. \A q \in 2..(d - 1) : Flushed[q] = enc[q]
    BY <1>1, <2>2, <2>3, PutAtFacts
  <2>5. QED
    BY <2>4 DEF d, n
<1>4. QED
  BY <1>2, <1>3

-----------------------------------------------------------------------------
(* The hash. *)

FinishedHashed == \A k \in 1..Len(atts) : HashedAs(k - 1, ChunkLen(job.csize, k))

\* What leaves the finished segments and the hash of their units alone leaves
\* the one the hash of the other.
LEMMA FinishedKept ==
  ASSUME IInv, pc \in AtWork, FinishedHashed,
         NEW e, \A q \in 2..(DataEnd(job.csize, Len(atts)) - 1) : e[q] = enc[q],
         NEW h, \A u \in 1..Read(job.csize, Len(atts)) : h[u] = hash[u]
  PROVE  \A k \in 1..Len(atts) : \A j \in 1..ChunkLen(job.csize, k) :
            h[Read(job.csize, k - 1) + j] = e[DataEnd(job.csize, k - 1) + j].ver
<1> DEFINE c == job.csize
           n == Len(atts)
<1>1. c \in Segments /\ n \in Nat
  BY Reach
<1> SUFFICES ASSUME NEW k \in 1..n, NEW j \in 1..ChunkLen(c, k)
             PROVE  h[Read(c, k - 1) + j] = e[DataEnd(c, k - 1) + j].ver
  OBVIOUS
<1>2. hash[Read(c, k - 1) + j] = enc[DataEnd(c, k - 1) + j].ver
  BY DEF FinishedHashed, HashedAs
<1>3. /\ DataEnd(c, k - 1) + j \in 2..(DataEnd(c, n) - 1)
      /\ Read(c, k - 1) + j \in 1..Read(c, n)
  <2> HIDE DEF c, n
  <2>1. QED
    BY <1>1, SegmentPlace
<1>4. QED
  BY <1>2, <1>3

\* The steps that write no ciphertext and finish no segment.
LEMMA OtherHash ==
  ASSUME IInv, HashInv, pc \in AtWork, UNCHANGED <<job, resumed, atts, hash, dirty>>,
         pc' = "write" => done' = 0,
         \A q \in 2..(DataEnd(job.csize, Len(atts)) - 1) : enc'[q] = enc[q]
  PROVE  HashInv'
<1>1. pc \notin {"idle", "hash", "open"}
  BY DEF AtWork
<1>2. resumed' /\ ~dirty' /\ pc' \notin {"idle", "hash"} => \A u \in Units : hash'[u] = job'.ver
  BY <1>1 DEF HashInv
<1>3. ~resumed =>
        \A k \in 1..Len(atts) : \A j \in 1..ChunkLen(job.csize, k) :
            hash[Read(job.csize, k - 1) + j] = enc'[DataEnd(job.csize, k - 1) + j].ver
  <2> SUFFICES ASSUME ~resumed
               PROVE  \A k \in 1..Len(atts) : \A j \in 1..ChunkLen(job.csize, k) :
                        hash[Read(job.csize, k - 1) + j] = enc'[DataEnd(job.csize, k - 1) + j].ver
    OBVIOUS
  <2>1. FinishedHashed
    BY <1>1 DEF HashInv, FinishedHashed
  <2> DEFINE f == enc'
  <2>2. \A q \in 2..(DataEnd(job.csize, Len(atts)) - 1) : f[q] = enc[q]
    OBVIOUS
  <2> HIDE DEF f
  <2>3. \A k \in 1..Len(atts) : \A j \in 1..ChunkLen(job.csize, k) :
            hash[Read(job.csize, k - 1) + j] = f[DataEnd(job.csize, k - 1) + j].ver
    BY <2>1, <2>2, FinishedKept
  <2>4. QED
    BY <2>3 DEF f
<1>4. pc' = "write" => \A j \in 1..done' : FALSE
  OBVIOUS
<1>5. QED
  BY <1>2, <1>3, <1>4 DEF HashInv, HashedAs

\* The hash pass of a resumed call sees the version the call took, unless the
\* source was edited since.
LEMMA CollectHash ==
  ASSUME IInv, VersionInv, CollectMetadata
  PROVE  HashInv'
<1>1. /\ pc = "hash" /\ pc' = "open" /\ hash' = [u \in Units |-> ver[job.src]]
      /\ UNCHANGED <<job, resumed, dirty>>
  BY DEF CollectMetadata, Goto, run
<1>2. ~dirty => job.ver = ver[job.src]
  BY <1>1 DEF VersionInv
<1>3. QED
  BY <1>1, <1>2 DEF HashInv

\* A call that does not resume starts with no segment.
LEMMA OpenHash ==
  ASSUME IInv, HashInv, Open
  PROVE  HashInv'
<1>1. /\ pc = "open" /\ pc' \in {"chunk", "meta"}
      /\ UNCHANGED <<job, resumed, atts, hash, dirty>>
  BY DEF Open, Goto, run
<1>2. ~resumed => atts = <<>>
  BY <1>1 DEF IInv, LayoutInv, StageInv
<1>3. ~resumed => \A k \in 1..Len(atts) : FALSE
  BY <1>2
<1>4. QED
  BY <1>1, <1>3 DEF HashInv

\* A buffer is hashed as it is encrypted, unless the call resumed.
LEMMA WriteBufferHash ==
  ASSUME IInv, Orderly, HashInv, WriteBuffer
  PROVE  HashInv'
<1> DEFINE c == job.csize
           n == Len(atts)
           d == DataEnd(c, n)
           r == Read(c, n)
           u == r + done + 1
           p == d + done + 1
           x == Ct(cur, u, ver[job.src])
<1>1. /\ pc = "write" /\ pc' = "write" /\ done < ChunkLen(c, n + 1) /\ done' = done + 1
      /\ enc' = PutAt(Flushed, p, x)
      /\ hash' = IF resumed THEN hash ELSE [hash EXCEPT ![u] = ver[job.src]]
      /\ UNCHANGED <<job, resumed, atts, dirty>>
  BY DEF WriteBuffer, run
<1>2. pc \in AtWork
  BY <1>1 DEF AtWork
<1>3. /\ c \in Segments /\ n \in Nat /\ done \in Nat
      /\ Flushed \in Seq(Cell) /\ d <= Len(Flushed)
      /\ ~buffered => Flushed = enc
  BY <1>1, WritingFacts
<1>4. d \in Nat /\ d >= 1 /\ r \in Nat /\ ChunkLen(c, n + 1) \in Nat /\ Len(Flushed) \in Nat
  BY <1>3, LayoutStep
<1>5. done > 0 => ~buffered /\ d + done <= Len(enc)
  BY <1>1 DEF IInv, LayoutInv, StageInv
<1>6. x \in Cell /\ x.ver = ver[job.src]
  <2>1. cur \in Attempt /\ ver[job.src] \in Versions
    BY <1>1 DEF IInv, TypeOK, Job
  <2>2. u \in Nat
    BY <1>3, <1>4
  <2> HIDE DEF u
  <2>3. QED
    BY <2>1, <2>2, CellTypes DEF Ct
<1>7. u \in Units /\ hash \in Hashes
  <2>1. n + 1 \in Nat /\ (n + 1) - 1 = n /\ n + 1 \in 1..(n + 1) /\ done + 1 \in 1..ChunkLen(c, n + 1)
    BY <1>1, <1>3, <1>4
  <2> HIDE DEF c, n, r
  <2>2. Read(c, (n + 1) - 1) + (done + 1) \in 1..Read(c, n + 1)
    BY <1>3, <2>1, SegmentPlace
  <2>3. Read(c, n) + (done + 1) \in Units
    BY <1>3, <2>1, <2>2, ReadUnits
  <2>4. u = Read(c, n) + (done + 1)
    BY <1>3, <1>4 DEF r
  <2>5. QED
    BY <2>3, <2>4 DEF IInv, TypeOK
<1> HIDE DEF c, n, d, r, u, p, x
<1>8. p \in 1..(Len(Flushed) + 1) /\ p \in Nat
  <2>1. d + done <= Len(Flushed)
    BY <1>3, <1>4, <1>5
  <2>2. QED
    BY <1>3, <1>4, <2>1 DEF p
<1>9. enc'[p] = x /\ \A q \in 1..Len(Flushed) : q # p => enc'[q] = Flushed[q]
  BY <1>1, <1>3, <1>6, <1>8, PutAtFacts
<1>10. \A q \in 2..(d - 1) : enc'[q] = enc[q]
  <2>1. \A q \in 2..(d - 1) : q \in 1..Len(Flushed) /\ q # p
    BY <1>3, <1>4 DEF p
  <2>2. \A q \in 2..(d - 1) : Flushed[q] = enc[q]
    BY <1>2, FlushKeeps DEF d, c, n
  <2>3. QED
    BY <1>9, <2>1, <2>2
<1>11. \A j \in 1..done : enc'[d + j] = enc[d + j]
  <2> SUFFICES ASSUME NEW j \in 1..done PROVE enc'[d + j] = enc[d + j]
    OBVIOUS
  <2>1. done > 0 /\ j \in Nat /\ j >= 1 /\ j <= done
    BY <1>3
  <2>2. Flushed = enc
    BY <1>3, <1>5, <2>1
  <2>3. d + j \in 1..Len(Flushed) /\ d + j # p
    BY <1>3, <1>4, <1>5, <2>1, <2>2 DEF p
  <2>4. QED
    BY <1>9, <2>2, <2>3
<1>12. ~resumed => /\ hash'[u] = ver[job.src]
                   /\ \A v \in Units : v # u => hash'[v] = hash[v]
  BY <1>1, <1>7 DEF Hashes
<1>13. ~resumed => \A v \in 1..(r + done) : hash'[v] = hash[v]
  <2> SUFFICES ASSUME ~resumed, NEW v \in 1..(r + done) PROVE hash'[v] = hash[v]
    OBVIOUS
  <2>1. v \in Nat /\ v >= 1 /\ v < u
    BY <1>3, <1>4 DEF u
  <2>2. v \in Units /\ v # u
    BY <1>7, <2>1, SizeAssumption DEF Units
  <2>3. QED
    BY <1>12, <2>2
<1>14. ~resumed =>
        \A k \in 1..n : \A j \in 1..ChunkLen(c, k) :
            hash'[Read(c, k - 1) + j] = enc'[DataEnd(c, k - 1) + j].ver
  <2> SUFFICES ASSUME ~resumed
               PROVE  \A k \in 1..n : \A j \in 1..ChunkLen(c, k) :
                        hash'[Read(c, k - 1) + j] = enc'[DataEnd(c, k - 1) + j].ver
    OBVIOUS
  <2>1. FinishedHashed
    BY <1>1 DEF HashInv, FinishedHashed
  <2>2. \A v \in 1..r : v \in 1..(r + done)
    BY <1>3, <1>4
  <2> DEFINE f == enc'
             h == hash'
  <2>3. \A q \in 2..(DataEnd(job.csize, Len(atts)) - 1) : f[q] = enc[q]
    BY <1>10 DEF d, c, n
  <2>4. \A v \in 1..Read(job.csize, Len(atts)) : h[v] = hash[v]
    BY <1>13, <2>2 DEF r, c, n
  <2> HIDE DEF f, h
  <2>5. \A k \in 1..Len(atts) : \A j \in 1..ChunkLen(job.csize, k) :
            h[Read(job.csize, k - 1) + j] = f[DataEnd(job.csize, k - 1) + j].ver
    BY <1>2, <2>1, <2>3, <2>4, FinishedKept
  <2>6. QED
    BY <2>5 DEF f, h, c, n
<1>15. ~resumed => \A j \in 1..done' : hash'[r + j] = enc'[d + j].ver
  <2> SUFFICES ASSUME ~resumed, NEW j \in 1..done' PROVE hash'[r + j] = enc'[d + j].ver
    OBVIOUS
  <2>1. CASE j = done + 1
    <3>1. r + j = u /\ d + j = p
      BY <1>3, <1>4, <2>1 DEF u, p
    <3>2. QED
      BY <1>6, <1>9, <1>12, <3>1
  <2>2. CASE j # done + 1
    <3>1. j \in 1..done /\ r + j \in 1..(r + done)
      BY <1>1, <1>3, <1>4, <2>2
    <3>2. hash[r + j] = enc[d + j].ver
      BY <1>1, <3>1 DEF HashInv, HashedAs, r, d, c, n
    <3>3. QED
      BY <1>11, <1>13, <3>1, <3>2
  <2>3. QED
    BY <2>1, <2>2
<1>16. resumed /\ ~dirty => \A v \in Units : hash'[v] = job.ver
  BY <1>1 DEF HashInv
<1>17. ~resumed' /\ pc' \notin {"idle", "hash", "open"} =>
         \A k \in 1..Len(atts') : \A j \in 1..ChunkLen(job'.csize, k) :
            hash'[Read(job'.csize, k - 1) + j] = enc'[DataEnd(job'.csize, k - 1) + j].ver
  BY <1>1, <1>14 DEF c, n
<1>18. ~resumed' /\ pc' = "write" => \A j \in 1..done' :
            hash'[Read(job'.csize, Len(atts')) + j] = enc'[DataEnd(job'.csize, Len(atts')) + j].ver
  BY <1>1, <1>15 DEF c, n, r, d
<1>19. resumed' /\ ~dirty' /\ pc' \notin {"idle", "hash"} => \A v \in Units : hash'[v] = job'.ver
  BY <1>1, <1>16
<1>20. QED
  BY <1>17, <1>18, <1>19 DEF HashInv, HashedAs

\* The tag: the segment being written is one more finished segment.
LEMMA WriteTagHash ==
  ASSUME IInv, Orderly, HashInv, WriteTag
  PROVE  HashInv'
<1> DEFINE c == job.csize
           n == Len(atts)
           d == DataEnd(c, n)
<1>1. /\ pc = "write" /\ pc' = "save" /\ done = ChunkLen(c, n + 1)
      /\ enc' = Flushed /\ atts' = Append(atts, cur)
      /\ UNCHANGED <<job, resumed, hash, dirty>>
  BY DEF WriteTag, Goto, run
<1>2. pc \in AtWork
  BY <1>1 DEF AtWork
<1>3. /\ n \in Nat /\ done \in Nat
      /\ ~buffered => Flushed = enc
      /\ done > 0 => ~buffered
  BY <1>1, WritingFacts DEF IInv, LayoutInv, StageInv
<1>4. atts \in Seq(Attempt) /\ Len(atts') = n + 1
  BY <1>1 DEF IInv, TypeOK
<1>5. ~resumed =>
        \A k \in 1..n : \A j \in 1..ChunkLen(c, k) :
            hash[Read(c, k - 1) + j] = Flushed[DataEnd(c, k - 1) + j].ver
  <2> SUFFICES ASSUME ~resumed
               PROVE  \A k \in 1..n : \A j \in 1..ChunkLen(c, k) :
                        hash[Read(c, k - 1) + j] = Flushed[DataEnd(c, k - 1) + j].ver
    OBVIOUS
  <2>1. FinishedHashed
    BY <1>1 DEF HashInv, FinishedHashed
  <2>2. \A q \in 2..(DataEnd(job.csize, Len(atts)) - 1) : Flushed[q] = enc[q]
    BY <1>2, FlushKeeps
  <2>3. QED
    BY <1>2, <2>1, <2>2, FinishedKept
<1>6. ~resumed => \A j \in 1..done :
            hash[Read(c, n) + j] = Flushed[DataEnd(c, n) + j].ver
  <2> SUFFICES ASSUME ~resumed, NEW j \in 1..done
               PROVE  hash[Read(c, n) + j] = Flushed[DataEnd(c, n) + j].ver
    OBVIOUS
  <2>1. done > 0 /\ Flushed = enc
    <3>1. done > 0
      BY <1>3
    <3>2. QED
      BY <1>3, <3>1
  <2>2. hash[Read(c, n) + j] = enc[DataEnd(c, n) + j].ver
    BY <1>1 DEF HashInv, HashedAs
  <2>3. QED
    BY <2>1, <2>2
<1>7. ~resumed =>
        \A k \in 1..(n + 1) : \A j \in 1..ChunkLen(c, k) :
            hash[Read(c, k - 1) + j] = Flushed[DataEnd(c, k - 1) + j].ver
  <2> SUFFICES ASSUME ~resumed, NEW k \in 1..(n + 1), NEW j \in 1..ChunkLen(c, k)
               PROVE  hash[Read(c, k - 1) + j] = Flushed[DataEnd(c, k - 1) + j].ver
    OBVIOUS
  <2>1. k \in 1..n \/ (k = n + 1 /\ k - 1 = n)
    BY <1>3
  <2>2. CASE k \in 1..n
    BY <1>5, <2>2
  <2>3. CASE k = n + 1 /\ k - 1 = n
    BY <1>1, <1>6, <2>3
  <2>4. QED
    BY <2>1, <2>2, <2>3
<1>8. resumed /\ ~dirty => \A u \in Units : hash[u] = job.ver
  BY <1>1 DEF HashInv
<1> HIDE DEF c, n, d
<1>9. ~resumed' => \A k \in 1..Len(atts') : \A j \in 1..ChunkLen(job'.csize, k) :
            hash'[Read(job'.csize, k - 1) + j] = enc'[DataEnd(job'.csize, k - 1) + j].ver
  BY <1>1, <1>4, <1>7 DEF c
<1>10. resumed' /\ ~dirty' => \A u \in Units : hash'[u] = job'.ver
  BY <1>1, <1>8
<1>11. pc' # "write"
  BY <1>1
<1>12. QED
  BY <1>9, <1>10, <1>11 DEF HashInv, HashedAs

\* The metadata and the header go after and before the segments.
LEMMA FinishHash ==
  ASSUME IInv, HashInv, WriteMetadata \/ WriteHeader
  PROVE  HashInv'
<1> DEFINE d == DataEnd(job.csize, Len(atts))
<1>1. /\ pc \in {"meta", "header"} /\ pc' \in {"header", "remove"}
      /\ UNCHANGED <<job, resumed, atts, hash, dirty>>
  BY DEF WriteMetadata, WriteHeader, Goto, run
<1>2. pc \in AtWork
  BY <1>1 DEF AtWork
<1>3. enc \in Seq(Cell) /\ Len(enc) \in Nat /\ d \in Nat /\ d <= Len(enc) + 1
  BY <1>2, Reach
<1>4. \A q \in 2..(d - 1) : enc'[q] = enc[q]
  <2>1. CASE WriteMetadata
    <3> DEFINE m == Meta(atts, job.csize, hash)
    <3>1. enc' = Append(enc, m)
      BY <2>1 DEF WriteMetadata
    <3> HIDE DEF d, m
    <3>2. QED
      BY <1>3, <3>1
  <2>2. CASE WriteHeader
    <3>1. Header(Len(enc)) \in Cell /\ enc' = PutAt(enc, 1, Header(Len(enc)))
      BY <1>3, <2>2, CellTypes DEF WriteHeader
    <3> HIDE DEF d
    <3>2. 1 \in 1..(Len(enc) + 1) /\ \A q \in 2..(d - 1) : q \in 1..Len(enc) /\ q # 1
      BY <1>3
    <3>3. QED
      BY <1>3, <3>1, <3>2, PutAtFacts
  <2>3. QED
    BY <2>1, <2>2
<1>5. QED
  BY <1>1, <1>2, <1>4, OtherHash

\* The steps of a call up to its return.
LEMMA WorkerHash ==
  ASSUME IInv, Orderly, VersionInv, HashInv, Worker
  PROVE  HashInv'
<1>1. CASE NewChunk \/ SaveProgress
  <2>1. /\ pc \in {"chunk", "save"} /\ enc' = enc
        /\ UNCHANGED <<job, resumed, atts, hash, dirty>>
        /\ pc' = "write" => done' = 0
    BY <1>1 DEF NewChunk, SaveProgress, Goto, run
  <2>2. pc \in AtWork
    BY <2>1 DEF AtWork
  <2>3. QED
    BY <2>1, <2>2, OtherHash
<1>2. CASE Continue
  <2>1. /\ pc = "boundary" /\ pc' # "write"
        /\ enc' = enc \/ enc' = Flushed
        /\ UNCHANGED <<job, resumed, atts, hash, dirty>>
    BY <1>2 DEF Continue, run
  <2>2. pc \in AtWork
    BY <2>1 DEF AtWork
  <2>3. \A q \in 2..(DataEnd(job.csize, Len(atts)) - 1) : enc'[q] = enc[q]
    BY <2>1, <2>2, FlushKeeps
  <2>4. QED
    BY <2>1, <2>2, <2>3, OtherHash
<1>3. CASE Return
  <2>1. pc' = "idle"
    BY <1>3 DEF Return, Goto
  <2>2. QED
    BY <2>1 DEF HashInv
<1>4. QED
  BY <1>1, <1>2, <1>3, CollectHash, OpenHash, WriteBufferHash, WriteTagHash, FinishHash
  DEF Worker

\* A call starts with its hash pass, if it resumes, or with no segment.
LEMMA UserHash ==
  ASSUME HashInv, User
  PROVE  HashInv'
<1>1. ASSUME NEW j, NEW al, Start(j, al) PROVE HashInv'
  <2>1. /\ (resumed' <=> al # <<>>)
        /\ pc' = IF al # <<>> THEN "hash" ELSE "open"
    BY <1>1 DEF Start
  <2>2. pc' # "write" /\ (pc' = "hash" \/ (pc' = "open" /\ ~resumed'))
    BY <2>1
  <2>3. QED
    BY <2>2 DEF HashInv
<1>2. ASSUME NEW s \in Sources, EditSource(s) PROVE HashInv'
  <2>1. /\ UNCHANGED <<enc, pc, job, resumed, atts, done, hash>>
        /\ ~dirty' => ~dirty
    BY <1>2 DEF EditSource, run, chunk
  <2>2. QED
    BY <2>1 DEF HashInv, HashedAs
<1>3. QED
  BY <1>1, <1>2 DEF User, EncryptFile, StartFresh, StartDiscarding, StartResuming

-----------------------------------------------------------------------------
(* What is returned. *)

\* A container that is returned holds, of a source that was left alone, the
\* version the call took, and the hash agrees with its cells.
LEMMA ReturnHolds ==
  ASSUME IInv, VersionInv, HashInv, Return
  PROVE  ReturnedInv'
<1> DEFINE c == job.csize
           n == Len(atts)
<1>1. /\ pc = "remove" /\ UNCHANGED <<enc, job, resumed, atts, hash, dirty>>
  BY DEF Return, Goto, run
<1>2. pc \in AtWork
  BY <1>1 DEF AtWork
<1>3. ~More(c, n) /\ Covers(enc, c, atts) /\ AllMadeBy(job, atts)
  BY <1>1 DEF IInv, LayoutInv, StageInv, OriginInv
<1>4. /\ c \in Segments /\ n \in Nat /\ Len(enc) \in Nat /\ enc \in Seq(Cell)
      /\ DataEnd(c, n) \in Nat /\ DataEnd(c, n) <= Len(enc) + 1
  BY <1>2, Reach
<1>5. /\ job.ver \in Nat /\ job.ver <= ver[job.src]
      /\ ~dirty => job.ver = ver[job.src]
  BY <1>1, VersionTypes DEF IInv, VersionInv
<1>6. ASSUME ~dirty, NEW k \in 1..n, NEW j \in 1..ChunkLen(c, k)
      PROVE  enc[DataEnd(c, k - 1) + j].ver = job.ver
  <2> DEFINE q == DataEnd(c, k - 1) + j
  <2>1. enc[q].kind = "ct" /\ enc[q].att = atts[k]
    BY <1>3 DEF Covers, ChunkAt
  <2>2. atts[k].ver = job.ver /\ atts[k].src = job.src
    BY <1>3 DEF AllMadeBy, MadeBy
  <2>3. q \in 2..(DataEnd(c, n) - 1)
    <3> HIDE DEF c, n
    <3>1. QED
      BY <1>4, SegmentPlace
  <2> HIDE DEF q, c, n
  <2>4. q \in 1..Len(enc)
    BY <1>4, <2>3
  <2>5. enc[q].att.ver <= enc[q].ver /\ enc[q].ver <= ver[enc[q].att.src]
    BY <2>1, <2>4 DEF VersionInv, CellsBetween
  <2>6. enc[q].ver \in Nat
    <3>1. enc[q] \in Cell /\ Versions \subseteq Nat
      BY <1>4, <2>4, MaxVerAssumption DEF Versions
    <3>2. QED
      BY <2>1, <3>1 DEF Cell
  <2>7. job.ver <= enc[q].ver /\ enc[q].ver <= job.ver
    BY <1>5, <1>6, <2>1, <2>2, <2>5
  <2>8. enc[q].ver = job.ver
    BY <1>5, <2>6, <2>7
  <2>9. QED
    BY <2>8 DEF q
<1>7. ~dirty \/ ~resumed =>
        \A k \in 1..n : \A j \in 1..ChunkLen(c, k) :
            hash[Read(c, k - 1) + j] = enc[DataEnd(c, k - 1) + j].ver
  <2>1. CASE ~resumed
    BY <1>1, <2>1 DEF HashInv, HashedAs
  <2>2. CASE resumed /\ ~dirty
    <3> SUFFICES ASSUME NEW k \in 1..n, NEW j \in 1..ChunkLen(c, k)
                 PROVE  hash[Read(c, k - 1) + j] = enc[DataEnd(c, k - 1) + j].ver
      OBVIOUS
    <3>1. Read(c, k - 1) + j \in Units
      <4> HIDE DEF c, n
      <4>1. Read(c, k - 1) + j \in 1..Read(c, n)
        BY <1>4, SegmentPlace
      <4>2. QED
        BY <1>4, <4>1, ReadUnits
    <3>2. hash[Read(c, k - 1) + j] = job.ver
      BY <1>1, <2>2, <3>1 DEF HashInv
    <3>3. QED
      BY <1>6, <2>2, <3>2
  <2>3. QED
    BY <2>1, <2>2
<1>8. ~dirty => \A k \in 1..n : \A j \in 1..ChunkLen(c, k) :
                   enc[DataEnd(c, k - 1) + j].ver = job.ver
  BY <1>6
<1>9. QED
  BY <1>1, <1>3, <1>7, <1>8 DEF ReturnedInv, HashedAs

\* Nothing else returns one, and an edit after the return is not during the call.
LEMMA OtherReturned ==
  ASSUME IInv, ReturnedInv, [Next]_vars, ~Return
  PROVE  ReturnedInv'
<1>1. CASE Worker
  <2>1. pc # "idle" /\ sealed' = sealed
    BY <1>1 DEF Worker, CollectMetadata, Open, NewChunk, WriteBuffer, WriteTag, SaveProgress,
       Continue, WriteMetadata, WriteHeader, Goto
  <2>2. QED
    BY <2>1 DEF ReturnedInv, IInv, OriginInv
<1>2. CASE Faulty
  <2>1. pc # "idle" /\ sealed' = sealed
    BY <1>2 DEF Faulty, Cancel, ReadFails, SaveFails, RemoveFails, Kill, Unwind
  <2>2. QED
    BY <2>1 DEF ReturnedInv, IInv, OriginInv
<1>3. CASE \E s \in Sources, c \in Segments, k \in Keys : EncryptFile(s, c, k)
  <2>1. sealed' = None
    BY <1>3 DEF EncryptFile, StartFresh, StartDiscarding, StartResuming, Start
  <2>2. QED
    BY <2>1 DEF ReturnedInv
<1>4. CASE (\E s \in Sources : EditSource(s)) \/ UNCHANGED vars
  <2>1. /\ UNCHANGED <<enc, pc, job, resumed, atts, hash, sealed>>
        /\ pc = "idle" => dirty' = dirty
    <3>1. CASE UNCHANGED vars
      BY <3>1 DEF vars, run
    <3>2. ASSUME NEW s \in Sources, EditSource(s)
          PROVE  /\ UNCHANGED <<enc, pc, job, resumed, atts, hash, sealed>>
                 /\ pc = "idle" => (dirty' = (dirty \/ FALSE))
      BY <3>2 DEF EditSource, run
    <3>3. (dirty \/ FALSE) = dirty
      BY DEF IInv, TypeOK
    <3>4. QED
      BY <1>4, <3>1, <3>2, <3>3
  <2>2. CASE sealed = None
    BY <2>1, <2>2 DEF ReturnedInv
  <2>3. CASE sealed # None
    <3>1. pc = "idle"
      BY <2>3 DEF IInv, OriginInv
    <3>2. QED
      BY <2>1, <3>1 DEF ReturnedInv, HashedAs
  <2>4. QED
    BY <2>2, <2>3
<1>5. QED
  BY <1>1, <1>2, <1>3, <1>4 DEF Next, User

-----------------------------------------------------------------------------
(* The theorem. *)

LEMMA InitSource == Init => SourceInv
<1>1. Init => CellsBetween(enc, ver) /\ pc = "idle" /\ sealed = None
  BY DEF Init, CellsBetween
<1>2. QED
  BY <1>1 DEF SourceInv, VersionInv, HashInv, ReturnedInv

LEMMA VersionNext ==
  ASSUME TypeOK, OriginInv, VersionInv, [Next]_vars
  PROVE  VersionInv'
<1>1. CASE User
  BY <1>1, StartVersions, EditVersions DEF User
<1>2. CASE UNCHANGED vars
  BY <1>2 DEF vars, VersionInv, CellsBetween
<1>3. QED
  BY <1>1, <1>2, WorkerVersions, FaultyVersions DEF Next

LEMMA NextHash ==
  ASSUME IInv, Orderly, VersionInv, HashInv, [Next]_vars
  PROVE  HashInv'
<1>1. CASE Faulty
  <2>1. pc' = "idle"
    BY <1>1 DEF Faulty, Cancel, ReadFails, SaveFails, RemoveFails, Kill, Unwind
  <2>2. QED
    BY <2>1 DEF HashInv
<1>2. CASE UNCHANGED vars
  <2>1. UNCHANGED <<enc, pc, job, resumed, atts, done, hash, dirty>>
    BY <1>2 DEF vars, run, chunk
  <2>2. QED
    BY <2>1 DEF HashInv, HashedAs
<1>3. QED
  BY <1>1, <1>2, WorkerHash, UserHash DEF Next

LEMMA NextSource == Orderly /\ IInv /\ SourceInv /\ [Next]_vars => SourceInv'
<1> SUFFICES ASSUME Orderly, IInv, SourceInv, [Next]_vars PROVE SourceInv'
  OBVIOUS
<1>1. TypeOK /\ OriginInv /\ VersionInv /\ HashInv /\ ReturnedInv
  BY DEF IInv, SourceInv
<1>2. VersionInv'
  BY <1>1, VersionNext
<1>3. HashInv'
  BY <1>1, NextHash
<1>4. ReturnedInv'
  BY <1>1, ReturnHolds, OtherReturned
<1>5. QED
  BY <1>2, <1>3, <1>4 DEF SourceInv

\* When no segment is left, all of the source has been read.
LEMMA ReadAll ==
  ASSUME NEW c \in Segments, NEW n \in Nat, ~More(c, n)
  PROVE  Read(c, n) = Size
<1>1. n * c \in Nat /\ Size \in Nat
  BY SegmentsAssumption, SizeAssumption
<1>2. QED
  BY <1>1 DEF More, Read, Smaller

\* What makes a container open: its layout, and the hash of its cells.
LEMMA OpensWhen ==
  ASSUME NEW j \in Job, atts \in Seq(Attempt),
         Covers(enc, j.csize, atts), AllMadeBy(j, atts),
         enc[1] = Header(Len(enc)), Len(enc) > 1,
         Footer(enc) = Meta(atts, j.csize, hash),
         ~More(j.csize, Len(atts)),
         \A k \in 1..Len(atts) : \A i \in 1..ChunkLen(j.csize, k) :
            hash[Read(j.csize, k - 1) + i] = enc[DataEnd(j.csize, k - 1) + i].ver
  PROVE  Opens(enc, j.key) /\ HashAgrees(enc)
<1>1. /\ Footer(enc).atts = atts /\ Footer(enc).csize = j.csize
      /\ Footer(enc).hash = hash /\ Footer(enc).kind = "meta"
  BY DEF Meta
<1>2. Authentic(enc, j.key)
  BY <1>1 DEF Authentic, Finished, Footer, AllMadeBy, MadeBy
<1>3. HashAgrees(enc)
  <2>1. ASSUME NEW k \in 1..Len(atts), NEW i \in 1..ChunkLen(j.csize, k)
        PROVE  hash[enc[DataEnd(j.csize, k - 1) + i].unit]
                 = enc[DataEnd(j.csize, k - 1) + i].ver
    <3>1. enc[DataEnd(j.csize, k - 1) + i].unit = Read(j.csize, k - 1) + i
      BY DEF Covers, ChunkAt
    <3>2. QED
      BY <3>1
  <2>2. Read(j.csize, Len(atts)) = Size /\ \A u \in Units : ~(u > Size)
    <3>1. j.csize \in Segments /\ Len(atts) \in Nat
      BY DEF Job
    <3>2. QED
      BY <3>1, ReadAll, SizeAssumption DEF Units
  <2>3. QED
    BY <1>1, <2>1, <2>2 DEF HashAgrees
<1>4. QED
  BY <1>2, <1>3 DEF Opens

\* A returned container opens unless its source was edited under a call that
\* resumed.
LEMMA HeldOpens ==
  ASSUME IInv, SourceInv, sealed # None, ~dirty \/ ~resumed
  PROVE  Opens(enc, sealed.key) /\ HashAgrees(enc)
<1>1. /\ sealed = job /\ AllMadeBy(job, atts) /\ Len(enc) > 1
      /\ Footer(enc) = Meta(atts, job.csize, hash)
  BY DEF IInv, OriginInv
<1>2. enc[1] = Header(Len(enc)) /\ Covers(enc, job.csize, atts)
  BY DEF IInv, LayoutInv, SealedInv
<1>3. /\ ~More(job.csize, Len(atts))
      /\ \A k \in 1..Len(atts) : \A i \in 1..ChunkLen(job.csize, k) :
            hash[Read(job.csize, k - 1) + i] = enc[DataEnd(job.csize, k - 1) + i].ver
  BY DEF SourceInv, ReturnedInv, HashedAs
<1>4. job \in Job
  BY <1>1 DEF IInv, TypeOK
<1>5. QED
  BY <1>1, <1>2, <1>3, <1>4, OpensWhen DEF IInv, TypeOK

\* In the orderly setting, whatever calls are cancelled, fail or die and are
\* resumed, a container that encrypt_file returns opens under the key given,
\* hash comparison included, unless the source was edited under a resumed call.
THEOREM SealedOpensCorrect ==
  ASSUME Orderly
  PROVE  Spec => []SealedOpens
<1>1. IInv /\ SourceInv => SealedOpens
  BY HeldOpens DEF SealedOpens
<1>2. Spec => [](IInv /\ SourceInv)
  BY InitLayout, NextLayout, InitSource, NextSource, PTL DEF Spec
<1>3. QED
  BY <1>1, <1>2, PTL

\* In the orderly setting, a container that encrypt_file returns after calls
\* that were cancelled, failed or died and were resumed, with the source edited
\* between them, holds exactly the version the last call took if the source was
\* left alone during that call, and decrypt_file's hash check passes; it passes
\* whatever was edited when that call did not resume.
THEOREM SealedIsSourceCorrect ==
  ASSUME Orderly
  PROVE  Spec => []SealedIsSource
<1>1. IInv /\ SourceInv => SealedIsSource
  <2> SUFFICES ASSUME IInv, SourceInv, sealed # None
               PROVE  /\ ~dirty \/ ~resumed => HashAgrees(enc)
                      /\ ~dirty => \A k \in 1..Len(atts) :
                           \A j \in 1..ChunkLen(sealed.csize, k) :
                             enc[DataEnd(sealed.csize, k - 1) + j].ver = sealed.ver
    BY DEF SealedIsSource
  <2>1. sealed = job
    BY DEF IInv, OriginInv
  <2>2. QED
    BY <2>1, HeldOpens DEF SourceInv, ReturnedInv
<1>2. Spec => [](IInv /\ SourceInv)
  BY InitLayout, NextLayout, InitSource, NextSource, PTL DEF Spec
<1>3. QED
  BY <1>1, <1>2, PTL

-----------------------------------------------------------------------------
(***************************************************************************)
(* The promise of encrypt_file.  A call works for the abstract one that    *)
(* began with it, and every step but its end is a stutter of it; when it   *)
(* returns, the cells of the segments are the units of the source, and the *)
(* versions they were read at lie between the one the call bound and the   *)
(* one the source is at.                                                   *)
(***************************************************************************)

\* The metadata is not written before the last segment.
NoneLeft == pc \in {"meta", "header", "remove"} => ~More(job.csize, Len(atts))

\* What the refinement needs: LayoutInv and HashInv only for a container to open.
PromiseInv == TypeOK /\ OriginInv /\ VersionInv /\ NoneLeft
              /\ (Orderly => LayoutInv /\ HashInv)

\* A unit that was read is in one of the segments, and CellOf is its cell there.
LEMMA UnitPlace ==
  ASSUME NEW c \in Segments, NEW n \in Nat, NEW u \in 1..Read(c, n)
  PROVE  \E k \in 1..n : \E j \in 1..ChunkLen(c, k) :
           u = Read(c, k - 1) + j /\ CellOf(c, u) = DataEnd(c, k - 1) + j
<1> DEFINE q == (u - 1) \div c
<1>1. c \in Nat \ {0} /\ Size \in Nat /\ n * c \in Nat
  BY SegmentsAssumption, SizeAssumption
<1>2. u \in Nat /\ u >= 1 /\ u <= n * c /\ u <= Size
  BY <1>1 DEF Read, Smaller
<1>3. q \in Nat /\ q * c \in Nat /\ q * c <= u - 1 /\ u - 1 < q * c + c
  <2>1. u - 1 \in Nat
    BY <1>2
  <2>2. q \in Nat /\ u - 1 = c * q + ((u - 1) % c) /\ (u - 1) % c \in 0..(c - 1)
    BY <1>1, <2>1
  <2> HIDE DEF q
  <2>3. c * q = q * c /\ q * c \in Nat
    BY <1>1, <2>2
  <2>4. QED
    BY <1>1, <1>2, <2>2, <2>3
<1>4. CellOf(c, u) = 1 + u + q
  BY DEF CellOf
<1> HIDE DEF q
<1>5. q < n
  <2> SUFFICES ASSUME n <= q PROVE FALSE
    BY <1>3
  <2>1. q * c = n * c + (q - n) * c /\ (q - n) * c >= 0
    BY <1>1, <1>3
  <2>2. QED
    BY <1>1, <1>2, <1>3, <2>1
<1>6. Read(c, q) = q * c
  BY <1>1, <1>2, <1>3 DEF Read, Smaller
<1> DEFINE k == q + 1
           j == u - q * c
<1>7. k \in 1..n /\ k - 1 = q
  BY <1>3, <1>5
<1>8. k * c = q * c + c
  BY <1>1, <1>3
<1>9. Read(c, k) >= u /\ Read(c, k) \in Nat
  BY <1>1, <1>2, <1>3, <1>8 DEF Read, Smaller
<1>10. j \in 1..ChunkLen(c, k)
  BY <1>2, <1>3, <1>6, <1>7, <1>9 DEF ChunkLen
<1>11. u = Read(c, k - 1) + j
  BY <1>2, <1>3, <1>6, <1>7
<1>12. CellOf(c, u) = DataEnd(c, k - 1) + j
  BY <1>2, <1>3, <1>4, <1>6, <1>7 DEF DataEnd
<1>13. QED
  BY <1>7, <1>10, <1>11, <1>12

\* If the container that a call returns opens, its text is that of the source
\* at the time of the call, in any setting.
LEMMA OpenedText ==
  ASSUME TypeOK, OriginInv, VersionInv, NoneLeft, pc = "remove", Opens(enc, job.key)
  PROVE  Decrypted(enc) \in Promise!Texts(job.src, job.ver)
<1> DEFINE c == job.csize
           n == Len(atts)
<1>1. ~More(c, n) /\ AllMadeBy(job, atts) /\ Footer(enc) = Meta(atts, c, hash)
  BY DEF OriginInv, NoneLeft
<1>2. Footer(enc).atts = atts /\ Footer(enc).csize = c
  BY <1>1 DEF Meta
<1>3. Covers(enc, c, atts)
  BY <1>2 DEF Opens, Authentic
<1>4. c \in Segments /\ n \in Nat /\ Len(enc) \in Nat /\ enc \in Seq(Cell)
  BY DEF TypeOK, Job
<1>5. Read(c, n) = Size
  <2> HIDE DEF c, n
  <2>1. QED
    BY <1>1, <1>4, ReadAll
<1>6. ASSUME NEW u \in Units
      PROVE  /\ enc[CellOf(c, u)].att.src = job.src
             /\ enc[CellOf(c, u)].unit = u
             /\ enc[CellOf(c, u)].ver \in job.ver..ver[job.src]
  <2>1. PICK k \in 1..n : \E j \in 1..ChunkLen(c, k) :
           u = Read(c, k - 1) + j /\ CellOf(c, u) = DataEnd(c, k - 1) + j
    <3> HIDE DEF c, n
    <3>1. QED
      BY <1>4, <1>5, UnitPlace DEF Units
  <2>2. PICK j \in 1..ChunkLen(c, k) :
           u = Read(c, k - 1) + j /\ CellOf(c, u) = DataEnd(c, k - 1) + j
    BY <2>1
  <2> DEFINE p == DataEnd(c, k - 1) + j
  <2>3. /\ enc[p].kind = "ct" /\ enc[p].att = atts[k] /\ enc[p].unit = u
        /\ DataEnd(c, k) <= Len(enc)
    BY <1>3, <2>2 DEF Covers, ChunkAt
  <2>4. atts[k].ver = job.ver /\ atts[k].src = job.src
    BY <1>1 DEF AllMadeBy, MadeBy
  <2>5. p \in 2..(DataEnd(c, k) - 1) /\ DataEnd(c, k) \in Nat
    <3> HIDE DEF c, n
    <3>1. k \in Nat /\ k \in 1..k
      BY <1>4
    <3>2. QED
      BY <1>4, <3>1, SegmentPlace, LayoutType DEF DataEnd
  <2>6. CellOf(c, u) = p
    BY <2>2
  <2> HIDE DEF p, c, n
  <2>7. p \in 1..Len(enc)
    BY <1>4, <2>3, <2>5
  <2>8. enc[p].att.ver <= enc[p].ver /\ enc[p].ver <= ver[enc[p].att.src]
    BY <2>3, <2>7 DEF VersionInv, CellsBetween
  <2>9. enc[p].ver \in Nat
    <3>1. enc[p] \in Cell /\ Versions \subseteq Nat
      BY <1>4, <2>7, MaxVerAssumption DEF Versions
    <3>2. QED
      BY <2>3, <3>1 DEF Cell
  <2>10. job.ver \in Nat /\ ver[job.src] \in Nat
    BY VersionTypes
  <2>11. enc[p].ver \in job.ver..ver[job.src]
    BY <2>3, <2>4, <2>8, <2>9, <2>10
  <2>12. QED
    BY <2>3, <2>4, <2>6, <2>11
<1> DEFINE w == [u \in Units |-> enc[CellOf(c, u)].ver]
<1>7. w \in [Units -> job.ver..ver[job.src]]
  BY <1>6
<1>8. Decrypted(enc) = Promise!Text(job.src, w)
  <2>1. Decrypted(enc) = [u \in Units |-> LET x == enc[CellOf(c, u)]
                                          IN  [src |-> x.att.src, unit |-> x.unit, ver |-> x.ver]]
    BY <1>2, <1>5 DEF Decrypted, Units
  <2>2. \A u \in Units : [src |-> enc[CellOf(c, u)].att.src, unit |-> enc[CellOf(c, u)].unit,
                          ver |-> enc[CellOf(c, u)].ver]
                         = [src |-> job.src, unit |-> u, ver |-> w[u]]
    BY <1>6
  <2> HIDE DEF w, c
  <2>3. QED
    BY <2>1, <2>2 DEF Promise!Text
<1>9. QED
  BY <1>7, <1>8 DEF Promise!Texts

\* In the orderly setting it opens, unless the call resumed and its source was
\* edited meanwhile.
LEMMA ReturnOpens ==
  ASSUME IInv, VersionInv, HashInv, pc = "remove", ~dirty \/ ~resumed, Return
  PROVE  Opens(enc, job.key)
<1>1. /\ Covers(enc, job.csize, atts) /\ AllMadeBy(job, atts)
      /\ enc[1] = Header(Len(enc)) /\ Len(enc) > 1
      /\ Footer(enc) = Meta(atts, job.csize, hash)
  BY DEF IInv, LayoutInv, StageInv, OriginInv
<1>2. sealed' # None /\ UNCHANGED <<enc, job, resumed, atts, hash, dirty>>
  <2>1. job \in Job
    BY DEF IInv, TypeOK
  <2>2. QED
    BY <2>1, NoneAssumption DEF Return, run
<1>3. ReturnedInv'
  BY ReturnHolds
<1>4. /\ ~More(job.csize, Len(atts))
      /\ \A k \in 1..Len(atts) : HashedAs(k - 1, ChunkLen(job.csize, k))
  BY <1>2, <1>3 DEF ReturnedInv, HashedAs, More, ChunkLen, DataEnd, Read, Smaller
<1>5. QED
  <2>1. job \in Job
    BY DEF IInv, TypeOK
  <2>2. QED
    BY <1>1, <1>4, <2>1, OpensWhen DEF HashedAs, IInv, TypeOK

\* The state functions that stand for the abstract variables.
Call == IF pc = "idle" THEN None
        ELSE [src |-> job.src, key |-> job.key, from |-> job.ver, resumes |-> resumed]
Holds == IF sealed = None THEN None
         ELSE [key |-> sealed.key,
               text |-> IF Opens(enc, sealed.key) THEN Decrypted(enc) ELSE None]

\* What the abstract steps are in terms of them.
LEMMA PromiseSteps ==
  /\ Promise!vars = <<ver, Call, Holds>>
  /\ Promise!Init <=> ver = [s \in Sources |-> 1] /\ Call = None /\ Holds = None
  /\ \A s \in Sources, k \in Keys :
       Promise!Begin(s, k) <=> /\ Call = None
                               /\ \E r \in BOOLEAN : Call' = [src |-> s, key |-> k, from |-> ver[s],
                                                              resumes |-> r]
                               /\ Holds' = None /\ ver' = ver
  /\ \A s \in Sources :
       Promise!Edit(s) <=> /\ ver' = [ver EXCEPT ![s] = @ + 1]
                           /\ Call' = Call /\ Holds' = Holds
  /\ Promise!GiveUp <=> Call # None /\ Call' = None /\ ver' = ver /\ Holds' = Holds
  /\ Promise!Seal <=> /\ Call # None /\ Call' = None /\ ver' = ver
                      /\ \E t \in Promise!Texts(Call.src, Call.from)
                                   \cup (IF \/ ~Orderly
                                            \/ Call.resumes /\ ver[Call.src] # Call.from
                                         THEN {None} ELSE {}) :
                           Holds' = [key |-> Call.key, text |-> t]
BY DEF Promise!vars, Promise!Init, Promise!Begin, Promise!Edit, Promise!GiveUp,
   Promise!Seal, Promise!Refusable, Call, Holds

\* A call runs for the abstract system while it is not idle, with the
\* parameters and the binding it began with.
LEMMA CallRuns ==
  ASSUME TypeOK, pc # "idle"
  PROVE  /\ Call # None
         /\ Call.src = job.src /\ Call.key = job.key /\ Call.from = job.ver
         /\ Call.resumes = resumed
<1>1. job \in Job
  BY DEF TypeOK
<1>2. Call = [src |-> job.src, key |-> job.key, from |-> job.ver, resumes |-> resumed]
  BY DEF Call
<1>3. Call \in [src: Sources, key: Keys, from: Versions, resumes: BOOLEAN]
  BY <1>1, <1>2 DEF Job, TypeOK
<1>4. QED
  BY <1>2, <1>3, CallsAssumption

\* What leaves the container and its result alone leaves what is held alone.
LEMMA HoldsSame ==
  ASSUME \/ UNCHANGED <<enc, sealed>>
         \/ sealed = None /\ sealed' = None
  PROVE  Holds' = Holds
<1>1. CASE UNCHANGED <<enc, sealed>>
  BY <1>1 DEF Holds, Opens, Authentic, HashAgrees, Decrypted, Finished, Covers, ChunkAt, Footer, CellOf,
     DataEnd, ChunkLen, Read, Smaller, Header, Tag
<1>2. CASE sealed = None /\ sealed' = None
  BY <1>2 DEF Holds
<1>3. QED
  BY <1>1, <1>2

\* The steps of a call before it returns are no steps of the promise.
LEMMA WorkingStutters ==
  ASSUME OriginInv, Worker, ~Return
  PROVE  UNCHANGED Promise!vars
<1>1. pc # "idle" /\ pc' # "idle" /\ UNCHANGED <<ver, job, resumed, sealed>>
  BY DEF Worker, CollectMetadata, Open, NewChunk, WriteBuffer, WriteTag, SaveProgress,
     Continue, WriteMetadata, WriteHeader, Goto, run
<1>2. sealed = None
  BY <1>1 DEF OriginInv
<1>3. Holds' = Holds
  BY <1>1, <1>2, HoldsSame
<1>4. Call' = Call
  BY <1>1 DEF Call
<1>5. QED
  BY <1>1, <1>3, <1>4, PromiseSteps DEF Promise!vars, Call, Holds

\* The return seals.
LEMMA ReturnSeals ==
  ASSUME PromiseInv, Return
  PROVE  Promise!Seal
<1>1. pc = "remove" /\ pc' = "idle" /\ sealed' = job /\ UNCHANGED <<enc, ver, job>>
  BY DEF Return, Goto, run
<1>2. /\ Call # None
      /\ Call.src = job.src /\ Call.key = job.key /\ Call.from = job.ver
      /\ Call.resumes = resumed
  BY <1>1, CallRuns DEF PromiseInv
<1>3. Call' = None
  BY <1>1 DEF Call
<1>4. sealed' # None /\ sealed'.key = job.key
  <2>1. job \in Job
    BY <1>1 DEF PromiseInv, TypeOK
  <2>2. QED
    BY <1>1, <2>1, NoneAssumption
<1> DEFINE t == IF Opens(enc, job.key) THEN Decrypted(enc) ELSE None
<1>5. Holds' = [key |-> job.key, text |-> t]
  <2>1. Holds' = [key |-> sealed'.key,
                  text |-> IF Opens(enc', sealed'.key) THEN Decrypted(enc') ELSE None]
    BY <1>4 DEF Holds, Opens, Authentic, HashAgrees, Decrypted, Finished, Covers, ChunkAt, Footer, CellOf,
       DataEnd, ChunkLen, Read, Smaller, Header, Tag
  <2>2. QED
    BY <1>1, <1>4, <2>1
<1>6. t \in Promise!Texts(job.src, job.ver)
           \cup (IF ~Orderly \/ (resumed /\ ver[job.src] # job.ver) THEN {None} ELSE {})
  <2>1. CASE Opens(enc, job.key)
    BY <1>1, <2>1, OpenedText DEF PromiseInv
  <2>2. CASE ~Opens(enc, job.key)
    <3>1. CASE ~Orderly
      BY <2>2, <3>1
    <3>2. CASE Orderly
      <4>1. ~(~dirty \/ ~resumed)
        BY <1>1, <2>2, <3>2, ReturnOpens DEF PromiseInv, IInv
      <4>2. resumed /\ dirty
        BY <4>1
      <4>3. job.ver # ver[job.src]
        BY <1>1, <4>2 DEF PromiseInv, VersionInv
      <4>4. QED
        BY <2>2, <4>2, <4>3
    <3>3. QED
      BY <3>1, <3>2
  <2>3. QED
    BY <2>1, <2>2
<1> HIDE DEF t
<1>7. QED
  BY <1>1, <1>2, <1>3, <1>5, <1>6, PromiseSteps

\* A call that is cancelled, fails or dies is given up.
LEMMA FaultyGivesUp ==
  ASSUME TypeOK, OriginInv, Faulty
  PROVE  Promise!GiveUp
<1>1. pc # "idle" /\ pc' = "idle" /\ UNCHANGED <<ver, sealed>>
  BY DEF Faulty, Cancel, ReadFails, SaveFails, RemoveFails, Kill, Unwind
<1>2. sealed = None
  BY <1>1 DEF OriginInv
<1>3. Call # None /\ Call' = None
  BY <1>1, CallRuns DEF Call
<1>4. Holds' = Holds
  BY <1>1, <1>2, HoldsSame
<1>5. QED
  BY <1>1, <1>3, <1>4, PromiseSteps

\* A start begins a call, whether it resumes or not, and an edit is one.
LEMMA UserSteps ==
  ASSUME User
  PROVE  Promise!Next
<1>1. CASE \E s \in Sources, c \in Segments, k \in Keys : EncryptFile(s, c, k)
  <2>1. PICK s \in Sources, c \in Segments, k \in Keys : EncryptFile(s, c, k)
    BY <1>1
  <2> DEFINE j == [src |-> s, csize |-> c, key |-> k, ver |-> ver[s]]
  <2>2. /\ pc = "idle" /\ pc' # "idle" /\ job' = j /\ sealed' = None /\ ver' = ver
    BY <2>1 DEF EncryptFile, StartFresh, StartDiscarding, StartResuming, Start
  <2>3. Call = None /\ Holds' = None
    BY <2>2 DEF Call, Holds
  <2>4. \E r \in BOOLEAN : Call' = [src |-> s, key |-> k, from |-> ver[s], resumes |-> r]
    <3>1. resumed' \in BOOLEAN
      BY <2>1 DEF EncryptFile, StartFresh, StartDiscarding, StartResuming, Start
    <3>2. Call' = [src |-> s, key |-> k, from |-> ver[s], resumes |-> resumed']
      BY <2>2 DEF Call
    <3>3. QED
      BY <3>1, <3>2
  <2>5. Promise!Begin(s, k)
    BY <2>2, <2>3, <2>4, PromiseSteps
  <2>6. QED
    BY <2>5 DEF Promise!Next
<1>2. CASE \E s \in Sources : EditSource(s)
  <2>1. PICK s \in Sources : EditSource(s)
    BY <1>2
  <2>2. /\ ver' = [ver EXCEPT ![s] = @ + 1]
        /\ UNCHANGED <<enc, pc, job, resumed, sealed>>
    BY <2>1 DEF EditSource, run
  <2>3. Call' = Call /\ Holds' = Holds
    BY <2>2, HoldsSame DEF Call
  <2>4. Promise!Edit(s)
    BY <2>2, <2>3, PromiseSteps
  <2>5. QED
    BY <2>4 DEF Promise!Next
<1>3. QED
  BY <1>1, <1>2 DEF User

LEMMA PromiseInit == Init => Promise!Init
BY PromiseSteps DEF Init, Call, Holds

LEMMA NoneLeftNext ==
  ASSUME TypeOK, NoneLeft, [Next]_vars
  PROVE  NoneLeft'
<1>1. CASE UNCHANGED vars
  BY <1>1 DEF vars, run, NoneLeft, More
<1>2. CASE Worker
  BY <1>2 DEF Worker, CollectMetadata, Open, NewChunk, WriteBuffer, WriteTag, SaveProgress,
     Continue, WriteMetadata, WriteHeader, Return, Goto, run, NoneLeft, More
<1>3. CASE Faulty
  BY <1>3 DEF Faulty, Cancel, ReadFails, SaveFails, RemoveFails, Kill, Unwind, NoneLeft
<1>4. CASE \E s \in Sources, c \in Segments, k \in Keys : EncryptFile(s, c, k)
  BY <1>4 DEF EncryptFile, StartFresh, StartDiscarding, StartResuming, Start, NoneLeft
<1>5. CASE \E s \in Sources : EditSource(s)
  BY <1>5 DEF EditSource, run, NoneLeft, More
<1>6. QED
  BY <1>1, <1>2, <1>3, <1>4, <1>5 DEF Next, User

LEMMA InitPromiseInv == Init => PromiseInv
<1>1. Init => TypeOK /\ OriginInv /\ LayoutInv
  BY InitLayout DEF IInv
<1>2. Init => VersionInv /\ HashInv
  BY InitSource DEF SourceInv
<1>3. Init => NoneLeft
  BY DEF Init, NoneLeft
<1>4. QED
  BY <1>1, <1>2, <1>3 DEF PromiseInv

LEMMA NextPromiseInv == PromiseInv /\ [Next]_vars => PromiseInv'
<1> SUFFICES ASSUME PromiseInv, [Next]_vars PROVE PromiseInv'
  OBVIOUS
<1>1. TypeOK /\ OriginInv /\ VersionInv /\ NoneLeft
  BY DEF PromiseInv
<1>2. TypeOK' /\ OriginInv'
  BY <1>1, NextType
<1>3. VersionInv'
  BY <1>1, VersionNext
<1>4. NoneLeft'
  BY <1>1, NoneLeftNext
<1>5. Orderly => LayoutInv' /\ HashInv'
  BY <1>1, NextLayout, NextHash DEF PromiseInv, IInv
<1>6. QED
  BY <1>2, <1>3, <1>4, <1>5 DEF PromiseInv, Orderly

LEMMA PromiseNext ==
  PromiseInv /\ [Next]_vars => [Promise!Next]_(Promise!vars)
<1> SUFFICES ASSUME PromiseInv, [Next]_vars PROVE [Promise!Next]_(Promise!vars)
  OBVIOUS
<1>1. CASE UNCHANGED vars
  <2>1. UNCHANGED <<enc, ver, pc, job, resumed, sealed>>
    BY <1>1 DEF vars, run
  <2>2. Call' = Call /\ Holds' = Holds
    BY <2>1, HoldsSame DEF Call
  <2>3. QED
    BY <2>1, <2>2 DEF Promise!vars, Call, Holds
<1>2. CASE Worker
  BY <1>2, WorkingStutters, ReturnSeals DEF PromiseInv, Promise!Next
<1>3. CASE Faulty
  BY <1>3, FaultyGivesUp DEF PromiseInv, Promise!Next
<1>4. CASE User
  BY <1>4, UserSteps
<1>5. QED
  BY <1>1, <1>2, <1>3, <1>4 DEF Next

\* encrypt_file implements its promise, with any segment sizes and faults:
\* whatever calls were cut short before, with whatever keys and versions, a call
\* that returns leaves a container whose plaintext is the whole source, under
\* the key of the call and of versions the source had during it, even if it was
\* edited then.  In the orderly setting it opens (every tag and the hash) unless
\* the call resumed and the source was edited while it ran; where it does not
\* open it is refused and never gives another text.
THEOREM SealsSourceCorrect == Spec => SealsSource
BY InitPromiseInv, NextPromiseInv, PromiseInit, PromiseNext, PTL DEF Spec, SealsSource, Promise!Spec

-----------------------------------------------------------------------------
(***************************************************************************)
(* Why a call comes to its end: every step of the worker lowers Rank, which *)
(* nothing else raises while the call runs.                                *)
(***************************************************************************)

\* Units of the source that are in no finished segment yet.
Left == Size - Read(job.csize, Len(atts))

\* A finished segment outweighs the steps of the next one, the first segment
\* even if the source is empty.
Rank ==
  CASE pc = "idle"   -> 0
    [] pc = "remove" -> 1
    [] pc = "header" -> 2
    [] pc = "meta"   -> 3
    [] OTHER -> 10 * Left + (IF atts = <<>> THEN 20 ELSE 0) +
                (CASE pc = "hash"     -> 10
                   [] pc = "open"     -> 9
                   [] pc = "chunk"    -> 8
                   [] pc = "write"    -> 7 - done
                   [] pc = "save"     -> 10
                   [] pc = "boundary" -> 9)

\* A segment is begun only where there is one, and not written beyond its end.
WithinSegment ==
  /\ pc \in {"chunk", "write"} => More(job.csize, Len(atts))
  /\ pc = "write" => done <= ChunkLen(job.csize, Len(atts) + 1)
  /\ pc = "boundary" => atts # <<>>
  /\ pc = "save" => atts # <<>>

LEMMA WithinNext ==
  ASSUME TypeOK, WithinSegment, [Next]_vars
  PROVE  WithinSegment'
<1>1. CASE UNCHANGED vars
  BY <1>1 DEF vars, run, chunk, WithinSegment, More, ChunkLen, Read
<1>2. CASE Worker
  <2>1. CASE NewChunk
    <3>1. job \in Job /\ Len(atts) \in Nat
      BY <2>1 DEF NewChunk, Goto, TypeOK
    <3>2. ChunkLen(job.csize, Len(atts) + 1) >= 0
      BY <3>1, LayoutStep DEF Job
    <3>3. QED
      BY <2>1, <3>2 DEF NewChunk, Goto, run, WithinSegment, More, ChunkLen, Read
  <2>2. CASE WriteBuffer
    <3>1. job \in Job /\ Len(atts) \in Nat /\ done \in Nat
      BY <2>2 DEF WriteBuffer, TypeOK
    <3>2. ChunkLen(job.csize, Len(atts) + 1) \in Nat
      BY <3>1, LayoutStep DEF Job
    <3>3. done + 1 <= ChunkLen(job.csize, Len(atts) + 1)
      BY <2>2, <3>1, <3>2 DEF WriteBuffer
    <3>4. QED
      BY <2>2, <3>3 DEF WriteBuffer, run, WithinSegment, More, ChunkLen, Read
  <2>3. CASE WriteTag
    BY <2>3 DEF WriteTag, Goto, WithinSegment, TypeOK
  <2>4. CASE Open \/ Continue
    BY <2>4 DEF Open, Continue, Goto, run, WithinSegment, More, ChunkLen, Read
  <2>5. CASE CollectMetadata \/ SaveProgress \/ WriteMetadata \/ WriteHeader \/ Return
    BY <2>5 DEF CollectMetadata, SaveProgress, WriteMetadata, WriteHeader, Return, Goto,
       WithinSegment
  <2>6. QED
    BY <1>2, <2>1, <2>2, <2>3, <2>4, <2>5 DEF Worker
<1>3. CASE Faulty
  BY <1>3 DEF Faulty, Cancel, ReadFails, SaveFails, RemoveFails, Kill, Unwind, WithinSegment
<1>4. CASE \E s \in Sources, c \in Segments, k \in Keys : EncryptFile(s, c, k)
  BY <1>4 DEF EncryptFile, StartFresh, StartDiscarding, StartResuming, Start, WithinSegment
<1>5. CASE \E s \in Sources : EditSource(s)
  BY <1>5 DEF EditSource, run, chunk, WithinSegment, More, ChunkLen, Read
<1>6. QED
  BY <1>1, <1>2, <1>3, <1>4, <1>5 DEF Next, User

\* What a segment takes off what is left, and that more than nothing if it is
\* not the first.
LEMMA LeftFacts ==
  ASSUME NEW c \in Segments, NEW n \in Nat
  PROVE  /\ Size - Read(c, n) \in Nat
         /\ ChunkLen(c, n + 1) \in Nat
         /\ Size - Read(c, n + 1) = (Size - Read(c, n)) - ChunkLen(c, n + 1)
         /\ Size - Read(c, n + 1) \in Nat
         /\ More(c, n) /\ n # 0 => ChunkLen(c, n + 1) >= 1
<1>1. /\ c \in Nat \ {0} /\ Size \in Nat /\ n * c \in Nat /\ (n + 1) * c \in Nat
      /\ (n + 1) * c = n * c + c
  BY SegmentsAssumption, SizeAssumption
<1>2. /\ Read(c, n) \in Nat /\ Read(c, n) <= Size
      /\ Read(c, n + 1) \in Nat /\ Read(c, n + 1) <= Size
  BY <1>1 DEF Read, Smaller
<1>3. ChunkLen(c, n + 1) = Read(c, n + 1) - Read(c, n) /\ ChunkLen(c, n + 1) \in Nat
  BY LayoutStep DEF ChunkLen
<1>4. More(c, n) /\ n # 0 => Read(c, n + 1) - Read(c, n) >= 1
  BY <1>1 DEF More, Read, Smaller
<1>5. QED
  BY <1>1, <1>2, <1>3, <1>4

LEMMA RankType ==
  ASSUME TypeOK, WithinSegment
  PROVE  Rank \in Nat
<1>1. CASE pc \in {"idle", "remove", "header", "meta"}
  BY <1>1 DEF Rank
<1>2. CASE pc \in {"hash", "open", "chunk", "write", "save", "boundary"}
  <2> DEFINE n == Len(atts)
             len == ChunkLen(job.csize, n + 1)
             extra == IF atts = <<>> THEN 20 ELSE 0
  <2>1. job \in Job /\ n \in Nat /\ done \in Nat
    BY <1>2 DEF TypeOK
  <2>2. /\ Left \in Nat /\ len \in Nat /\ Left - len \in Nat
    BY <2>1, LeftFacts DEF Left, Job
  <2>3. pc = "write" => done <= len
    BY DEF WithinSegment
  <2>4. extra \in Nat
    OBVIOUS
  <2>5. Rank = 10 * Left + extra + (CASE pc = "hash"     -> 10
                                      [] pc = "open"     -> 9
                                      [] pc = "chunk"    -> 8
                                      [] pc = "write"    -> 7 - done
                                      [] pc = "save"     -> 10
                                      [] pc = "boundary" -> 9)
    BY <1>2 DEF Rank
  <2> HIDE DEF len, extra, n
  <2>6. CASE pc = "write"
    BY <2>1, <2>2, <2>3, <2>4, <2>5, <2>6
  <2>7. CASE pc # "write"
    BY <1>2, <2>2, <2>4, <2>5, <2>7
  <2>8. QED
    BY <2>6, <2>7
<1>3. QED
  BY <1>1, <1>2 DEF TypeOK, Stages

\* The worker's steps, one after the other.
LEMMA WorkerRank ==
  ASSUME TypeOK, WithinSegment, Worker
  PROVE  Rank' < Rank
<1> DEFINE n == Len(atts)
           len == ChunkLen(job.csize, n + 1)
           extra == IF atts = <<>> THEN 20 ELSE 0
<1>1. pc # "idle" /\ job \in Job /\ n \in Nat /\ done \in Nat
  BY DEF TypeOK, Worker, CollectMetadata, Open, NewChunk, WriteBuffer, WriteTag,
     SaveProgress, Continue, WriteMetadata, WriteHeader, Return, Goto
<1>2. /\ Left \in Nat /\ len \in Nat /\ Left - len \in Nat
      /\ Size - Read(job.csize, n + 1) = Left - len
      /\ More(job.csize, n) /\ n # 0 => len >= 1
  BY <1>1, LeftFacts DEF Left, Job
<1>3. extra \in {0, 20}
  OBVIOUS
<1>4. CASE WriteMetadata \/ WriteHeader \/ Return
  BY <1>4 DEF WriteMetadata, WriteHeader, Return, Goto, Rank
<1>5. CASE WriteTag
  <2>1. /\ pc = "write" /\ pc' = "save" /\ done = len /\ atts' = Append(atts, cur)
        /\ job' = job
    BY <1>5 DEF WriteTag, Goto, run
  <2>2. Len(atts') = n + 1 /\ atts' # <<>>
    BY <2>1 DEF TypeOK
  <2>3. Left' = Left - len
    <3>1. Left' = Size - Read(job.csize, n + 1)
      BY <2>1, <2>2 DEF Left, Read, Smaller
    <3>2. QED
      BY <1>2, <3>1
  <2>4. Left' \in Nat
    BY <1>2, <2>3
  <2>5. Rank' = 10 * Left' + 10
    BY <2>1, <2>2, <2>4 DEF Rank
  <2>6. Rank = 10 * Left + extra + (7 - len)
    BY <2>1 DEF Rank
  <2>7. extra = 20 \/ len >= 1
    <3>1. n = 0 => atts = <<>>
      BY DEF TypeOK
    <3>2. QED
      BY <1>2, <2>1, <3>1 DEF WithinSegment
  <2> HIDE DEF n, len, extra
  <2>8. QED
    BY <1>2, <1>3, <2>3, <2>5, <2>6, <2>7
<1>6. CASE CollectMetadata \/ Open \/ NewChunk \/ WriteBuffer \/ SaveProgress \/ Continue
  <2>1. atts' = atts /\ job' = job
    BY <1>6 DEF CollectMetadata, Open, NewChunk, WriteBuffer, SaveProgress, Continue, run
  <2>2. Left' = Left
    BY <2>1 DEF Left, Read, Smaller
  <2> DEFINE base == 10 * Left + extra
  <2>3. base \in Nat
    BY <1>2, <1>3
  <2>4. CASE CollectMetadata
    <3>1. Rank = base + 10 /\ Rank' = base + 9
      BY <2>1, <2>2, <2>4 DEF CollectMetadata, Goto, Rank
    <3> HIDE DEF base
    <3>2. QED
      BY <2>3, <3>1
  <2>5. CASE Open
    <3>1. Rank = base + 9 /\ Rank' \in {base + 8, 3}
      BY <2>1, <2>2, <2>5 DEF Open, Goto, Rank
    <3> HIDE DEF base
    <3>2. QED
      BY <2>3, <3>1
  <2>6. CASE NewChunk
    <3>1. Rank = base + 8 /\ Rank' = base + (7 - 0)
      BY <2>1, <2>2, <2>6 DEF NewChunk, Goto, Rank
    <3> HIDE DEF base
    <3>2. QED
      BY <2>3, <3>1
  <2>7. CASE WriteBuffer
    <3>1. Rank = base + (7 - done) /\ Rank' = base + (7 - (done + 1))
      BY <2>1, <2>2, <2>7 DEF WriteBuffer, Rank
    <3> HIDE DEF base
    <3>2. QED
      BY <1>1, <2>3, <3>1
  <2>8. CASE SaveProgress
    <3>1. Rank = base + 10 /\ Rank' = base + 9
      BY <2>1, <2>2, <2>8 DEF SaveProgress, Goto, Rank
    <3> HIDE DEF base
    <3>2. QED
      BY <2>3, <3>1
  <2>9. CASE Continue
    <3>1. Rank = base + 9 /\ Rank' \in {base + 8, 3}
      BY <2>1, <2>2, <2>9 DEF Continue, Rank
    <3> HIDE DEF base
    <3>2. QED
      BY <2>3, <3>1
  <2>10. QED
    BY <1>6, <2>4, <2>5, <2>6, <2>7, <2>8, <2>9
<1>7. QED
  BY <1>4, <1>5, <1>6 DEF Worker

\* A call that runs gets nearer to its end with every step of the worker, and
\* by nothing that happens meanwhile further from it, whatever the interrupted
\* calls before it left (aes_gcm_encrypt.py, encrypt_file and its loops).
CallsEnd ==
  /\ [](Rank \in Nat)
  /\ [][/\ Worker => Rank' < Rank
        /\ pc # "idle" => Rank' <= Rank]_vars

\* The argument behind EventuallySeals for every size of the source and of the
\* segments: a call takes no more than Rank steps.
THEOREM CallsEndCorrect == Spec => CallsEnd
<1> DEFINE Inv == TypeOK /\ OriginInv /\ WithinSegment
           Ends == /\ Worker => Rank' < Rank
                   /\ pc # "idle" => Rank' <= Rank
<1>1. Init => Inv
  <2>1. Init => WithinSegment
    BY DEF Init, WithinSegment
  <2>2. QED
    BY <2>1, InitOrigin
<1>2. Inv /\ [Next]_vars => Inv'
  BY NextType, WithinNext
<1>3. Inv => Rank \in Nat
  BY RankType
<1>4. Inv /\ [Next]_vars /\ Rank \in Nat /\ (Rank \in Nat)' => [Ends]_vars
  <2> SUFFICES ASSUME Inv, [Next]_vars, Rank \in Nat, (Rank \in Nat)' PROVE [Ends]_vars
    OBVIOUS
  <2>1. Rank \in Nat /\ Rank' \in Nat
    OBVIOUS
  <2>2. CASE Worker
    BY <2>1, <2>2, WorkerRank
  <2>3. CASE pc' = "idle"
    <3>1. Rank' = 0
      BY <2>3 DEF Rank
    <3>2. QED
      BY <2>1, <2>2, <3>1
  <2>4. CASE pc = "idle"
    <3>1. ~Worker
      BY <2>4 DEF Worker, CollectMetadata, Open, NewChunk, WriteBuffer, WriteTag,
         SaveProgress, Continue, WriteMetadata, WriteHeader, Return, Goto
    <3>2. QED
      BY <2>4, <3>1
  <2>5. CASE \E s \in Sources : EditSource(s)
    <3>1. Rank' = Rank
      BY <2>5 DEF EditSource, run, chunk, Rank, Left, Read, Smaller
    <3>2. ~Worker
      <4>1. PICK s \in Sources : EditSource(s)
        BY <2>5
      <4>2. ver' # ver
        BY <4>1 DEF EditSource, TypeOK, Versions
      <4>3. QED
        BY <4>2 DEF Worker, CollectMetadata, Open, NewChunk, WriteBuffer, WriteTag,
           SaveProgress, Continue, WriteMetadata, WriteHeader, Return
    <3>3. QED
      BY <2>1, <3>1, <3>2
  <2>6. CASE UNCHANGED vars
    BY <2>6
  <2>7. Faulty => pc' = "idle"
    BY DEF Faulty, Cancel, ReadFails, SaveFails, RemoveFails, Kill, Unwind
  <2>8. (\E s \in Sources, c \in Segments, k \in Keys : EncryptFile(s, c, k)) => pc = "idle"
    BY DEF EncryptFile, StartFresh, StartDiscarding, StartResuming, Start
  <2>9. QED
    BY <2>2, <2>3, <2>4, <2>5, <2>6, <2>7, <2>8 DEF Next, User
<1>5. QED
  BY <1>1, <1>2, <1>3, <1>4, PTL DEF Spec, CallsEnd
=============================================================================
