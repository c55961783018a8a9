------------------------------ MODULE Container ------------------------------
(***************************************************************************)
(* The .enc container of desktop/crypto: how encrypt_file lays a sealed    *)
(* file out on disk and what decrypt_file requires of it.                  *)
(*                                                                         *)
(* A container is a sequence of cells; the empty sequence is a file that   *)
(* does not exist.  Cell 1 is the 8-byte offset header.  Each segment      *)
(* ("chunk" in the code) is followed by its GCM tag, and the JSON metadata *)
(* with its trailing size field is one cell at the end.  One "ct" cell is  *)
(* one _STREAM_BUFFER of ciphertext, so the source file is Size units      *)
(* long and a segment size is a number of units.                           *)
(*                                                                         *)
(* Cryptography is symbolic.  An attempt is the encryption of one segment  *)
(* under one fresh nonce: it identifies the GCM stream, hence the key, the *)
(* source and the stat() binding of the run that made it.  A tag verifies  *)
(* exactly the cells of its own attempt.                                   *)
(***************************************************************************)
EXTENDS Naturals, Sequences

CONSTANTS
  Size,      \* length of the source file, in stream buffers
  Segments,  \* the segment sizes a user may choose (chunk_size)
  Keys,      \* AES keys
  Sources,   \* source paths
  MaxVer,    \* versions (mtime_ns) a source goes through: bound
  Ids        \* nonces

ASSUME SizeAssumption == Size \in Nat
ASSUME SegmentsAssumption == Segments \subseteq Nat \ {0}
ASSUME MaxVerAssumption == MaxVer \in Nat \ {0}

Units == 1..Size
Versions == 1..MaxVer
Attempt == [id: Ids, key: Keys, src: Sources, ver: Versions, csize: Segments]

\* What a hash pass saw of each unit; 0 stands for a unit not hashed yet.
Hashes == [Units -> 0..MaxVer]

-----------------------------------------------------------------------------
(* Layout arithmetic.                                                      *)

Smaller(a, b) == IF a <= b THEN a ELSE b

\* A faulty variant of More that rounds num_chunks down.
MoreWhole(c, k) == k = 0 \/ (k + 1) * c <= Size

\* chunk_idx k is below num_chunks = max(1, ceil(file_size / chunk_size)).
More(c, k) == k = 0 \/ k * c < Size

\* Plaintext units in the first k segments, and in the k-th one.
Read(c, k) == Smaller(k * c, Size)
ChunkLen(c, k) == Read(c, k) - Read(c, k - 1)

\* _OFFSET_SIZE + the sum of chunk_length + _TAG_SIZE over k segments.
DataEnd(c, k) == 1 + Read(c, k) + k

-----------------------------------------------------------------------------
(* Cells.                                                                  *)

Header(at) == [kind |-> "header", at |-> at]
Ct(a, u, v) == [kind |-> "ct", att |-> a, unit |-> u, ver |-> v]
Tag(a) == [kind |-> "tag", att |-> a]
Meta(al, c, h) == [kind |-> "meta", atts |-> al, csize |-> c, hash |-> h]

Cell == [kind: {"header"}, at: Nat]
          \cup [kind: {"ct"}, att: Attempt, unit: Nat, ver: Versions]
          \cup [kind: {"tag"}, att: Attempt]
          \cup [kind: {"meta"}, atts: Seq(Attempt), csize: Segments, hash: Hashes]

\* A write at cell p: over what is there, or at the end of the file.
PutAt(e, p, x) == IF p <= Len(e) THEN [e EXCEPT ![p] = x] ELSE Append(e, x)

-----------------------------------------------------------------------------
(* Reading a container back.                                               *)

\* The ciphertext and the tag of the k-th segment are the ones of attempt a,
\* that is, GCM decryption of these cells under a's nonce verifies.
ChunkAt(e, c, k, a) ==
  /\ DataEnd(c, k) <= Len(e)
  /\ \A j \in 1..ChunkLen(c, k) :
       LET x == e[DataEnd(c, k - 1) + j]
       IN  /\ x.kind = "ct"
           /\ x.att = a
           /\ x.unit = Read(c, k - 1) + j
  /\ e[DataEnd(c, k)] = Tag(a)

\* every segment that the list al records is in the file.
Covers(e, c, al) == \A k \in 1..Len(al) : ChunkAt(e, c, k, al[k])

\* The header points at the metadata that ends the file.
Finished(e) == /\ Len(e) > 1
               /\ e[1] = Header(Len(e))
               /\ e[Len(e)].kind = "meta"

Footer(e) == e[Len(e)]

\* _decrypt_chunks gets through every segment's tag ...
Authentic(e, key) ==
  /\ Finished(e)
  /\ Covers(e, Footer(e).csize, Footer(e).atts)
  /\ \A k \in 1..Len(Footer(e).atts) : Footer(e).atts[k].key = key

\* ... and the hash of the plaintext it wrote is the recorded one: with
\* another, decrypt_file raises TamperDetectedError and publishes nothing.
HashAgrees(e) ==
  LET m == Footer(e)
  IN  /\ \A k \in 1..Len(m.atts) : \A j \in 1..ChunkLen(m.csize, k) :
           LET x == e[DataEnd(m.csize, k - 1) + j]
           IN  m.hash[x.unit] = x.ver
      /\ \A u \in Units : u > Read(m.csize, Len(m.atts)) => m.hash[u] = 0

\* decrypt_file(e, key) publishes the plaintext.
Opens(e, key) == Authentic(e, key) /\ HashAgrees(e)

\* The cell of unit u: after the header, the units and the tags before it.
CellOf(c, u) == 1 + u + ((u - 1) \div c)

\* The plaintext decrypt_file writes: the segments' units, one after the other.
Decrypted(e) ==
  [u \in 1..Read(Footer(e).csize, Len(Footer(e).atts)) |->
     LET x == e[CellOf(Footer(e).csize, u)]
     IN  [src |-> x.att.src, unit |-> x.unit, ver |-> x.ver]]
=============================================================================
