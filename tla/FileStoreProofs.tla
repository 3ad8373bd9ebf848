--------------------------- MODULE FileStoreProofs ---------------------------
(***************************************************************************)
(* Proofs about FileStore, for every set of documents, readers and inodes, *)
(* documents of any length and any buffer.  That a license file, once      *)
(* there, never disappears is proved for any number of writers; that the   *)
(* file acts like AtomicCache for one writer, since for two it is false    *)
(* (run shared_cache).                                                     *)
(***************************************************************************)
EXTENDS FileStore, SequenceTheorems, TLAPS

Bytes == (Docs \X Nat) \cup {Hole}

(* What a document's first n parts look like in a file.                    *)
FirstParts(d, n) == [k \in 1 .. n |-> <<d, k>>]

IsPrefix(s, t) == Len(s) <= Len(t) /\ \A k \in 1 .. Len(s) : s[k] = t[k]

(* A writer has a stream exactly while it writes.                          *)
StreamsInv == \A w \in Writers : pc[w] = "write" <=> fd[w] # NoFile

(* The file that path names is a whole document and not the one that is    *)
(* written; that one is tmp, and it is whole when it is about to be        *)
(* renamed.  A crash leaves any part of a document in tmp.                 *)
WriterInv(w) ==
  /\ path # NoFile => path # tmp /\ data[path] \in Documents
  /\ pc[w] = "write" => /\ fd[w] = tmp /\ pos[w] <= Parts[doc[w]]
                        /\ data[tmp] = FirstParts(doc[w], pos[w])
  /\ pc[w] = "rename" => tmp # NoFile /\ data[tmp] = Whole(doc[w])

(* What a reader has open is a whole document, one of those path has held  *)
(* since, and it is never written again: it is not tmp.                    *)
ReaderInv(r) ==
  /\ rfd[r] = NoFile => passing[r] = {} /\ got[r] = <<>>
  /\ rfd[r] # NoFile => /\ rfd[r] # tmp /\ data[rfd[r]] \in passing[r]
                        /\ passing[r] \subseteq Documents
                        /\ got[r] \in Seq(Bytes) /\ IsPrefix(got[r], data[rfd[r]])
  /\ answer[r] \in Documents \cup {<<>>}

StoreInv(w) == TypeOK /\ StreamsInv /\ WriterInv(w) /\ \A r \in Readers : ReaderInv(r)
------------------------------------------------------------------------------
(* Sequences                                                               *)

LEMMA FirstPartsSeq ==
  ASSUME NEW d \in Docs, NEW n \in Nat
  PROVE  FirstParts(d, n) \in Seq(Bytes) /\ Len(FirstParts(d, n)) = n
  BY DEF FirstParts, Bytes

LEMMA WholeSeq ==
  ASSUME NEW d \in Docs
  PROVE  /\ Parts[d] \in Nat /\ Whole(d) = FirstParts(d, Parts[d]) /\ Whole(d) \in Documents
         /\ Whole(d) \in Seq(Bytes)
<1>1. Parts[d] \in Nat
  BY FileAssumption
<1>2. Whole(d) = FirstParts(d, Parts[d]) /\ Whole(d) \in Documents
  BY DEF Whole, FirstParts, Documents
<1>. QED
  BY <1>1, <1>2, FirstPartsSeq

LEMMA WriteAtSeq ==
  ASSUME NEW file \in Seq(Bytes), NEW offset \in Nat, NEW part \in Bytes
  PROVE  WriteAt(file, offset, part) \in Seq(Bytes)
<1>. DEFINE n == IF Len(file) > offset THEN Len(file) ELSE offset + 1
            e(k) == IF k = offset + 1 THEN part ELSE IF k <= Len(file) THEN file[k] ELSE Hole
<1>1. n \in Nat /\ \A k \in 1 .. n : e(k) \in Bytes
  BY DEF Bytes
<1>2. WriteAt(file, offset, part) = [k \in 1 .. n |-> e(k)]
  BY DEF WriteAt
<1>. HIDE DEF n, e
<1>. QED
  BY <1>1, <1>2

(* Nothing but the next part is added to a file no one else writes.        *)
LEMMA WriteNextPart ==
  ASSUME NEW d \in Docs, NEW n \in Nat
  PROVE  WriteAt(FirstParts(d, n), n, <<d, n + 1>>) = FirstParts(d, n + 1)
  BY FirstPartsSeq DEF WriteAt, FirstParts

(* A reader that has read as far as the file goes has the file.            *)
LEMMA PrefixIsWhole ==
  ASSUME NEW s \in Seq(Bytes), NEW t \in Seq(Bytes), IsPrefix(s, t), Len(s) >= Len(t)
  PROVE  s = t
<1>1. Len(s) \in Nat /\ Len(t) \in Nat /\ Len(s) = Len(t)
  BY LenProperties DEF IsPrefix
<1>. QED
  BY <1>1, SeqEqual DEF IsPrefix

LEMMA ReadNextPart ==
  ASSUME NEW s \in Seq(Bytes), NEW t \in Seq(Bytes), IsPrefix(s, t), Len(s) < Len(t)
  PROVE  LET u == Append(s, t[Len(s) + 1]) IN u \in Seq(Bytes) /\ IsPrefix(u, t)
<1>1. Len(s) \in Nat /\ Len(t) \in Nat /\ Len(s) + 1 \in 1 .. Len(t)
  BY LenProperties
<1>2. t[Len(s) + 1] \in Bytes
  BY <1>1, ElementOfSeq
<1>. QED
  BY <1>1, <1>2, AppendProperties DEF IsPrefix
------------------------------------------------------------------------------
(* Types                                                                   *)

(* With any number of writers the variables keep to their types.           *)
LEMMA TypeKept ==
  ASSUME TypeOK, StreamsInv, [Next]_vars
  PROVE  TypeOK' /\ StreamsInv'
<1>. USE DEF TypeOK, disk, writers, readers, WriteReturns
<1>1. ASSUME NEW w \in Writers, NEW d \in Docs, OpenTmp(w, d)
      PROVE  TypeOK' /\ StreamsInv'
  <2>1. CASE WriteReturns(w, "E_STORAGE") /\ UNCHANGED <<tmp, data, fd, pos>>
    BY <1>1, <2>1 DEF OpenTmp, StreamsInv
  <2>2. ASSUME NEW i \in (IF tmp = NoFile THEN FreeInodes ELSE {tmp}),
               tmp' = i, data' = [data EXCEPT ![i] = <<>>], fd' = [fd EXCEPT ![w] = i],
               pos' = [pos EXCEPT ![w] = 0], pc' = [pc EXCEPT ![w] = "write"],
               written' = [written EXCEPT ![w] = "none"]
        PROVE  TypeOK' /\ StreamsInv'
    <3>1. i \in Inodes /\ i # NoFile
      BY FileAssumption DEF FreeInodes
    <3>2. data' \in [Inodes -> Seq((Docs \X Nat) \cup {Hole})]
      BY <2>2, <3>1
    <3>. QED
      BY <1>1, <2>2, <3>1, <3>2 DEF OpenTmp, StreamsInv
  <2>. QED
    BY <1>1, <2>1, <2>2 DEF OpenTmp
<1>2. ASSUME NEW w \in Writers, WritePart(w)
      PROVE  TypeOK' /\ StreamsInv'
  <2>1. fd[w] \in Inodes /\ data[fd[w]] \in Seq(Bytes) /\ <<doc[w], pos[w] + 1>> \in Bytes /\ pos[w] \in Nat
    BY <1>2 DEF WritePart, StreamsInv, Bytes
  <2>2. WriteAt(data[fd[w]], pos[w], <<doc[w], pos[w] + 1>>) \in Seq(Bytes)
    BY <2>1, WriteAtSeq
  <2>. QED
    BY <1>2, <2>1, <2>2 DEF WritePart, StreamsInv, Bytes
<1>3. ASSUME NEW w \in Writers, CloseTmp(w)
      PROVE  TypeOK' /\ StreamsInv'
  BY <1>3 DEF CloseTmp, StreamsInv
<1>4. ASSUME NEW w \in Writers, RenameTmp(w)
      PROVE  TypeOK' /\ StreamsInv'
  BY <1>4 DEF RenameTmp, Passes, StreamsInv
<1>5. ASSUME NEW w \in Writers, RemoveTmp(w) \/ Crash(w)
      PROVE  TypeOK' /\ StreamsInv'
  BY <1>5 DEF RemoveTmp, Crash, StreamsInv
<1>6. ASSUME NEW r \in Readers, Reads(r)
      PROVE  TypeOK' /\ StreamsInv'
  <2>1. CASE OpenPath(r)
    <3>1. UNCHANGED <<disk, writers>> /\ rfd' \in {rfd, [rfd EXCEPT ![r] = path]}
      BY <2>1 DEF OpenPath
    <3>2. DOMAIN got' = Readers /\ DOMAIN answer' = Readers /\ DOMAIN passing' = Readers
      BY <2>1 DEF OpenPath
    <3>3. rfd' \in [Readers -> Inodes \cup {NoFile}]
      BY <3>1
    <3>. QED
      BY <3>1, <3>2, <3>3 DEF StreamsInv
  <2>2. CASE ReadPart(r)
    BY <2>2 DEF ReadPart, StreamsInv
  <2>3. CASE ReadDone(r)
    BY <2>3 DEF ReadDone, ReadEnds, StreamsInv
  <2>4. CASE ReadFails(r)
    BY <2>4 DEF ReadFails, ReadEnds, StreamsInv
  <2>. HIDE DEF TypeOK
  <2>. QED
    BY <1>6, <2>1, <2>2, <2>3, <2>4 DEF Reads
<1>7. CASE UNCHANGED vars
  BY <1>7 DEF vars, StreamsInv
<1>. QED
  BY <1>1, <1>2, <1>3, <1>4, <1>5, <1>6, <1>7 DEF Next, Writes
------------------------------------------------------------------------------
(* One writer                                                              *)

(* What is shown of every step when w is the only writer: it keeps the     *)
(* invariant, and it is a step of AtomicCache or none.                     *)
GoodStep(w) == StoreInv(w)' /\ [Cache!CacheNext]_(Cache!cacheVars)

(* The writer works on an inode that is neither the license file nor open  *)
(* for reading: the readers and the cache see nothing of it.               *)
LEMMA WritesUnseen ==
  ASSUME NEW w \in Writers, StoreInv(w), NEW i, path # i, \A r \in Readers : rfd[r] # i,
         \A j \in Inodes \ {i} : data'[j] = data[j],
         tmp' \in {tmp, i, NoFile}, UNCHANGED <<path, readers>>
  PROVE  (\A r \in Readers : ReaderInv(r)') /\ UNCHANGED Cache!cacheVars
<1>1. UNCHANGED <<path, rfd, got, answer, passing>>
  BY DEF readers
<1>2. ASSUME NEW r \in Readers
      PROVE  ReaderInv(r)'
  <2>1. ReaderInv(r) /\ rfd[r] \in Inodes \cup {NoFile}
    BY DEF StoreInv, TypeOK
  <2>2. rfd[r] # NoFile => data'[rfd[r]] = data[rfd[r]] /\ rfd[r] # tmp'
    BY <2>1 DEF ReaderInv
  <2>. QED
    BY <1>1, <2>1, <2>2 DEF ReaderInv, IsPrefix
<1>3. Content(path)' = Content(path)
  BY <1>1 DEF Content, StoreInv, TypeOK
<1>. QED
  BY <1>1, <1>2, <1>3 DEF Cache!cacheVars

LEMMA OpenTmpStep ==
  ASSUME NEW w, Writers = {w}, StoreInv(w), TypeOK', StreamsInv', NEW d \in Docs, OpenTmp(w, d)
  PROVE  GoodStep(w)
<1>0. TypeOK /\ StreamsInv /\ WriterInv(w)
  BY DEF StoreInv
<1>1. CASE WriteReturns(w, "E_STORAGE") /\ UNCHANGED <<tmp, data, fd, pos>>
  <2>1. pc'[w] = "idle" /\ UNCHANGED <<path, tmp, data, readers>>
    BY <1>0, <1>1 DEF OpenTmp, WriteReturns, TypeOK
  <2>2. WriterInv(w)'
    BY <1>0, <2>1 DEF WriterInv
  <2>3. (\A r \in Readers : ReaderInv(r)') /\ UNCHANGED Cache!cacheVars
    BY <2>1 DEF StoreInv, ReaderInv, IsPrefix, readers, Cache!cacheVars, Content
  <2>. QED
    BY <2>2, <2>3 DEF GoodStep, StoreInv
<1>2. ASSUME NEW i \in (IF tmp = NoFile THEN FreeInodes ELSE {tmp}),
             tmp' = i, data' = [data EXCEPT ![i] = <<>>], fd' = [fd EXCEPT ![w] = i],
             pos' = [pos EXCEPT ![w] = 0], pc' = [pc EXCEPT ![w] = "write"]
      PROVE  GoodStep(w)
  <2>1. i \in Inodes /\ i # NoFile
    BY <1>0, FileAssumption DEF FreeInodes, TypeOK
  <2>2. path # i
    BY <1>0, <2>1 DEF FreeInodes, WriterInv
  <2>3. \A r \in Readers : rfd[r] # i
    BY <2>1 DEF FreeInodes, StoreInv, ReaderInv
  <2>4. UNCHANGED <<path, readers>> /\ doc'[w] = d
    BY <1>0 DEF OpenTmp, TypeOK
  <2>5. \A j \in Inodes \ {i} : data'[j] = data[j]
    BY <1>0, <1>2 DEF TypeOK
  <2>6. (\A r \in Readers : ReaderInv(r)') /\ UNCHANGED Cache!cacheVars
    BY <1>2, <2>2, <2>3, <2>4, <2>5, WritesUnseen
  <2>7. WriterInv(w)'
    <3>1. /\ pc'[w] = "write" /\ fd'[w] = i /\ pos'[w] = 0 /\ data'[i] = <<>>
      BY <1>0, <1>2, <2>1 DEF TypeOK
    <3>2. FirstParts(d, 0) = <<>> /\ 0 <= Parts[d]
      BY WholeSeq DEF FirstParts
    <3>3. path # NoFile => path # tmp' /\ data'[path] \in Documents
      BY <1>0, <1>2, <2>2, <2>5 DEF WriterInv, TypeOK
    <3>. QED
      BY <1>2, <2>4, <3>1, <3>2, <3>3 DEF WriterInv
  <2>. QED
    BY <2>6, <2>7 DEF GoodStep, StoreInv
<1>. QED
  BY <1>1, <1>2 DEF OpenTmp

LEMMA WritePartStep ==
  ASSUME NEW w, Writers = {w}, StoreInv(w), TypeOK', StreamsInv', WritePart(w)
  PROVE  GoodStep(w)
<1>1. TypeOK /\ StreamsInv /\ WriterInv(w) /\ pc[w] = "write" /\ pos[w] < Parts[doc[w]]
  BY DEF StoreInv, WritePart
<1>2. /\ tmp # NoFile /\ tmp \in Inodes /\ fd[w] = tmp /\ path # tmp
      /\ data[tmp] = FirstParts(doc[w], pos[w])
  BY <1>1 DEF WriterInv, StreamsInv, TypeOK
<1>3. \A r \in Readers : rfd[r] # tmp
  BY <1>2 DEF StoreInv, ReaderInv
<1>4. /\ UNCHANGED <<path, tmp, pc, fd, doc, readers>> /\ pos' = [pos EXCEPT ![w] = @ + 1]
      /\ data' = [data EXCEPT ![tmp] = WriteAt(@, pos[w], <<doc[w], pos[w] + 1>>)]
  BY <1>2 DEF WritePart
<1>5. \A j \in Inodes \ {tmp} : data'[j] = data[j]
  BY <1>1, <1>4 DEF TypeOK
<1>6. (\A r \in Readers : ReaderInv(r)') /\ UNCHANGED Cache!cacheVars
  BY <1>2, <1>3, <1>4, <1>5, WritesUnseen
<1>7. data'[tmp] = FirstParts(doc[w], pos[w] + 1)
  <2>1. data'[tmp] = WriteAt(data[tmp], pos[w], <<doc[w], pos[w] + 1>>)
    BY <1>1, <1>2, <1>4 DEF TypeOK
  <2>. QED
    BY <1>1, <1>2, <2>1, WriteNextPart DEF TypeOK
<1>8. pos[w] \in Nat /\ doc[w] \in Docs /\ Parts[doc[w]] \in Nat /\ pos'[w] = pos[w] + 1
  BY <1>1, <1>4, WholeSeq DEF TypeOK
<1>9. WriterInv(w)'
  BY <1>1, <1>2, <1>4, <1>5, <1>7, <1>8 DEF WriterInv, TypeOK
<1>. QED
  BY <1>6, <1>9 DEF GoodStep, StoreInv

(* Steps that touch neither a file nor what the readers see.               *)
LEMMA QuietStep ==
  ASSUME NEW w, Writers = {w}, StoreInv(w), TypeOK', StreamsInv', UNCHANGED <<path, data, readers>>,
         tmp' \in {tmp, NoFile}, WriterInv(w)'
  PROVE  GoodStep(w)
<1>1. /\ UNCHANGED <<path, data, rfd, got, answer, passing>>
      /\ Content(path)' = Content(path)
  BY DEF readers, Content
<1>2. \A r \in Readers : ReaderInv(r)'
  BY <1>1 DEF StoreInv, ReaderInv, IsPrefix
<1>. QED
  BY <1>1, <1>2 DEF GoodStep, StoreInv, Cache!cacheVars

LEMMA CloseTmpStep ==
  ASSUME NEW w, Writers = {w}, StoreInv(w), TypeOK', StreamsInv', CloseTmp(w)
  PROVE  GoodStep(w)
<1>1. TypeOK /\ StreamsInv /\ WriterInv(w) /\ pc[w] = "write"
  BY DEF StoreInv, CloseTmp
<1>2. UNCHANGED <<path, tmp, data, doc, readers>>
  BY DEF CloseTmp, disk
<1>3. CASE pos[w] = Parts[doc[w]] /\ pc' = [pc EXCEPT ![w] = "rename"]
  <2>1. tmp # NoFile /\ data[tmp] = Whole(doc[w])
    BY <1>1, <1>3, WholeSeq DEF WriterInv, StreamsInv, TypeOK
  <2>2. pc'[w] = "rename"
    BY <1>1, <1>3 DEF TypeOK
  <2>. QED
    BY <1>1, <1>2, <2>1, <2>2, QuietStep DEF WriterInv
<1>4. CASE pc' = [pc EXCEPT ![w] = "remove"]
  <2>1. pc'[w] = "remove"
    BY <1>1, <1>4 DEF TypeOK
  <2>. QED
    BY <1>1, <1>2, <2>1, QuietStep DEF WriterInv
<1>. QED
  BY <1>3, <1>4 DEF CloseTmp

LEMMA GivesUpStep ==
  ASSUME NEW w, Writers = {w}, StoreInv(w), TypeOK', StreamsInv', RemoveTmp(w) \/ Crash(w)
  PROVE  GoodStep(w)
<1>1. TypeOK /\ WriterInv(w)
  BY DEF StoreInv
<1>2. pc'[w] = "idle" /\ UNCHANGED <<path, data, readers>> /\ tmp' \in {tmp, NoFile}
  BY <1>1 DEF RemoveTmp, Crash, WriteReturns, TypeOK, disk
<1>. QED
  BY <1>1, <1>2, QuietStep DEF WriterInv

LEMMA RenameTmpStep ==
  ASSUME NEW w, Writers = {w}, StoreInv(w), TypeOK', StreamsInv', RenameTmp(w)
  PROVE  GoodStep(w)
<1>1. TypeOK /\ WriterInv(w) /\ pc[w] = "rename"
  BY DEF StoreInv, RenameTmp
<1>2. CASE pc' = [pc EXCEPT ![w] = "remove"] /\ UNCHANGED <<path, tmp, written, passing>>
  <2>1. pc'[w] = "remove" /\ UNCHANGED <<path, tmp, data, readers>>
    BY <1>1, <1>2 DEF RenameTmp, TypeOK, readers
  <2>. QED
    BY <1>1, <2>1, QuietStep DEF WriterInv
<1>3. CASE tmp # NoFile /\ path' = tmp /\ tmp' = NoFile /\ WriteReturns(w, "OK") /\ Passes(data[tmp])
  <2>1. /\ UNCHANGED <<data, rfd, got, answer>> /\ pc'[w] = "idle"
        /\ passing' = [r \in Readers |-> IF rfd[r] = NoFile THEN {} ELSE passing[r] \cup {data[tmp]}]
    BY <1>1, <1>3 DEF RenameTmp, WriteReturns, TypeOK, Passes
  <2>2. data[tmp] \in Documents
    BY <1>1, WholeSeq DEF WriterInv, TypeOK
  <2>3. WriterInv(w)'
    BY <1>3, <2>1, <2>2 DEF WriterInv
  <2>4. ASSUME NEW r \in Readers
        PROVE  ReaderInv(r)'
    <3>1. ReaderInv(r) /\ passing'[r] = IF rfd[r] = NoFile THEN {} ELSE passing[r] \cup {data[tmp]}
      BY <2>1 DEF StoreInv
    <3>. QED
      BY <1>3, <2>1, <2>2, <3>1 DEF ReaderInv, IsPrefix
  <2>5. Cache!Replace
    <3>1. Content(path)' = data[tmp]
      BY <1>3, <2>1 DEF Content
    <3>2. \A r \in Readers : rfd[r] = NoFile <=> passing[r] = {}
      BY DEF StoreInv, ReaderInv
    <3>. QED
      BY <2>1, <2>2, <3>1, <3>2 DEF Cache!Replace
  <2>. QED
    BY <2>3, <2>4, <2>5 DEF GoodStep, StoreInv, Cache!CacheNext
<1>. QED
  BY <1>2, <1>3 DEF RenameTmp
------------------------------------------------------------------------------
(* Readers                                                                 *)

(* What a read does to its own stream leaves the files, the writer and the *)
(* other reads alone.                                                      *)
LEMMA ReaderStep ==
  ASSUME NEW w, Writers = {w}, StoreInv(w), TypeOK', StreamsInv', NEW r \in Readers,
         UNCHANGED <<disk, writers>>, ReaderInv(r)',
         \A u \in Readers \ {r} : /\ rfd'[u] = rfd[u] /\ got'[u] = got[u]
                                  /\ answer'[u] = answer[u] /\ passing'[u] = passing[u]
  PROVE  StoreInv(w)' /\ Content(path)' = Content(path)
<1>1. UNCHANGED <<path, tmp, data, pc, fd, pos, doc>>
  BY DEF disk, writers
<1>2. WriterInv(w)'
  BY <1>1 DEF StoreInv, WriterInv
<1>3. ASSUME NEW u \in Readers \ {r}
      PROVE  ReaderInv(u)'
  BY <1>1, <1>3 DEF StoreInv, ReaderInv, IsPrefix
<1>. QED
  BY <1>1, <1>2, <1>3 DEF StoreInv, Content

LEMMA OpenPathStep ==
  ASSUME NEW w, Writers = {w}, StoreInv(w), TypeOK', StreamsInv', NEW r \in Readers, OpenPath(r)
  PROVE  GoodStep(w)
<1>1. TypeOK /\ WriterInv(w) /\ ReaderInv(r) /\ rfd[r] = NoFile /\ passing[r] = {} /\ got[r] = <<>>
  BY DEF StoreInv, OpenPath, ReaderInv
<1>2. UNCHANGED <<disk, writers>> /\ UNCHANGED <<path, tmp, data>>
  BY DEF OpenPath, disk
<1>3. CASE answer' = [answer EXCEPT ![r] = <<>>] /\ UNCHANGED <<rfd, got, passing>>
  <2>1. ReaderInv(r)'
    BY <1>1, <1>3 DEF ReaderInv, TypeOK
  <2>2. \A u \in Readers \ {r} : answer'[u] = answer[u]
    BY <1>1, <1>3 DEF TypeOK
  <2>3. StoreInv(w)' /\ Content(path)' = Content(path)
    BY <1>2, <1>3, <2>1, <2>2, ReaderStep
  <2>4. Cache!ReadNothing(r)
    BY <1>1, <1>3, <2>3 DEF Cache!ReadNothing
  <2>. QED
    BY <2>3, <2>4 DEF GoodStep, Cache!CacheNext
<1>4. CASE /\ path # NoFile
           /\ rfd' = [rfd EXCEPT ![r] = path] /\ got' = [got EXCEPT ![r] = <<>>]
           /\ passing' = [passing EXCEPT ![r] = {Content(path)}] /\ UNCHANGED answer
  <2>1. /\ rfd'[r] = path /\ got'[r] = <<>> /\ passing'[r] = {data[path]} /\ answer'[r] = answer[r]
        /\ \A u \in Readers \ {r} : /\ rfd'[u] = rfd[u] /\ got'[u] = got[u]
                                    /\ answer'[u] = answer[u] /\ passing'[u] = passing[u]
    BY <1>1, <1>4 DEF TypeOK, Content
  <2>2. data[path] \in Documents /\ path # tmp
    BY <1>1, <1>4 DEF WriterInv
  <2>3. <<>> \in Seq(Bytes) /\ IsPrefix(<<>>, data[path])
    <3>1. data[path] \in Seq(Bytes)
      BY <2>2, WholeSeq DEF Documents
    <3>. QED
      BY <3>1, LenProperties DEF IsPrefix
  <2>4. ReaderInv(r)'
    BY <1>1, <1>2, <1>4, <2>1, <2>2, <2>3 DEF ReaderInv
  <2>5. StoreInv(w)' /\ Content(path)' = Content(path)
    BY <1>2, <2>1, <2>4, ReaderStep
  <2>6. Cache!StartRead(r)
    BY <1>1, <1>4, <2>5 DEF Cache!StartRead
  <2>. QED
    BY <2>5, <2>6 DEF GoodStep, Cache!CacheNext
<1>. QED
  BY <1>3, <1>4 DEF OpenPath

LEMMA ReadPartStep ==
  ASSUME NEW w, Writers = {w}, StoreInv(w), TypeOK', StreamsInv', NEW r \in Readers, ReadPart(r)
  PROVE  GoodStep(w)
<1>1. TypeOK /\ ReaderInv(r) /\ rfd[r] # NoFile /\ Len(got[r]) < Len(data[rfd[r]])
  BY DEF StoreInv, ReadPart
<1>2. UNCHANGED <<disk, writers, rfd, answer, passing>> /\ UNCHANGED <<path, tmp, data>>
  BY DEF ReadPart, disk
<1>3. /\ got'[r] = Append(got[r], data[rfd[r]][Len(got[r]) + 1])
      /\ \A u \in Readers \ {r} : got'[u] = got[u]
  BY <1>1 DEF ReadPart, TypeOK
<1>4. got[r] \in Seq(Bytes) /\ data[rfd[r]] \in Seq(Bytes) /\ IsPrefix(got[r], data[rfd[r]])
  BY <1>1 DEF ReaderInv, TypeOK, Bytes
<1>5. got'[r] \in Seq(Bytes) /\ IsPrefix(got'[r], data[rfd[r]])
  BY <1>1, <1>3, <1>4, ReadNextPart
<1>6. ReaderInv(r)'
  BY <1>1, <1>2, <1>5 DEF ReaderInv
<1>7. StoreInv(w)' /\ Content(path)' = Content(path)
  BY <1>2, <1>3, <1>6, ReaderStep
<1>. QED
  BY <1>2, <1>7 DEF GoodStep, Cache!cacheVars

LEMMA ReadEndsStep ==
  ASSUME NEW w, Writers = {w}, StoreInv(w), TypeOK', StreamsInv', NEW r \in Readers,
         ReadDone(r) \/ ReadFails(r)
  PROVE  GoodStep(w)
<1>1. TypeOK /\ ReaderInv(r) /\ rfd[r] # NoFile /\ ReadEnds(r)
  BY DEF StoreInv, ReadDone, ReadFails
<1>2. UNCHANGED <<disk, writers>> /\ UNCHANGED <<path, tmp, data>>
  BY <1>1 DEF ReadEnds, disk
<1>3. /\ rfd'[r] = NoFile /\ got'[r] = <<>> /\ passing'[r] = {}
      /\ \A u \in Readers \ {r} : rfd'[u] = rfd[u] /\ got'[u] = got[u] /\ passing'[u] = passing[u]
  BY <1>1 DEF ReadEnds, TypeOK
<1>4. /\ \/ \E d \in passing[r] : answer' = [answer EXCEPT ![r] = d]
         \/ UNCHANGED answer
      /\ answer'[r] \in Documents \cup {<<>>}
      /\ \A u \in Readers \ {r} : answer'[u] = answer[u]
  <2>1. CASE ReadDone(r)
    <3>1. got[r] \in Seq(Bytes) /\ data[rfd[r]] \in Seq(Bytes) /\ IsPrefix(got[r], data[rfd[r]])
      BY <1>1 DEF ReaderInv, TypeOK, Bytes
    <3>2. Len(got[r]) >= Len(data[rfd[r]]) /\ answer' = [answer EXCEPT ![r] = got[r]]
      BY <2>1 DEF ReadDone
    <3>3. got[r] = data[rfd[r]]
      BY <3>1, <3>2, PrefixIsWhole
    <3>4. got[r] \in passing[r] /\ got[r] \in Documents
      BY <1>1, <3>3 DEF ReaderInv
    <3>. QED
      BY <1>1, <3>2, <3>4 DEF TypeOK
  <2>2. CASE ReadFails(r)
    BY <1>1, <2>2 DEF ReadFails, ReaderInv
  <2>. QED
    BY <2>1, <2>2
<1>5. ReaderInv(r)'
  BY <1>3, <1>4 DEF ReaderInv
<1>6. StoreInv(w)' /\ Content(path)' = Content(path)
  BY <1>2, <1>3, <1>4, <1>5, ReaderStep
<1>7. Cache!EndRead(r)
  BY <1>1, <1>4, <1>6 DEF Cache!EndRead, ReaderInv, ReadEnds
<1>. QED
  BY <1>6, <1>7 DEF GoodStep, Cache!CacheNext
------------------------------------------------------------------------------
LEMMA EveryStepIsGood ==
  ASSUME NEW w, Writers = {w}, StoreInv(w), [Next]_vars
  PROVE  GoodStep(w)
<1>1. TypeOK' /\ StreamsInv'
  BY TypeKept DEF StoreInv
<1>2. ASSUME NEW v \in Writers, Writes(v)
      PROVE  GoodStep(w)
  <2>1. Writes(w)
    BY <1>2
  <2>2. CASE \E d \in Docs : OpenTmp(w, d)
    BY <1>1, <2>2, OpenTmpStep
  <2>3. CASE WritePart(w)
    BY <1>1, <2>3, WritePartStep
  <2>4. CASE CloseTmp(w)
    BY <1>1, <2>4, CloseTmpStep
  <2>5. CASE RenameTmp(w)
    BY <1>1, <2>5, RenameTmpStep
  <2>6. CASE RemoveTmp(w) \/ Crash(w)
    BY <1>1, <2>6, GivesUpStep
  <2>. QED
    BY <2>1, <2>2, <2>3, <2>4, <2>5, <2>6 DEF Writes
<1>3. ASSUME NEW r \in Readers, Reads(r)
      PROVE  GoodStep(w)
  BY <1>1, <1>3, OpenPathStep, ReadPartStep, ReadEndsStep DEF Reads
<1>4. CASE UNCHANGED vars
  <2>1. UNCHANGED <<path, tmp, data, pc, fd, pos, doc, readers>>
    BY <1>4 DEF vars, disk, writers
  <2>2. WriterInv(w)'
    BY <2>1 DEF StoreInv, WriterInv
  <2>. QED
    BY <1>1, <2>1, <2>2, QuietStep
<1>. QED
  BY <1>2, <1>3, <1>4 DEF Next

LEMMA Starts ==
  ASSUME Init
  PROVE  /\ TypeOK /\ StreamsInv
         /\ \A w \in Writers : StoreInv(w)
         /\ Cache!CacheInit
<1>. USE DEF Init
<1>1. TypeOK
  BY DEF TypeOK
<1>2. StreamsInv
  BY DEF StreamsInv
<1>3. \A w \in Writers : WriterInv(w)
  BY DEF WriterInv
<1>4. \A r \in Readers : ReaderInv(r)
  BY DEF ReaderInv
<1>5. Cache!CacheInit
  BY DEF Cache!CacheInit, Content
<1>. QED
  BY <1>1, <1>2, <1>3, <1>4, <1>5 DEF StoreInv
------------------------------------------------------------------------------
(* Any number of handles, in any number of processes, may write the same   *)
(* path: the variables keep to their types, and a writer has a stream      *)
(* exactly while it writes (file_write closes it on every way out).        *)
THEOREM FileTypeCorrect == Spec => [](TypeOK /\ StreamsInv)
<1>1. Init => TypeOK /\ StreamsInv
  BY Starts
<1>2. TypeOK /\ StreamsInv /\ [Next]_vars => (TypeOK /\ StreamsInv)'
  BY TypeKept
<1>. QED
  BY <1>1, <1>2, PTL DEF Spec

(* However many handles write and whatever fails in them, a license file   *)
(* that is there is only ever replaced: file_write removes and opens       *)
(* nothing but the temporary name.                                         *)
THEOREM FileNeverWithoutAgain == Spec => NeverWithoutAgain
<1>1. ASSUME TypeOK, [Next]_vars
      PROVE  [path # NoFile => path' # NoFile]_vars
  <2>1. ASSUME NEW w \in Writers, RenameTmp(w)
        PROVE  path # NoFile => path' # NoFile
    BY <2>1 DEF RenameTmp
  <2>2. ASSUME NEW w \in Writers, Writes(w), ~ RenameTmp(w)
        PROVE  path' = path
    BY <2>2 DEF Writes, OpenTmp, WritePart, CloseTmp, RemoveTmp, Crash, disk
  <2>3. ASSUME NEW r \in Readers, Reads(r)
        PROVE  path' = path
    BY <2>3 DEF Reads, OpenPath, ReadPart, ReadDone, ReadFails, ReadEnds, disk
  <2>. QED
    BY <1>1, <2>1, <2>2, <2>3 DEF Next
<1>. QED
  BY <1>1, FileTypeCorrect, PTL DEF Spec, NeverWithoutAgain

(* One handle writes the path, any number read it, and the process may die *)
(* at any step: the license file is always a whole document, and what a    *)
(* reader has open is a whole document that no later step of file_write    *)
(* touches.                                                                *)
THEOREM FileStoreInvariant ==
  ASSUME NEW w, Writers = {w}
  PROVE  Spec => []StoreInv(w)
<1>1. Init => StoreInv(w)
  BY Starts
<1>2. StoreInv(w) /\ [Next]_vars => StoreInv(w)'
  BY EveryStepIsGood DEF GoodStep
<1>. QED
  BY <1>1, <1>2, PTL DEF Spec

(* With one writer every file_read returns a whole document, or nothing    *)
(* when there is no file or fopen fails: never the part of one that a      *)
(* write or a crash left.                                                  *)
THEOREM FileReadsAreWhole ==
  ASSUME NEW w, Writers = {w}
  PROVE  Spec => []ReadsAreWhole
<1>1. StoreInv(w) => ReadsAreWhole
  BY DEF StoreInv, ReaderInv, ReadsAreWhole
<1>. QED
  BY <1>1, FileStoreInvariant, PTL

(* With one writer the file on disk, its temporary name and the streams    *)
(* open on it implement AtomicCache: a rename is the whole write, every    *)
(* other step of file_write is invisible, and a read whose fopen succeeds  *)
(* returns what path held at some moment between that and its end of file; *)
(* one whose fopen fails, file or none, returns nothing.                   *)
THEOREM FileActsLikeAtomicCache ==
  ASSUME NEW w, Writers = {w}
  PROVE  Spec => ActsLikeAtomicCache
<1>1. Init => Cache!CacheInit
  BY Starts
<1>2. StoreInv(w) /\ [Next]_vars => [Cache!CacheNext]_(Cache!cacheVars)
  BY EveryStepIsGood DEF GoodStep
<1>. QED
  BY <1>1, <1>2, FileStoreInvariant, PTL DEF Spec, ActsLikeAtomicCache, Cache!CacheSpec
==============================================================================
