------------------------------ MODULE FileStore ------------------------------
(***************************************************************************)
(* The file-backed storage port (src/ports/hlm_ports_common.c) on a POSIX  *)
(* file system: the license file, the temporary file beside it, and the    *)
(* handles, in one process or several, that were given the same path.      *)
(*                                                                         *)
(* A file name leads to an inode, and an open stream keeps its inode       *)
(* whatever becomes of the name.  A document is written and read in        *)
(* parts, as stdio flushes and fills its buffers.                          *)
(***************************************************************************)
EXTENDS Naturals, Sequences, FiniteSets

CONSTANTS
  Writers,     \* handles that write: refresh, activate, import ...
  Readers,     \* handles that read: check
  Docs,        \* license documents
  Parts,       \* in how many parts each of them is read and written
  BufParts,    \* the size of the buffer a read is given, in parts
  Inodes,      \* bound: files that exist at once
  NoFile,      \* no file of that name, no open stream
  Hole         \* the bytes of a gap left in a file

ASSUME FileAssumption ==
  /\ Parts \in [Docs -> Nat \ {0}]
  /\ BufParts \in Nat \ {0}
  /\ NoFile \notin Inodes

VARIABLES
  path,        \* the inode cfg->path names
  tmp,         \* the inode "<path>.tmp" names
  data,        \* what the inodes hold
  pc, fd, pos, doc,     \* each writer: its step, stream, offset, document
  written,     \* what each writer's last file_write returned
  rfd, got,    \* each reader: its stream and what it has read so far
  answer,      \* what each reader's last file_read returned
  passing      \* history: what path held since the start of each read

disk    == <<path, tmp, data>>
writers == <<pc, fd, pos, doc, written>>
readers == <<rfd, got, answer, passing>>
vars    == <<disk, writers, readers>>

Whole(d)  == [k \in 1 .. Parts[d] |-> <<d, k>>]
Documents == {Whole(d) : d \in Docs}

TypeOK ==
  /\ path \in Inodes \cup {NoFile} /\ tmp \in Inodes \cup {NoFile}
  /\ data \in [Inodes -> Seq((Docs \X Nat) \cup {Hole})]
  /\ pc \in [Writers -> {"idle", "write", "rename", "remove"}]
  /\ fd \in [Writers -> Inodes \cup {NoFile}]
  /\ pos \in [Writers -> Nat]
  /\ doc \in [Writers -> Docs]
  /\ written \in [Writers -> {"none", "OK", "E_STORAGE"}]
  /\ rfd \in [Readers -> Inodes \cup {NoFile}]
  /\ DOMAIN got = Readers /\ DOMAIN answer = Readers /\ DOMAIN passing = Readers

Content(inode) == IF inode = NoFile THEN <<>> ELSE data[inode]
FreeInodes ==
  Inodes \ ({path, tmp} \cup {fd[w] : w \in Writers} \cup {rfd[r] : r \in Readers})

(* One write at an offset: a file that was cut shorter meanwhile gets a    *)
(* gap.                                                                    *)
WriteAt(file, offset, part) ==
  [k \in 1 .. (IF Len(file) > offset THEN Len(file) ELSE offset + 1) |->
     IF k = offset + 1 THEN part ELSE IF k <= Len(file) THEN file[k] ELSE Hole]

(* path comes to hold file: one more that the reads under way overlap.     *)
Passes(file) ==
  passing' = [r \in Readers |-> IF rfd[r] = NoFile THEN {} ELSE passing[r] \cup {file}]
------------------------------------------------------------------------------
(* file_write                                                              *)

WriteReturns(w, r) ==
  /\ pc' = [pc EXCEPT ![w] = "idle"]
  /\ written' = [written EXCEPT ![w] = r]

\* Mutant: the license file itself is opened for writing.
OpenInPlace(w, d) ==
  /\ pc[w] = "idle"
  /\ \E i \in (IF path = NoFile THEN FreeInodes ELSE {path}) :
       /\ path' = i /\ tmp' = i
       /\ data' = [data EXCEPT ![i] = <<>>]
       /\ fd' = [fd EXCEPT ![w] = i]
  /\ pos' = [pos EXCEPT ![w] = 0]
  /\ pc' = [pc EXCEPT ![w] = "write"]
  /\ written' = [written EXCEPT ![w] = "none"]
  /\ doc' = [doc EXCEPT ![w] = d]
  /\ UNCHANGED readers

(* fopen(tmp, "wb"): empties the file that is there, or makes one.         *)
OpenTmp(w, d) ==
  /\ pc[w] = "idle"
  /\ doc' = [doc EXCEPT ![w] = d]
  /\ \/ \E i \in (IF tmp = NoFile THEN FreeInodes ELSE {tmp}) :
          /\ tmp' = i
          /\ data' = [data EXCEPT ![i] = <<>>]
          /\ fd' = [fd EXCEPT ![w] = i]
          /\ pos' = [pos EXCEPT ![w] = 0]
          /\ pc' = [pc EXCEPT ![w] = "write"]
          /\ written' = [written EXCEPT ![w] = "none"]
     \/ WriteReturns(w, "E_STORAGE") /\ UNCHANGED <<tmp, data, fd, pos>>
  /\ UNCHANGED <<path, readers>>

(* Some of the document reaches the file, in fwrite or in fclose.          *)
WritePart(w) ==
  /\ pc[w] = "write" /\ pos[w] < Parts[doc[w]]
  /\ data' = [data EXCEPT ![fd[w]] = WriteAt(@, pos[w], <<doc[w], pos[w] + 1>>)]
  /\ pos' = [pos EXCEPT ![w] = @ + 1]
  /\ UNCHANGED <<path, tmp, pc, fd, doc, written, readers>>

\* Mutant: a short write goes unnoticed.
CloseTmpUnchecked(w) ==
  /\ pc[w] = "write"
  /\ pc' = [pc EXCEPT ![w] = "rename"]
  /\ fd' = [fd EXCEPT ![w] = NoFile]
  /\ UNCHANGED <<disk, pos, doc, written, readers>>

CloseTmp(w) ==
  /\ pc[w] = "write"
  /\ \/ pos[w] = Parts[doc[w]] /\ pc' = [pc EXCEPT ![w] = "rename"]
     \/ pc' = [pc EXCEPT ![w] = "remove"]           \* a write or fclose failed
  /\ fd' = [fd EXCEPT ![w] = NoFile]
  /\ UNCHANGED <<disk, pos, doc, written, readers>>

RenameTmp(w) ==
  /\ pc[w] = "rename"
  /\ \/ /\ tmp # NoFile
        /\ path' = tmp /\ tmp' = NoFile
        /\ WriteReturns(w, "OK")
        /\ Passes(data[tmp])
     \/ /\ pc' = [pc EXCEPT ![w] = "remove"]        \* no such file, or it may not
        /\ UNCHANGED <<path, tmp, written, passing>>
  /\ UNCHANGED <<data, fd, pos, doc, rfd, got, answer>>

\* Mutant: the license file is cleaned up with the temporary one.
RemoveBoth(w) ==
  /\ pc[w] = "remove"
  /\ tmp' = NoFile /\ path' = NoFile
  /\ WriteReturns(w, "E_STORAGE")
  /\ UNCHANGED <<data, fd, pos, doc, readers>>

(* remove(tmp) on the way out of a failure.                                *)
RemoveTmp(w) ==
  /\ pc[w] = "remove"
  /\ tmp' = NoFile
  /\ WriteReturns(w, "E_STORAGE")
  /\ UNCHANGED <<path, data, fd, pos, doc, readers>>

(* The process dies: its stream is closed, the temporary file stays.       *)
Crash(w) ==
  /\ pc[w] # "idle"
  /\ WriteReturns(w, "none")
  /\ fd' = [fd EXCEPT ![w] = NoFile]
  /\ UNCHANGED <<disk, pos, doc, readers>>
------------------------------------------------------------------------------
(* file_read                                                               *)

(* fopen(path, "rb"): it may fail with the file there, and file_read says  *)
(* of every failure what it says of a file that is absent.                 *)
OpenPath(r) ==
  /\ rfd[r] = NoFile
  /\ \/ /\ answer' = [answer EXCEPT ![r] = <<>>]
        /\ UNCHANGED <<rfd, got, passing>>
     \/ /\ path # NoFile
        /\ rfd' = [rfd EXCEPT ![r] = path]
        /\ got' = [got EXCEPT ![r] = <<>>]
        /\ passing' = [passing EXCEPT ![r] = {Content(path)}]
        /\ UNCHANGED answer
  /\ UNCHANGED <<disk, writers>>

ReadPart(r) ==
  /\ rfd[r] # NoFile
  /\ Len(got[r]) < Len(data[rfd[r]]) /\ Len(got[r]) < BufParts
  /\ got' = [got EXCEPT ![r] = Append(@, data[rfd[r]][Len(@) + 1])]
  /\ UNCHANGED <<disk, writers, rfd, answer, passing>>

ReadEnds(r) ==
  /\ rfd' = [rfd EXCEPT ![r] = NoFile]
  /\ got' = [got EXCEPT ![r] = <<>>]
  /\ passing' = [passing EXCEPT ![r] = {}]
  /\ UNCHANGED <<disk, writers>>

(* End of file with room left in the buffer.                               *)
ReadDone(r) ==
  /\ rfd[r] # NoFile
  /\ Len(got[r]) >= Len(data[rfd[r]]) /\ Len(got[r]) < BufParts
  /\ answer' = [answer EXCEPT ![r] = got[r]]
  /\ ReadEnds(r)

(* The buffer is full, HLM_E_BUFFER, or a read fails: no document.         *)
ReadFails(r) == rfd[r] # NoFile /\ ReadEnds(r) /\ UNCHANGED answer
------------------------------------------------------------------------------
Init ==
  /\ path = NoFile /\ tmp = NoFile
  /\ data = [i \in Inodes |-> <<>>]
  /\ pc = [w \in Writers |-> "idle"]
  /\ fd = [w \in Writers |-> NoFile]
  /\ pos = [w \in Writers |-> 0]
  /\ doc \in [Writers -> Docs]
  /\ written = [w \in Writers |-> "none"]
  /\ rfd = [r \in Readers |-> NoFile]
  /\ got = [r \in Readers |-> <<>>]
  /\ answer = [r \in Readers |-> <<>>]
  /\ passing = [r \in Readers |-> {}]

Writes(w) == \/ \E d \in Docs : OpenTmp(w, d)
             \/ WritePart(w) \/ CloseTmp(w) \/ RenameTmp(w) \/ RemoveTmp(w) \/ Crash(w)
Reads(r)  == OpenPath(r) \/ ReadPart(r) \/ ReadDone(r) \/ ReadFails(r)

Next == (\E w \in Writers : Writes(w)) \/ (\E r \in Readers : Reads(r))
Spec == Init /\ [][Next]_vars
------------------------------------------------------------------------------
(* "a reader sharing the path never observes a half-written cache, and a   *)
(* crash mid-write cannot truncate an existing license"                    *)
(* (hlm_ports_common.c:168): whatever a read returned is a whole document, *)
(* or nothing, when there was no file or it could not be opened.           *)
ReadsAreWhole == \A r \in Readers : answer[r] \in Documents \cup {<<>>}

(* Once there is a license file there always is one: no failure on the way *)
(* (a full disk, a lost race, a crash) leaves the computer without.        *)
NeverWithoutAgain == [][path # NoFile => path' # NoFile]_vars

(* With one writer the file behaves like AtomicCache for all its readers.  *)
Cache == INSTANCE AtomicCache WITH
  Docs <- Documents, Nothing <- <<>>, content <- Content(path)
ActsLikeAtomicCache == Cache!CacheSpec
==============================================================================
