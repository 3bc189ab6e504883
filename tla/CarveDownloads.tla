--------------------------- MODULE CarveDownloads ---------------------------
(***************************************************************************)
(* The downloads of carved files, next to their uploads (module Carves).   *)
(* CarvesDownloadHandler of the admin service makes Archive write the       *)
(* blocks of a session to a file, unless the file exists already, and then  *)
(* serves the file.  Nothing keeps two requests from writing the same file. *)
(***************************************************************************)
EXTENDS CarvesProps, Sequences

CONSTANTS
  Downloads, \* requests of operators
  AtOnce,    \* how many of them may run at the same time
  DiskErrors,\* TRUE: writing to the file may fail
  Zipped     \* the carves whose first block has the zstd header

ASSUME DownloadsAssumption ==
  /\ IsFiniteSet(Downloads) /\ AtOnce \in Nat
  /\ DiskErrors \in BOOLEAN /\ Zipped \subseteq Carvings

VARIABLES
  archive, \* file on disk of each session: the blocks written to it
  download,\* CarvesDownloadHandler requests
  disturbed,\* history: the sessions of which two blocks were processed at the
           \* same time, or a goroutine was lost in a restart
  mixed    \* history: the sessions of which a download made the file while
           \* another download of the same session was at work

downloadVars == <<archive, download>>

downloadsVars == <<carveVars, downloadVars, disturbed, mixed>>

DownloadState ==
  [pc : {"idle", "read", "open", "write", "serve", "served", "failed"},
   session : Sessions \cup {NoSession}, ready : BOOLEAN, named : {"tar", "tar.zst"},
   todo : Seq(Nat), size : Nat, body : Seq(Nat)]

DownloadsTypeOK ==
  /\ CarvesTypeOK
  /\ archive \in [Sessions -> [exists : BOOLEAN, blocks : Seq(Nat)]]
  /\ download \in [Downloads -> DownloadState]
  /\ disturbed \subseteq Sessions /\ mixed \subseteq Sessions

DownloadsInit ==
  /\ archive = [s \in Sessions |-> [exists |-> FALSE, blocks |-> <<>>]]
  /\ download = [d \in Downloads |->
       [pc |-> "idle", session |-> NoSession, ready |-> FALSE, named |-> "tar",
        todo |-> <<>>, size |-> 0, body |-> <<>>]]
  /\ disturbed = {} /\ mixed = {}

-----------------------------------------------------------------------------
Active == {d \in Downloads : download[d].pc \in {"read", "open", "write", "serve"}}

Archiving == {d \in Active : download[d].pc # "serve"}

(* The sessions of which one download makes the file while another one     *)
(* makes it too, or is about to serve it.                                  *)
Mixing ==
  {s \in Sessions :
    \E d \in Archiving, e \in Active :
      d # e /\ download[d].session = s /\ download[e].session = s}

(* A mutant of Suffix: the bare suffix. *)
SuffixAlone(s) == IF file[s].carve \in Zipped THEN "zst" ELSE ""

(* Compression is a property of the carved file. *)
Suffix(s) == IF file[s].carve \in Zipped THEN "tar.zst" ELSE "tar"

Step(d, new) == download' = [download EXCEPT ![d] = new]

Fail(d) == Step(d, [download[d] EXCEPT !.pc = "failed"])

(* GetBlocks orders the rows by block_id, and rows of the same block in    *)
(* either way.                                                             *)
GetBlocks(s) ==
  LET rows == {b \in blocks : b.session = s}
      order == 1 .. Cardinality(rows)
  IN  {[i \in order |-> f[i].block] :
         f \in {g \in [order -> rows] :
                 \A i, j \in order : i < j => g[i] # g[j] /\ g[i].block <= g[j].block}}

(* Mutant: the file is written whether or not it exists. *)
AlwaysArchive(d, s) ==
  /\ download[d].pc = "idle" /\ Cardinality(Active) < AtOnce
  /\ file[s].state # "none"
  /\ Step(d, [download[d] EXCEPT
       !.pc = "read", !.session = s,
       !.ready = Present(s) /\ file[s].status = "COMPLETED"])
  /\ UNCHANGED <<carveVars, archive>>

(* Archive looks for the file first.  It finds a compressed one too, but   *)
(* returns its name without the suffix.                                    *)
ArchiveStat(d, s) ==
  /\ download[d].pc = "idle" /\ Cardinality(Active) < AtOnce
  /\ file[s].state # "none"
  /\ Step(d, [download[d] EXCEPT
       !.pc = IF archive[s].exists THEN "serve" ELSE "read",
       !.session = s,
       !.ready = Present(s) /\ file[s].status = "COMPLETED",
       !.size = Len(archive[s].blocks)])
  /\ UNCHANGED <<carveVars, archive>>

(* Without any block the first one is out of range, and without block 0    *)
(* compression cannot be told: in both cases nothing is served.            *)
ArchiveBlocks(d) ==
  /\ download[d].pc = "read"
  /\ \E found \in GetBlocks(download[d].session) :
       LET first == found # <<>> /\ found[1] = 0
       IN  \/ first /\ Step(d, [download[d] EXCEPT !.pc = "open", !.todo = found])
           \/ (DBErrors \/ ~first) /\ Fail(d)
  /\ UNCHANGED <<carveVars, archive>>

(* The file is opened to append, and created if need be. *)
ArchiveOpen(d) ==
  /\ download[d].pc = "open"
  /\ \/ /\ archive' = [archive EXCEPT ![download[d].session].exists = TRUE]
        /\ Step(d, [download[d] EXCEPT
             !.pc = "write", !.named = Suffix(download[d].session)])
     \/ DiskErrors /\ Fail(d) /\ UNCHANGED archive
  /\ UNCHANGED carveVars

(* One round of the loop that writes the blocks.  A failure ends the       *)
(* request, and leaves the file as it is.                                  *)
ArchiveWrite(d) ==
  /\ download[d].pc = "write" /\ download[d].todo # <<>>
  /\ \/ /\ archive' = [archive EXCEPT ![download[d].session].blocks =
                          Append(@, Head(download[d].todo))]
        /\ Step(d, [download[d] EXCEPT !.todo = Tail(@), !.size = @ + 1])
     \/ DiskErrors /\ Fail(d) /\ UNCHANGED archive
  /\ UNCHANGED carveVars

ArchiveClose(d) ==
  /\ download[d].pc = "write" /\ download[d].todo = <<>>
  /\ Step(d, [download[d] EXCEPT !.pc = "serve"])
  /\ UNCHANGED <<carveVars, archive>>

(* The handler serves the file it was named, if it can be opened. *)
CarvesDownloadHandler(d) ==
  /\ download[d].pc = "serve"
  /\ LET s == download[d].session
     IN  Step(d, [download[d] EXCEPT
           !.pc = "served",
           !.body = IF download[d].named = Suffix(s) THEN archive[s].blocks ELSE <<>>])
  /\ UNCHANGED <<carveVars, archive>>

DownloadStep(d) ==
  \/ \E s \in Sessions : ArchiveStat(d, s)
  \/ ArchiveBlocks(d) \/ ArchiveOpen(d) \/ ArchiveWrite(d) \/ ArchiveClose(d)
  \/ CarvesDownloadHandler(d)

UploadStep ==
  /\ CarvesNext
  /\ disturbed' = disturbed
       \cup {worker[w].session : w \in
              {v \in Running : worker[v].pc # "progress" /\ worker'[v].pc = "done"
                               /\ worker[v].session \notin stamped'}}
       \cup {s \in Sessions :
              Cardinality({w \in Running' : worker'[w].session = s}) > 1}
  /\ UNCHANGED <<downloadVars, mixed>>

DownloadsNext ==
  \/ UploadStep
  \/ /\ \E d \in Downloads : DownloadStep(d)
     /\ mixed' = mixed \cup Mixing'
     /\ UNCHANGED disturbed

DownloadsSpec == CarvesInit /\ DownloadsInit /\ [][DownloadsNext]_downloadsVars

-----------------------------------------------------------------------------
Served(d) == download[d].pc = "served"

(* What an operator expects of a download: every block of the file once,   *)
(* in order, under its right length.                                       *)
WholeFileServed(d) ==
  LET n == Total[file[download[d].session].carve]
  IN  /\ download[d].body = [i \in 1 .. n |-> i - 1]
      /\ download[d].size = n

(* "Archive to convert finalize a completed carve and create a file ready  *)
(* to download": whoever asks for a COMPLETED carve gets the whole file.   *)
CompletedDownloadsWhole ==
  \A d \in Downloads : Served(d) /\ download[d].ready => WholeFileServed(d)

(* Whenever operators download, however many at a time, and whether or not *)
(* the disk fails: what is served is in the order of the file with no      *)
(* block twice, and of the length announced, unless the file of that       *)
(* session was made while another request for it was at work.  Nothing in  *)
(* the handler prevents that.                                              *)
DownloadsInOrder ==
  \A d \in Downloads :
    Served(d) /\ download[d].session \notin mixed =>
      LET body == download[d].body
      IN  /\ \A i, j \in DOMAIN body : i < j => body[i] < body[j]
          /\ body # <<>> => download[d].size = Len(body)

(* A carve of which all blocks are stored is marked COMPLETED, with its    *)
(* time of completion, once its last goroutine ended: whatever happens to   *)
(* other carves and however often it is downloaded meanwhile, as long as    *)
(* its own blocks were processed one at a time and none was lost.          *)
WholeFilesCompleted ==
  \A s \in Sessions :
    Present(s) /\ Whole(s) /\ s \notin disturbed
    /\ (\A w \in Running : worker[w].session # s)
      => file[s].status = "COMPLETED" /\ s \in stamped
=============================================================================
