--------------------------- MODULE DownloadsProofs ---------------------------
(***************************************************************************)
(* Theorems about module CarveDownloads, for any number of uploads,        *)
(* blocks, goroutines and downloads.                                       *)
(***************************************************************************)
EXTENDS CarveDownloads, CarvesProofs

-----------------------------------------------------------------------------
(* Downloads of files that no other request touches while they are made.   *)

Increasing(seq) == \A i, j \in DOMAIN seq : i < j => seq[i] < seq[j]

(* The blocks on disk come before those that are still to be written. *)
Precedes(seq, todo) == \A i \in DOMAIN seq, j \in DOMAIN todo : seq[i] < todo[j]

ArchivesInOrder ==
  \A s \in Sessions \ mixed :
    /\ Increasing(archive[s].blocks)
    /\ ~archive[s].exists => archive[s].blocks = <<>>

(* What a download relies on as long as its file is not mixed. *)
InProgress(d) ==
  /\ download[d].session \in Sessions
  /\ download[d].size = Len(archive[download[d].session].blocks)
  /\ download[d].pc \in {"read", "open"} => archive[download[d].session].blocks = <<>>
  /\ download[d].pc = "write" => archive[download[d].session].exists
  /\ download[d].pc \in {"open", "write"} =>
       /\ Increasing(download[d].todo)
       /\ Precedes(archive[download[d].session].blocks, download[d].todo)

Apart ==
  /\ Mixing \subseteq mixed
  /\ \A d \in Active :
       /\ download[d].session \in Sessions
       /\ download[d].session \notin mixed => InProgress(d)

DownloadsIInv == DownloadsTypeOK /\ ArchivesInOrder /\ Apart /\ DownloadsInOrder

DownloadPCs == {"idle", "read", "open", "write", "serve", "served", "failed"}

LEMMA StepMoves ==
  ASSUME DownloadsTypeOK, NEW d \in Downloads, NEW new \in DownloadState, Step(d, new)
  PROVE  /\ download' \in [Downloads -> DownloadState]
         /\ download'[d] = new
         /\ \A e \in Downloads : e # d => download'[e] = download[e]
BY DEF Step, DownloadsTypeOK

(* A download that goes on, or begins: the file of its session changes     *)
(* only while it makes the file, so that another download of that session  *)
(* is one that mixes with it.                                              *)
LEMMA DownloadKeeps ==
  ASSUME DownloadsIInv, NEW d \in Downloads, NEW new \in DownloadState, Step(d, new),
         UNCHANGED <<carveVars, disturbed>>, mixed' = mixed \cup Mixing',
         archive' \in [Sessions -> [exists : BOOLEAN, blocks : Seq(Nat)]],
         ArchivesInOrder',
         \/ UNCHANGED archive
         \/ /\ d \in Archiving /\ new.pc \in {"read", "open", "write", "serve"}
            /\ new.session = download[d].session
            /\ \A t \in Sessions \ {new.session} : archive'[t] = archive[t],
         new.pc \in {"read", "open", "write", "serve"} => new.session \in Sessions,
         new.pc \in {"read", "open", "write", "serve"} /\ new.session \notin mixed'
           => InProgress(d)',
         new.pc = "served" /\ new.session \notin mixed =>
           /\ Increasing(new.body)
           /\ new.body # <<>> => new.size = Len(new.body)
  PROVE  DownloadsIInv'
<1>0. DownloadsTypeOK /\ Apart /\ DownloadsInOrder
  BY DEF DownloadsIInv
<1>1. /\ download' \in [Downloads -> DownloadState]
      /\ download'[d] = new
      /\ \A e \in Downloads : e # d => download'[e] = download[e]
  BY <1>0, StepMoves
<1>2. DownloadsTypeOK'
  BY <1>0, <1>1 DEF DownloadsTypeOK, CarvesTypeOK, carveVars, Mixing
<1>3. ASSUME NEW e \in Active', download'[e].session \notin mixed' PROVE InProgress(e)'
  <2>0. e \in Downloads
    BY DEF Active
  <2>1. CASE e = d
    BY <1>1, <1>3, <2>1 DEF Active
  <2>2. CASE e # d
    <3>. DEFINE s == download[e].session
    <3>1. /\ download'[e] = download[e] /\ e \in Active
          /\ s \in Sessions /\ s \notin mixed /\ s \notin mixed'
      BY <1>0, <1>1, <1>3, <2>0, <2>2 DEF Apart, Active
    <3>2. InProgress(e)
      BY <1>0, <3>1 DEF Apart
    <3>3. archive'[s] = archive[s]
      <4>1. CASE UNCHANGED archive
        BY <4>1
      <4>2. CASE /\ d \in Archiving /\ new.session = download[d].session
                 /\ \A t \in Sessions \ {new.session} : archive'[t] = archive[t]
        <5>1. s # download[d].session
          BY <1>0, <2>2, <3>1, <4>2 DEF Apart, Mixing
        <5>. QED  BY <3>1, <4>2, <5>1
      <4>. QED  BY <4>1, <4>2
    <3>. QED  BY <3>1, <3>2, <3>3 DEF InProgress
  <2>. QED  BY <2>1, <2>2
<1>4. Apart'
  <2>1. ASSUME NEW e \in Active' PROVE download'[e].session \in Sessions
    BY <1>0, <1>1 DEF Apart, Active
  <2>. QED  BY <1>3, <2>1 DEF Apart
<1>5. DownloadsInOrder'
  <2>1. SUFFICES ASSUME NEW e \in Downloads, download'[e].pc = "served",
                        download'[e].session \notin mixed'
                 PROVE  /\ Increasing(download'[e].body)
                        /\ download'[e].body # <<>> =>
                             download'[e].size = Len(download'[e].body)
    BY DEF DownloadsInOrder, Served, Increasing
  <2>2. CASE e = d
    BY <1>1, <2>1, <2>2
  <2>3. CASE e # d
    BY <1>0, <1>1, <2>1, <2>3 DEF DownloadsInOrder, Served, Increasing
  <2>. QED  BY <2>2, <2>3
<1>. QED  BY <1>2, <1>4, <1>5 DEF DownloadsIInv

(* The rows of a session are different blocks of the file, so that the     *)
(* order of GetBlocks is strict.                                           *)
LEMMA BlocksInOrder ==
  ASSUME DownloadsTypeOK, ExactlyOnce, NEW s \in Sessions, NEW found \in GetBlocks(s)
  PROVE  found \in Seq(Nat) /\ Increasing(found)
<1>. DEFINE rows == {b \in blocks : b.session = s}
            order == 1 .. Cardinality(rows)
<1>1. PICK f \in [order -> rows] :
        /\ found = [i \in order |-> f[i].block]
        /\ \A i, j \in order : i < j => f[i] # f[j] /\ f[i].block <= f[j].block
  BY DEF GetBlocks
<1>2. IsFiniteSet(rows)
  <2>1. \A b \in rows : b = Current(b.by) /\ b.by \in Workers
    BY DEF ExactlyOnce, StoredBeforeCounted, DownloadsTypeOK, CarvesTypeOK, Delivery
  <2>2. rows \subseteq {Current(w) : w \in Workers}
    BY <2>1
  <2>3. IsFiniteSet({Current(w) : w \in Workers})
    <3>. DEFINE g == [w \in Workers |-> Current(w)]
                image == {Current(w) : w \in Workers}
    <3>1. g \in Surjection(Workers, image)
      BY DEF Surjection
    <3>. HIDE DEF g, image
    <3>. QED  BY <3>1, CarvesAssumption, FS_Surjection DEF image
  <2>. QED  BY <2>2, <2>3, FS_Subset
<1>3. Cardinality(rows) \in Nat
  BY <1>2, FS_CardinalityType
<1>. HIDE DEF order
<1>4. ASSUME NEW i \in order, NEW j \in order, i < j
      PROVE  f[i].block \in Nat /\ f[j].block \in Nat /\ f[i].block < f[j].block
  <2>. DEFINE a == f[i]
              b == f[j]
  <2>1. a \in blocks /\ b \in blocks /\ a.session = s /\ b.session = s
    BY <1>1
  <2>2. /\ a \in Delivery /\ b \in Delivery
        /\ worker[a.by].pc # "idle" /\ a = Current(a.by)
        /\ worker[b.by].pc # "idle" /\ b = Current(b.by)
    BY <2>1 DEF DownloadsTypeOK, CarvesTypeOK, ExactlyOnce, StoredBeforeCounted
  <2>3. a.block # b.block
    <3>1. SUFFICES ASSUME a.block = b.block PROVE FALSE
      OBVIOUS
    <3>2. /\ worker[a.by].session = worker[b.by].session
          /\ worker[a.by].block = worker[b.by].block
      BY <2>1, <2>2, <3>1 DEF Current
    <3>3. a.by = b.by
      BY <2>2, <3>2 DEF ExactlyOnce, EachBlockOnce, Delivery
    <3>4. a = b
      BY <2>2, <3>3
    <3>. QED  BY <1>1, <1>4, <3>4
  <2>4. a.block \in Nat /\ b.block \in Nat /\ a.block <= b.block
    BY <1>1, <1>4, <2>2 DEF Delivery
  <2>. QED  BY <2>3, <2>4
<1>5. \A i \in order : f[i].block \in Nat
  BY <1>1 DEF DownloadsTypeOK, CarvesTypeOK, Delivery
<1>6. found \in Seq(Nat) /\ DOMAIN found = order
  BY <1>1, <1>3, <1>5 DEF order
<1>. QED  BY <1>1, <1>4, <1>6 DEF Increasing

LEMMA ArchiveStatKeeps ==
  ASSUME DownloadsIInv, NEW d \in Downloads, NEW s \in Sessions,
         ArchiveStat(d, s), UNCHANGED disturbed, mixed' = mixed \cup Mixing'
  PROVE  DownloadsIInv'
<1>0. DownloadsTypeOK /\ ArchivesInOrder /\ download[d] \in DownloadState
      /\ archive \in [Sessions -> [exists : BOOLEAN, blocks : Seq(Nat)]]
      /\ archive[s].blocks \in Seq(Nat)
  BY DEF DownloadsIInv, DownloadsTypeOK
<1>. DEFINE new == [download[d] EXCEPT
              !.pc = IF archive[s].exists THEN "serve" ELSE "read",
              !.session = s,
              !.ready = Present(s) /\ file[s].status = "COMPLETED",
              !.size = Len(archive[s].blocks)]
<1>2. /\ new \in DownloadState /\ new.session = s /\ new.size = Len(archive[s].blocks)
      /\ new.pc = IF archive[s].exists THEN "serve" ELSE "read"
  <2>1. Len(archive[s].blocks) \in Nat
    BY <1>0
  <2>2. (Present(s) /\ file[s].status = "COMPLETED") \in BOOLEAN
    OBVIOUS
  <2>. HIDE DEF Present
  <2>. QED  BY <1>0, <2>1, <2>2 DEF DownloadState
<1>3. Step(d, new) /\ UNCHANGED <<carveVars, archive>>
  BY DEF ArchiveStat
<1>. HIDE DEF new
<1>4. download'[d] = new
  BY <1>0, <1>2, <1>3, StepMoves
<1>5. s \notin mixed' => InProgress(d)'
  BY <1>0, <1>2, <1>3, <1>4 DEF InProgress, ArchivesInOrder
<1>6. ArchivesInOrder'
  BY <1>0, <1>3 DEF ArchivesInOrder
<1>. QED  BY <1>0, <1>2, <1>3, <1>5, <1>6, DownloadKeeps

LEMMA FailType ==
  ASSUME NEW row \in DownloadState, NEW pc \in DownloadPCs
  PROVE  /\ [row EXCEPT !.pc = pc] \in DownloadState /\ [row EXCEPT !.pc = pc].pc = pc
         /\ [row EXCEPT !.pc = pc].session = row.session
         /\ [row EXCEPT !.pc = pc].size = row.size
BY DEF DownloadState, DownloadPCs

LEMMA FailKeeps ==
  ASSUME DownloadsIInv, NEW d \in Active, Fail(d), UNCHANGED <<carveVars, archive, disturbed>>,
         mixed' = mixed \cup Mixing'
  PROVE  DownloadsIInv'
<1>0. DownloadsTypeOK /\ ArchivesInOrder /\ d \in Downloads /\ download[d] \in DownloadState
  BY DEF DownloadsIInv, DownloadsTypeOK, Active
<1>1. [download[d] EXCEPT !.pc = "failed"] \in DownloadState
      /\ [download[d] EXCEPT !.pc = "failed"].pc = "failed"
  BY <1>0, FailType DEF DownloadPCs
<1>2. ArchivesInOrder' /\ archive' \in [Sessions -> [exists : BOOLEAN, blocks : Seq(Nat)]]
  BY <1>0 DEF ArchivesInOrder, DownloadsTypeOK
<1>. QED  BY <1>0, <1>1, <1>2, DownloadKeeps DEF Fail

(* Writing the next block keeps the order. *)
LEMMA WriteInOrder ==
  ASSUME NEW seq \in Seq(Nat), NEW todo \in Seq(Nat), todo # <<>>,
         Increasing(seq), Increasing(todo), Precedes(seq, todo)
  PROVE  /\ Append(seq, Head(todo)) \in Seq(Nat) /\ Tail(todo) \in Seq(Nat)
         /\ Len(Append(seq, Head(todo))) = Len(seq) + 1
         /\ Increasing(Append(seq, Head(todo))) /\ Increasing(Tail(todo))
         /\ Precedes(Append(seq, Head(todo)), Tail(todo))
<1>1. /\ Head(todo) = todo[1] /\ todo[1] \in Nat /\ 1 \in DOMAIN todo
      /\ Tail(todo) \in Seq(Nat) /\ Len(Tail(todo)) = Len(todo) - 1
      /\ DOMAIN Tail(todo) = 1 .. Len(todo) - 1 /\ Len(todo) \in Nat
  OBVIOUS
<1>2. \A i \in DOMAIN Tail(todo) :
        i \in Nat /\ 1 < i + 1 /\ i + 1 \in DOMAIN todo /\ Tail(todo)[i] = todo[i + 1]
  BY <1>1
<1>. DEFINE written == Append(seq, todo[1])
<1>3. /\ written \in Seq(Nat) /\ Len(written) = Len(seq) + 1 /\ Len(seq) \in Nat
      /\ DOMAIN written = 1 .. Len(seq) + 1 /\ DOMAIN seq = 1 .. Len(seq)
      /\ \A i \in 1 .. Len(seq) : written[i] = seq[i]
      /\ written[Len(seq) + 1] = todo[1]
  BY <1>1
<1>. HIDE DEF written
<1>4. \A i \in DOMAIN written :
        \/ i \in DOMAIN seq /\ written[i] = seq[i]
        \/ i = Len(seq) + 1 /\ written[i] = todo[1]
  BY <1>3
<1>5. Increasing(written)
  <2>1. ASSUME NEW i \in DOMAIN written, NEW j \in DOMAIN written, i < j
        PROVE  written[i] < written[j]
    <3>1. i \in DOMAIN seq /\ written[i] = seq[i]
      BY <1>3, <1>4, <2>1
    <3>2. CASE j \in DOMAIN seq /\ written[j] = seq[j]
      BY <2>1, <3>1, <3>2 DEF Increasing
    <3>3. CASE written[j] = todo[1]
      BY <1>1, <3>1, <3>3 DEF Precedes
    <3>. QED  BY <1>4, <3>2, <3>3
  <2>. QED  BY <2>1 DEF Increasing
<1>6. \A i \in DOMAIN Tail(todo) : todo[1] < Tail(todo)[i]
  BY <1>1, <1>2 DEF Increasing
<1>7. Increasing(Tail(todo))
  <2>1. ASSUME NEW i \in DOMAIN Tail(todo), NEW j \in DOMAIN Tail(todo), i < j
        PROVE  Tail(todo)[i] < Tail(todo)[j]
    <3>1. i + 1 < j + 1
      BY <1>2, <2>1
    <3>. QED  BY <1>2, <3>1 DEF Increasing
  <2>. QED  BY <2>1 DEF Increasing
<1>8. Precedes(written, Tail(todo))
  BY <1>2, <1>4, <1>6 DEF Precedes
<1>. QED  BY <1>1, <1>3, <1>5, <1>7, <1>8 DEF written

LEMMA DownloadStepKeeps ==
  ASSUME DownloadsIInv, ExactlyOnce, NEW d \in Downloads, DownloadStep(d),
         UNCHANGED disturbed, mixed' = mixed \cup Mixing'
  PROVE  DownloadsIInv'
<1>. DEFINE s == download[d].session
<1>0. /\ DownloadsTypeOK /\ ArchivesInOrder /\ Apart /\ download[d] \in DownloadState
      /\ archive \in [Sessions -> [exists : BOOLEAN, blocks : Seq(Nat)]]
  BY DEF DownloadsIInv, DownloadsTypeOK
<1>1. ASSUME download[d].pc \in {"read", "open", "write", "serve"}
      PROVE  /\ d \in Active /\ s \in Sessions
             /\ s \notin mixed => InProgress(d)
             /\ archive[s].blocks \in Seq(Nat) /\ archive[s].exists \in BOOLEAN
  BY <1>0, <1>1 DEF Apart, Active
<1>2. CASE ArchiveBlocks(d)
  <2>1. /\ d \in Active /\ s \in Sessions
        /\ s \notin mixed => InProgress(d)
        /\ UNCHANGED <<carveVars, archive>> /\ download[d].pc = "read"
    BY <1>1, <1>2 DEF ArchiveBlocks
  <2>2. PICK found \in GetBlocks(s) :
          \/ Step(d, [download[d] EXCEPT !.pc = "open", !.todo = found])
          \/ Fail(d)
    BY <1>2 DEF ArchiveBlocks
  <2>. DEFINE new == [download[d] EXCEPT !.pc = "open", !.todo = found]
  <2>3. found \in Seq(Nat) /\ Increasing(found)
    BY <1>0, <2>1, BlocksInOrder
  <2>4. /\ new \in DownloadState /\ new.session = s /\ new.size = download[d].size
        /\ new.pc = "open" /\ new.todo = found
    BY <1>0, <2>3 DEF DownloadState
  <2>. HIDE DEF new
  <2>5. CASE Step(d, new)
    <3>1. download'[d] = new
      BY <1>0, <2>4, <2>5, StepMoves
    <3>2. s \notin mixed => InProgress(d)'
      BY <2>1, <2>3, <2>4, <3>1 DEF InProgress, Precedes
    <3>3. ArchivesInOrder'
      BY <1>0, <2>1 DEF ArchivesInOrder
    <3>. QED  BY <1>0, <2>1, <2>4, <2>5, <3>2, <3>3, DownloadKeeps
  <2>. QED  BY <2>1, <2>2, <2>5, FailKeeps DEF new
<1>3. CASE ArchiveOpen(d)
  <2>1. /\ d \in Active /\ s \in Sessions
        /\ s \notin mixed => InProgress(d)
        /\ d \in Archiving /\ UNCHANGED carveVars /\ download[d].pc = "open"
    BY <1>1, <1>3 DEF ArchiveOpen, Archiving
  <2>. DEFINE new == [download[d] EXCEPT !.pc = "write", !.named = Suffix(s)]
  <2>2. /\ new \in DownloadState /\ new.session = s /\ new.size = download[d].size
        /\ new.pc = "write" /\ new.todo = download[d].todo
    BY <1>0 DEF DownloadState, Suffix
  <2>. HIDE DEF new
  <2>3. CASE archive' = [archive EXCEPT ![s].exists = TRUE] /\ Step(d, new)
    <3>1. download'[d] = new
      BY <1>0, <2>2, <2>3, StepMoves
    <3>2. /\ archive' \in [Sessions -> [exists : BOOLEAN, blocks : Seq(Nat)]]
          /\ \A t \in Sessions : archive'[t].blocks = archive[t].blocks
          /\ \A t \in Sessions : archive[t].exists => archive'[t].exists
          /\ archive'[s].exists
          /\ \A t \in Sessions \ {s} : archive'[t] = archive[t]
      BY <1>0, <2>1, <2>3
    <3>3. s \notin mixed => InProgress(d)'
      BY <2>1, <2>2, <3>1, <3>2 DEF InProgress
    <3>4. ArchivesInOrder'
      BY <1>0, <2>1, <3>2 DEF ArchivesInOrder
    <3>. QED  BY <1>0, <2>1, <2>2, <2>3, <3>2, <3>3, <3>4, DownloadKeeps
  <2>. QED  BY <1>3, <2>1, <2>3, FailKeeps DEF ArchiveOpen, new
<1>4. CASE ArchiveWrite(d)
  <2>1. /\ d \in Active /\ s \in Sessions
        /\ s \notin mixed => InProgress(d)
        /\ d \in Archiving /\ archive[s].blocks \in Seq(Nat)
        /\ UNCHANGED carveVars /\ download[d].pc = "write" /\ download[d].todo # <<>>
    BY <1>1, <1>4 DEF ArchiveWrite, Archiving
  <2>. DEFINE todo == download[d].todo
              new == [download[d] EXCEPT !.todo = Tail(todo), !.size = @ + 1]
              written == Append(archive[s].blocks, Head(todo))
  <2>2. todo \in Seq(Nat) /\ download[d].size \in Nat
    BY <1>0 DEF DownloadState
  <2>3. /\ written \in Seq(Nat) /\ Tail(todo) \in Seq(Nat)
        /\ Len(written) = Len(archive[s].blocks) + 1
    BY <2>1, <2>2
  <2>4. s \notin mixed =>
          Increasing(written) /\ Increasing(Tail(todo)) /\ Precedes(written, Tail(todo))
    <3>1. SUFFICES ASSUME s \notin mixed
                   PROVE  /\ Increasing(written) /\ Increasing(Tail(todo))
                          /\ Precedes(written, Tail(todo))
      OBVIOUS
    <3>2. Increasing(archive[s].blocks) /\ Increasing(todo) /\ Precedes(archive[s].blocks, todo)
      BY <1>0, <2>1, <3>1 DEF ArchivesInOrder, InProgress
    <3>. QED  BY <2>1, <2>2, <3>2, WriteInOrder
  <2>5. /\ new \in DownloadState /\ new.session = s /\ new.size = download[d].size + 1
        /\ new.pc = "write" /\ new.todo = Tail(todo)
    <3>1. download[d].size + 1 \in Nat
      BY <2>2
    <3>. HIDE DEF todo
    <3>. QED  BY <1>0, <2>1, <2>3, <3>1 DEF DownloadState
  <2>6. \/ archive' = [archive EXCEPT ![s].blocks = written] /\ Step(d, new)
        \/ Fail(d) /\ UNCHANGED archive
    BY <1>0, <1>4, <2>1 DEF ArchiveWrite
  <2>. HIDE DEF written, new, todo
  <2>7. CASE archive' = [archive EXCEPT ![s].blocks = written] /\ Step(d, new)
    <3>1. download'[d] = new
      BY <1>0, <2>5, <2>7, StepMoves
    <3>2. /\ archive' \in [Sessions -> [exists : BOOLEAN, blocks : Seq(Nat)]]
          /\ archive'[s].blocks = written /\ archive'[s].exists = archive[s].exists
          /\ \A t \in Sessions \ {s} : archive'[t] = archive[t]
      BY <1>0, <2>1, <2>3, <2>7
    <3>3. s \notin mixed => (download[d].size = Len(archive[s].blocks) /\ archive[s].exists)
      BY <2>1 DEF InProgress
    <3>4. s \notin mixed => InProgress(d)'
      BY <2>1, <2>3, <2>4, <2>5, <3>1, <3>2, <3>3 DEF InProgress
    <3>5. ArchivesInOrder'
      BY <1>0, <2>4, <3>2, <3>3 DEF ArchivesInOrder
    <3>. QED  BY <1>0, <2>1, <2>5, <2>7, <3>2, <3>4, <3>5, DownloadKeeps
  <2>. QED  BY <2>1, <2>6, <2>7, FailKeeps
<1>5. CASE ArchiveClose(d)
  <2>1. /\ d \in Active /\ s \in Sessions
        /\ s \notin mixed => InProgress(d)
        /\ UNCHANGED <<carveVars, archive>> /\ download[d].pc = "write"
    BY <1>1, <1>5 DEF ArchiveClose
  <2>. DEFINE new == [download[d] EXCEPT !.pc = "serve"]
  <2>2. new \in DownloadState /\ new.pc = "serve" /\ new.session = s /\ new.size = download[d].size
    BY <1>0, FailType DEF DownloadPCs
  <2>3. Step(d, new)
    BY <1>5 DEF ArchiveClose
  <2>. HIDE DEF new
  <2>4. download'[d] = new
    BY <1>0, <2>2, <2>3, StepMoves
  <2>5. s \notin mixed => InProgress(d)'
    BY <2>1, <2>2, <2>4 DEF InProgress
  <2>6. ArchivesInOrder'
    BY <1>0, <2>1 DEF ArchivesInOrder
  <2>. QED  BY <1>0, <2>1, <2>2, <2>3, <2>5, <2>6, DownloadKeeps
<1>6. CASE CarvesDownloadHandler(d)
  <2>1. /\ d \in Active /\ s \in Sessions
        /\ s \notin mixed => InProgress(d)
        /\ archive[s].blocks \in Seq(Nat) /\ UNCHANGED <<carveVars, archive>>
    BY <1>1, <1>6 DEF CarvesDownloadHandler
  <2>. DEFINE body == IF download[d].named = Suffix(s) THEN archive[s].blocks ELSE <<>>
              new == [download[d] EXCEPT !.pc = "served", !.body = body]
  <2>2. body \in Seq(Nat) /\ body \in {archive[s].blocks, <<>>}
    BY <2>1
  <2>3. Step(d, new)
    BY <1>6 DEF CarvesDownloadHandler
  <2>. HIDE DEF body
  <2>4. /\ new \in DownloadState /\ new.pc = "served" /\ new.size = download[d].size
        /\ new.body = body /\ new.session = s
    BY <1>0, <2>2 DEF DownloadState
  <2>. HIDE DEF new
  <2>5. s \notin mixed => Increasing(body) /\ (body # <<>> => new.size = Len(body))
    BY <1>0, <2>1, <2>2, <2>4 DEF ArchivesInOrder, InProgress, Increasing
  <2>6. ArchivesInOrder'
    BY <1>0, <2>1 DEF ArchivesInOrder
  <2>. QED  BY <1>0, <2>1, <2>3, <2>4, <2>5, <2>6, DownloadKeeps
<1>. QED  BY <1>2, <1>3, <1>4, <1>5, <1>6, ArchiveStatKeeps DEF DownloadStep

-----------------------------------------------------------------------------
(* Uploads and downloads together. *)

LEMMA DownloadsAreUploads == [DownloadsNext]_downloadsVars => [CarvesNext]_carveVars
BY DEF DownloadsNext, downloadsVars, UploadStep, DownloadStep, ArchiveStat, ArchiveBlocks,
       ArchiveOpen, ArchiveWrite, ArchiveClose, CarvesDownloadHandler

LEMMA UploadsGoOn == DownloadsSpec => CarvesSpec
BY DownloadsAreUploads, PTL DEF DownloadsSpec, CarvesSpec, downloadsVars

LEMMA DisturbedType ==
  ASSUME CarvesIInv, DownloadsTypeOK, [DownloadsNext]_downloadsVars
  PROVE  disturbed' \subseteq Sessions /\ mixed' \subseteq Sessions
<1>1. \A w \in Running : worker[w].session \in Sessions
  BY DEF CarvesIInv, Opened, Running
<1>2. disturbed \subseteq Sessions /\ mixed \subseteq Sessions /\ Mixing' \subseteq Sessions
  BY DEF DownloadsTypeOK, Mixing
<1>. QED  BY <1>1, <1>2 DEF DownloadsNext, UploadStep, downloadsVars

LEMMA DownloadsStart ==
  ASSUME CarvesInit, CarvesTypeOK, DownloadsInit
  PROVE  DownloadsIInv
<1>1. <<>> \in Seq(Nat) /\ Len(<<>>) = 0 /\ DOMAIN <<>> = {}
  OBVIOUS
<1>2. DownloadsTypeOK
  BY <1>1 DEF DownloadsInit, DownloadsTypeOK, DownloadState
<1>3. \A s \in Sessions : archive[s].blocks = <<>>
  BY DEF DownloadsInit
<1>4. Active = {} /\ Mixing = {} /\ \A d \in Downloads : ~Served(d)
  BY DEF DownloadsInit, Active, Archiving, Mixing, Served
<1>. QED  BY <1>1, <1>2, <1>3, <1>4 DEF DownloadsIInv, ArchivesInOrder, Increasing, Apart,
            DownloadsInOrder

LEMMA DownloadsStepKeeps ==
  ASSUME DownloadsIInv, CarvesIInv, CarvesIInv', ExactlyOnce,
         [DownloadsNext]_downloadsVars
  PROVE  DownloadsIInv'
<1>1. ASSUME UNCHANGED <<downloadVars, mixed>>, disturbed' \subseteq Sessions
      PROVE  DownloadsIInv'
  BY <1>1 DEF downloadVars, DownloadsIInv, DownloadsTypeOK, ArchivesInOrder, Apart, Mixing,
              Archiving, Active, InProgress, DownloadsInOrder, Served, CarvesIInv
<1>2. ASSUME NEW d \in Downloads, DownloadStep(d), UNCHANGED disturbed,
             mixed' = mixed \cup Mixing'
      PROVE  DownloadsIInv'
  BY <1>2, DownloadStepKeeps
<1>3. disturbed' \subseteq Sessions
  BY DisturbedType DEF DownloadsIInv
<1>. QED  BY <1>1, <1>2, <1>3 DEF DownloadsNext, UploadStep, downloadsVars

(* The inductive invariant of downloads: of a file that was never made     *)
(* while another request for it was at work, what is on disk is in order    *)
(* and comes before what the request that makes it has still to write.      *)
THEOREM DownloadsInvariantHolds ==
  ASSUME Resends = 0, DBErrors = FALSE
  PROVE  DownloadsSpec => []DownloadsIInv
<1>1. CarvesInit /\ DownloadsInit /\ CarvesIInv => DownloadsIInv
  BY DownloadsStart DEF CarvesIInv
<1>2. /\ DownloadsIInv /\ CarvesIInv /\ CarvesIInv' /\ ExactlyOnce
      /\ [DownloadsNext]_downloadsVars
      => DownloadsIInv'
  BY DownloadsStepKeeps
<1>3. DownloadsSpec => []CarvesIInv /\ []ExactlyOnce
  BY UploadsGoOn, CarvesInvariantHolds, ExactlyOnceHolds, PTL
<1>. QED  BY <1>1, <1>2, <1>3, PTL DEF DownloadsSpec, downloadsVars

(* Whatever blocks are stored, whenever and however many files are         *)
(* downloaded at a time, on a disk that may fail: what is served has no    *)
(* block twice nor out of order, and is of the length announced, unless    *)
(* the file was made while another request for it was at work.             *)
THEOREM DownloadsSound ==
  ASSUME Resends = 0, DBErrors = FALSE
  PROVE  DownloadsSpec => []DownloadsInOrder
<1>1. DownloadsIInv => DownloadsInOrder
  BY DEF DownloadsIInv
<1>. QED  BY <1>1, DownloadsInvariantHolds, PTL

-----------------------------------------------------------------------------
(* Types, whatever is sent again, fails or overlaps.                       *)

SessionsKnown == \A d \in Active : download[d].session \in Sessions

BlocksFinite == IsFiniteSet(blocks)

LEMMA BlocksStayFinite ==
  ASSUME BlocksFinite, [CarvesNext]_carveVars
  PROVE  BlocksFinite'
<1>1. CASE UNCHANGED blocks
  BY <1>1 DEF BlocksFinite
<1>2. ASSUME NEW w \in Workers, CreateBlock(w) PROVE BlocksFinite'
  BY <1>2, FS_AddElement DEF CreateBlock, BlocksFinite
<1>. QED  BY <1>1, <1>2 DEF CarvesNext, carveVars, BlockStep, CarveInitRefused, BlockRefused,
            CarveInitHandler, CarveBlockHandler, CompleteBlockRead, CompleteBlock, Check,
            Progress, Finish, Stamp, Delete, Restart

LEMMA GetBlocksType ==
  ASSUME DownloadsTypeOK, BlocksFinite, NEW s, NEW found \in GetBlocks(s)
  PROVE  found \in Seq(Nat)
<1>. DEFINE rows == {b \in blocks : b.session = s}
            order == 1 .. Cardinality(rows)
<1>1. PICK f \in [order -> rows] : found = [i \in order |-> f[i].block]
  BY DEF GetBlocks
<1>2. Cardinality(rows) \in Nat
  BY FS_Subset, FS_CardinalityType DEF BlocksFinite
<1>3. \A i \in order : f[i].block \in Nat
  BY <1>1 DEF DownloadsTypeOK, CarvesTypeOK, Delivery
<1>. QED  BY <1>1, <1>2, <1>3

LEMMA DownloadStepTypes ==
  ASSUME DownloadsTypeOK, SessionsKnown, BlocksFinite, NEW d \in Downloads, DownloadStep(d)
  PROVE  /\ archive' \in [Sessions -> [exists : BOOLEAN, blocks : Seq(Nat)]]
         /\ download' \in [Downloads -> DownloadState]
         /\ SessionsKnown'
<1>. DEFINE s == download[d].session
            Types == /\ archive' \in [Sessions -> [exists : BOOLEAN, blocks : Seq(Nat)]]
                     /\ download' \in [Downloads -> DownloadState]
                     /\ SessionsKnown'
<1>0. /\ download[d] \in DownloadState
      /\ archive \in [Sessions -> [exists : BOOLEAN, blocks : Seq(Nat)]]
  BY DEF DownloadsTypeOK
<1>1. ASSUME NEW new \in DownloadState, Step(d, new),
             archive' \in [Sessions -> [exists : BOOLEAN, blocks : Seq(Nat)]],
             new.session \in Sessions \/ new.pc = "failed"
      PROVE  Types
  <2>1. /\ download' \in [Downloads -> DownloadState] /\ download'[d] = new
        /\ \A e \in Downloads : e # d => download'[e] = download[e]
    BY <1>1, StepMoves
  <2>. QED  BY <1>1, <2>1 DEF SessionsKnown, Active
<1>2. ASSUME Fail(d), UNCHANGED archive PROVE Types
  <2>1. [download[d] EXCEPT !.pc = "failed"] \in DownloadState
        /\ [download[d] EXCEPT !.pc = "failed"].pc = "failed"
    BY <1>0, FailType DEF DownloadPCs
  <2>. QED  BY <1>0, <1>1, <1>2, <2>1 DEF Fail
<1>3. download[d].pc \in {"read", "open", "write", "serve"} => s \in Sessions
  BY DEF SessionsKnown, Active
<1>4. ASSUME NEW t \in Sessions, ArchiveStat(d, t) PROVE Types
  <2>. DEFINE new == [download[d] EXCEPT
                !.pc = IF archive[t].exists THEN "serve" ELSE "read",
                !.session = t,
                !.ready = Present(t) /\ file[t].status = "COMPLETED",
                !.size = Len(archive[t].blocks)]
  <2>1. Len(archive[t].blocks) \in Nat
    BY <1>0
  <2>2. (Present(t) /\ file[t].status = "COMPLETED") \in BOOLEAN
    OBVIOUS
  <2>3. new \in DownloadState /\ new.session = t
    <3>. HIDE DEF Present
    <3>. QED  BY <1>0, <2>1, <2>2 DEF DownloadState
  <2>. HIDE DEF new
  <2>. QED  BY <1>0, <1>1, <1>4, <2>3 DEF ArchiveStat, new
<1>5. CASE ArchiveBlocks(d)
  <2>1. PICK found \in GetBlocks(s) :
          \/ Step(d, [download[d] EXCEPT !.pc = "open", !.todo = found])
          \/ Fail(d)
    BY <1>5 DEF ArchiveBlocks
  <2>2. found \in Seq(Nat)
    BY GetBlocksType
  <2>3. /\ [download[d] EXCEPT !.pc = "open", !.todo = found] \in DownloadState
        /\ [download[d] EXCEPT !.pc = "open", !.todo = found].session = s
    BY <1>0, <2>2 DEF DownloadState
  <2>4. s \in Sessions /\ UNCHANGED archive
    BY <1>3, <1>5 DEF ArchiveBlocks
  <2>. QED  BY <1>0, <1>1, <1>2, <2>1, <2>3, <2>4
<1>6. CASE ArchiveOpen(d)
  <2>1. /\ [download[d] EXCEPT !.pc = "write", !.named = Suffix(s)] \in DownloadState
        /\ [download[d] EXCEPT !.pc = "write", !.named = Suffix(s)].session = s
    BY <1>0 DEF DownloadState, Suffix
  <2>2. s \in Sessions
    BY <1>3, <1>6 DEF ArchiveOpen
  <2>3. [archive EXCEPT ![s].exists = TRUE] \in [Sessions -> [exists : BOOLEAN, blocks : Seq(Nat)]]
    BY <1>0, <2>2
  <2>. QED  BY <1>1, <1>2, <1>6, <2>1, <2>2, <2>3 DEF ArchiveOpen
<1>7. CASE ArchiveWrite(d)
  <2>. DEFINE todo == download[d].todo
              new == [download[d] EXCEPT !.todo = Tail(todo), !.size = @ + 1]
              written == Append(archive[s].blocks, Head(todo))
  <2>1. s \in Sessions /\ todo # <<>>
    BY <1>3, <1>7 DEF ArchiveWrite
  <2>2. todo \in Seq(Nat) /\ archive[s].blocks \in Seq(Nat) /\ download[d].size + 1 \in Nat
    BY <1>0, <2>1 DEF DownloadState
  <2>3. Tail(todo) \in Seq(Nat) /\ written \in Seq(Nat)
    <3>1. Head(todo) \in Nat
      BY <2>1, <2>2
    <3>. QED  BY <2>1, <2>2, <3>1
  <2>4. new \in DownloadState /\ new.session = s
    <3>. HIDE DEF todo
    <3>. QED  BY <1>0, <2>2, <2>3 DEF DownloadState
  <2>5. \/ archive' = [archive EXCEPT ![s].blocks = written] /\ Step(d, new)
        \/ Fail(d) /\ UNCHANGED archive
    BY <1>0, <1>7, <2>1 DEF ArchiveWrite
  <2>. HIDE DEF written, new, todo
  <2>6. [archive EXCEPT ![s].blocks = written] \in [Sessions -> [exists : BOOLEAN, blocks : Seq(Nat)]]
    BY <1>0, <2>1, <2>3
  <2>. QED  BY <1>1, <1>2, <2>1, <2>4, <2>5, <2>6
<1>8. CASE ArchiveClose(d)
  <2>1. /\ [download[d] EXCEPT !.pc = "serve"] \in DownloadState
        /\ [download[d] EXCEPT !.pc = "serve"].session = s
    BY <1>0, FailType DEF DownloadPCs
  <2>. QED  BY <1>0, <1>1, <1>3, <1>8, <2>1 DEF ArchiveClose
<1>9. CASE CarvesDownloadHandler(d)
  <2>. DEFINE body == IF download[d].named = Suffix(s) THEN archive[s].blocks ELSE <<>>
              new == [download[d] EXCEPT !.pc = "served", !.body = body]
  <2>1. s \in Sessions
    BY <1>3, <1>9 DEF CarvesDownloadHandler
  <2>2. body \in Seq(Nat)
    BY <1>0, <2>1
  <2>3. Step(d, new) /\ UNCHANGED archive
    BY <1>9 DEF CarvesDownloadHandler
  <2>. HIDE DEF body
  <2>4. new \in DownloadState /\ new.session = s
    BY <1>0, <2>2 DEF DownloadState
  <2>. QED  BY <1>0, <1>1, <2>1, <2>3, <2>4
<1>. QED  BY <1>4, <1>5, <1>6, <1>7, <1>8, <1>9 DEF DownloadStep

(* Files, requests and what they serve keep their types, whatever is sent  *)
(* again, fails or overlaps.                                               *)
THEOREM DownloadsTypeCorrect == DownloadsSpec => []DownloadsTypeOK
<1>. DEFINE Typed == DownloadsTypeOK /\ SessionsKnown /\ BlocksFinite
<1>1. CarvesInit /\ DownloadsInit /\ CarvesIInv => Typed
  <2>1. SUFFICES ASSUME CarvesInit, DownloadsInit, CarvesIInv PROVE Typed
    OBVIOUS
  <2>2. DownloadsTypeOK
    BY <2>1, DownloadsStart DEF CarvesIInv, DownloadsIInv
  <2>. QED  BY <2>1, <2>2, FS_EmptySet DEF CarvesInit, DownloadsInit, SessionsKnown, Active,
              BlocksFinite
<1>2. Typed /\ CarvesIInv /\ CarvesIInv' /\ [DownloadsNext]_downloadsVars => Typed'
  <2>1. SUFFICES ASSUME Typed, CarvesIInv, CarvesIInv', [DownloadsNext]_downloadsVars
                 PROVE  Typed'
    OBVIOUS
  <2>2. BlocksFinite'
    <3>1. [CarvesNext]_carveVars
      BY <2>1, DownloadsAreUploads
    <3>. QED  BY <2>1, <3>1, BlocksStayFinite
  <2>3. CarvesTypeOK'
    BY <2>1 DEF CarvesIInv
  <2>4. disturbed' \subseteq Sessions /\ mixed' \subseteq Sessions
    BY <2>1, DisturbedType
  <2>. DEFINE Kept == /\ archive' \in [Sessions -> [exists : BOOLEAN, blocks : Seq(Nat)]]
                      /\ download' \in [Downloads -> DownloadState]
                      /\ SessionsKnown'
  <2>5. Kept
    <3>1. CASE UNCHANGED downloadVars
      BY <2>1, <3>1 DEF downloadVars, DownloadsTypeOK, SessionsKnown, Active
    <3>2. ASSUME NEW d \in Downloads, DownloadStep(d) PROVE Kept
      BY <2>1, <3>2, DownloadStepTypes
    <3>. QED  BY <2>1, <3>1, <3>2 DEF DownloadsNext, downloadsVars, UploadStep
  <2>. QED  BY <2>2, <2>3, <2>4, <2>5 DEF DownloadsTypeOK
<1>3. DownloadsSpec => []CarvesIInv
  BY UploadsGoOn, CarvesInvariantHolds, PTL
<1>4. Typed => DownloadsTypeOK
  OBVIOUS
<1>. QED  BY <1>1, <1>2, <1>3, <1>4, PTL DEF DownloadsSpec, downloadsVars

-----------------------------------------------------------------------------
(* Files whose blocks are processed one at a time.                         *)

AfterCount == {"check", "progress", "finish", "stamp", "done"}

AtMostOne(s) ==
  \A v, w \in Running : worker[v].session = s /\ worker[w].session = s => v = w

(* How far the goroutine of a block is, and what it knows of its file.     *)
InLine(w, s) ==
  /\ worker[w].pc = "write" => worker[w].seen = file[s].completed
  /\ worker[w].pc \in AfterCount => Current(w) \in counted
  /\ worker[w].pc = "progress" => file[s].completed # Total[file[s].carve]
  /\ worker[w].pc = "stamp" => file[s].status = "COMPLETED"

Exact(s) ==
  /\ file[s].completed = Cardinality(CountedFor(s))
  /\ s \in stamped => file[s].status = "COMPLETED"
  /\ Cardinality(CountedFor(s)) = Total[file[s].carve] =>
       \/ s \in stamped
       \/ \E w \in Workers : worker[w].session = s /\ worker[w].pc \in {"check", "finish", "stamp"}

OneAtATime(s) ==
  AtMostOne(s) /\ Exact(s) /\ \A w \in Workers : worker[w].session = s => InLine(w, s)

(* A file has its time of completion only after as many blocks as it has.  *)
StampedWhole ==
  \A s \in stamped :
    file[s].state # "none" /\ Cardinality(CountedFor(s)) >= Total[file[s].carve]

Orderly == \A s \in Sessions : s \notin disturbed /\ Present(s) => OneAtATime(s)

-----------------------------------------------------------------------------
(* Once as many blocks are counted as the file has, each goroutine of the  *)
(* file has counted its block.                                             *)
LEMMA AllCounted ==
  ASSUME CarvesIInv, ExactlyOnce, NEW s \in Sessions, file[s].state # "none",
         Cardinality(CountedFor(s)) >= Total[file[s].carve],
         NEW w \in Workers, worker[w].pc # "idle", worker[w].session = s
  PROVE  Current(w) \in counted /\ worker[w].pc \in AfterCount
<1>0. /\ CarvesTypeOK /\ EachBlockOnce /\ StoredBeforeCounted /\ CountedOnce
      /\ worker[w] \in WorkerState
  BY DEF CarvesIInv, ExactlyOnce, CarvesTypeOK
<1>1. /\ Total[file[s].carve] \in Nat
      /\ \A b \in 0 .. Total[file[s].carve] - 1 : \E d \in CountedFor(s) : d.block = b
  BY CountedDistinct
<1>2. worker[w].block \in 0 .. Total[file[s].carve] - 1
  BY <1>0, <1>1 DEF EachBlockOnce, WorkerState
<1>3. PICK d \in CountedFor(s) : d.block = worker[w].block
  BY <1>1, <1>2
<1>4. d \in counted /\ d.by \in Workers /\ worker[d.by].pc # "idle" /\ d = Current(d.by)
  BY <1>0, <1>3 DEF CountedFor, StoredBeforeCounted, CarvesTypeOK, Delivery
<1>5. worker[d.by].session = s /\ worker[d.by].block = worker[w].block
  BY <1>3, <1>4 DEF CountedFor, Current
<1>6. d.by = w
  BY <1>0, <1>4, <1>5 DEF EachBlockOnce
<1>7. worker[w].pc \notin {"idle", "store", "read", "write"}
  BY <1>0, <1>4, <1>6 DEF CountedOnce
<1>. QED  BY <1>0, <1>4, <1>6, <1>7 DEF WorkerState, AfterCount

(* What a step that does not concern a file leaves of it.                  *)
Untouched(s) ==
  /\ file'[s] = file[s] /\ CountedFor(s)' = CountedFor(s)
  /\ (s \in stamped') = (s \in stamped)
  /\ \A v \in Workers :
       (worker'[v].session = s /\ worker'[v].pc # "idle") \/
       (worker[v].session = s /\ worker[v].pc # "idle") => worker'[v] = worker[v]
  /\ counted \subseteq counted'

LEMMA UntouchedKeeps ==
  ASSUME NEW s \in Sessions, OneAtATime(s), Untouched(s)
  PROVE  OneAtATime(s)'
<1>1. AtMostOne(s)'
  BY DEF OneAtATime, AtMostOne, Untouched, Running
<1>2. Exact(s)'
  BY DEF OneAtATime, Exact, Untouched
<1>3. ASSUME NEW w \in Workers, worker'[w].session = s PROVE InLine(w, s)'
  <2>1. CASE worker'[w].pc = "idle"
    BY <2>1 DEF InLine, AfterCount
  <2>2. CASE worker'[w].pc # "idle"
    BY <1>3, <2>2 DEF InLine, Untouched, OneAtATime, Current
  <2>. QED  BY <2>1, <2>2
<1>. QED  BY <1>1, <1>2, <1>3 DEF OneAtATime

(* The one goroutine at work on a file takes a step. *)
LEMMA OneMoves ==
  ASSUME CarvesTypeOK, NEW s \in Sessions, OneAtATime(s), NEW w \in Running, worker[w].session = s,
         \A v \in Workers : v # w => worker'[v] = worker[v],
         worker'[w].session = s,
         counted \subseteq counted',
         AtMostOne(s)', Exact(s)', InLine(w, s)'
  PROVE  OneAtATime(s)'
<1>1. ASSUME NEW v \in Workers, worker'[v].session = s PROVE InLine(v, s)'
  <2>1. CASE v = w
    BY <2>1
  <2>2. CASE v # w
    <3>1. worker'[v] = worker[v]
      BY <2>2
    <3>2. v \notin Running
      BY <1>1, <2>2, <3>1 DEF OneAtATime, AtMostOne
    <3>3. worker[v].pc \in {"idle", "done"}
      BY <3>2 DEF Running
    <3>4. InLine(v, s)
      BY <1>1, <3>1 DEF OneAtATime
    <3>. QED  BY <3>1, <3>3, <3>4 DEF InLine, AfterCount, Current
  <2>. QED  BY <2>1, <2>2
<1>. QED  BY <1>1 DEF OneAtATime

(* A goroutine changes no more than the counter and the status of its file. *)
LEMMA BlockUpdates ==
  ASSUME CarvesTypeOK, NEW w \in Workers, BlockStep(w), NEW s \in Sessions
  PROVE  /\ file'[s].state = file[s].state /\ file'[s].carve = file[s].carve
         /\ worker[w].session # s => file'[s] = file[s]
<1>. DEFINE t == worker[w].session
            Kept == /\ file'[s].state = file[s].state /\ file'[s].carve = file[s].carve
                    /\ t # s => file'[s] = file[s]
<1>1. file \in [Sessions -> FileRow] /\ file[s] \in FileRow
  BY DEF CarvesTypeOK
<1>2. ASSUME NEW row, Update(t, row),
             t = s => row.state = file[s].state /\ row.carve = file[s].carve
      PROVE  Kept
  BY <1>1, <1>2 DEF Update
<1>3. \A x : /\ [file[s] EXCEPT !.completed = x].state = file[s].state
             /\ [file[s] EXCEPT !.completed = x].carve = file[s].carve
             /\ [file[s] EXCEPT !.status = x].state = file[s].state
             /\ [file[s] EXCEPT !.status = x].carve = file[s].carve
  BY <1>1 DEF FileRow
<1>4. ASSUME NEW n, Update(t, [file[t] EXCEPT !.completed = n]) PROVE Kept
  <2>. DEFINE row == [file[t] EXCEPT !.completed = n]
  <2>1. t = s => row.state = file[s].state /\ row.carve = file[s].carve
    BY <1>3
  <2>. HIDE DEF row, Kept
  <2>. QED  BY <1>2, <1>4, <2>1 DEF row
<1>5. ASSUME NEW status, Update(t, [file[t] EXCEPT !.status = status]) PROVE Kept
  <2>. DEFINE row == [file[t] EXCEPT !.status = status]
  <2>1. t = s => row.state = file[s].state /\ row.carve = file[s].carve
    BY <1>3
  <2>. HIDE DEF row, Kept
  <2>. QED  BY <1>2, <1>5, <2>1 DEF row
<1>6. CASE UNCHANGED file
  BY <1>6
<1>7. CASE CompleteBlock(w)
  BY <1>4, <1>6, <1>7 DEF CompleteBlock
<1>8. CASE Progress(w)
  BY <1>5, <1>6, <1>8 DEF Progress
<1>9. CASE Finish(w)
  BY <1>5, <1>6, <1>9 DEF Finish
<1>. QED  BY <1>6, <1>7, <1>8, <1>9 DEF BlockStep, CreateBlock, CompleteBlockRead, Check, Stamp

(* Rows of files stay, and so does what was counted. *)
LEMMA FilesStay ==
  ASSUME CarvesTypeOK, [CarvesNext]_carveVars, NEW s \in Sessions, file[s].state # "none"
  PROVE  file'[s].state # "none" /\ file'[s].carve = file[s].carve /\ counted \subseteq counted'
<1>1. file \in [Sessions -> FileRow] /\ file[s] \in FileRow
  BY DEF CarvesTypeOK
<1>2. CASE UNCHANGED <<file, counted>>
  BY <1>2
<1>4. ASSUME NEW w \in Workers, BlockStep(w)
      PROVE  file'[s].state # "none" /\ file'[s].carve = file[s].carve /\ counted \subseteq counted'
  <2>1. counted \subseteq counted'
    BY <1>4 DEF BlockStep, CreateBlock, CompleteBlockRead, CompleteBlock, Check, Progress,
       Finish, Stamp
  <2>. QED  BY <1>4, <2>1, BlockUpdates
<1>5. ASSUME NEW t \in Sessions, Delete(t)
      PROVE  file'[s].state # "none" /\ file'[s].carve = file[s].carve /\ counted \subseteq counted'
  <2>1. [file[t] EXCEPT !.state = "deleted"].carve = file[t].carve
        /\ [file[t] EXCEPT !.state = "deleted"].state = "deleted"
    BY <1>1 DEF FileRow
  <2>. QED  BY <1>1, <1>5, <2>1 DEF Delete
<1>6. ASSUME NEW c \in Carvings, NEW t \in Sessions, CarveInitHandler(c, t)
      PROVE  file'[s].state # "none" /\ file'[s].carve = file[s].carve /\ counted \subseteq counted'
  BY <1>1, <1>6 DEF CarveInitHandler
<1>. QED  BY <1>2, <1>4, <1>5, <1>6 DEF carveVars, CarvesNext, CarveInitRefused, BlockRefused,
            CarveBlockHandler, Restart

LEMMA StampedWholeKept ==
  ASSUME CarvesIInv, CarvesIInv', StampedWhole, [CarvesNext]_carveVars
  PROVE  StampedWhole'
<1>0. /\ CarvesTypeOK /\ Opened /\ FinishNeverEarly /\ stamped \subseteq Sessions
      /\ IsFiniteSet(counted) /\ IsFiniteSet(counted')
  BY DEF CarvesIInv, CarvesTypeOK, CountBounded
<1>1. SUFFICES ASSUME NEW s \in stamped'
               PROVE  /\ file'[s].state # "none"
                      /\ Cardinality(CountedFor(s)') >= Total[file'[s].carve]
  BY DEF StampedWhole
<1>2. /\ s \in Sessions /\ file[s].state # "none"
      /\ Cardinality(CountedFor(s)) >= Total[file[s].carve]
  <2>1. CASE s \in stamped
    BY <1>0, <2>1 DEF StampedWhole
  <2>2. CASE s \notin stamped
    <3>1. PICK w \in Workers : worker[w].pc = "stamp" /\ s = worker[w].session
      BY <1>1, <2>2 DEF CarvesNext, carveVars, CarveInitRefused, BlockRefused, CarveInitHandler,
         CarveBlockHandler, BlockStep, CreateBlock, CompleteBlockRead, CompleteBlock, Check,
         Progress, Finish, Stamp, Delete, Restart
    <3>. QED  BY <1>0, <3>1 DEF Opened, FinishNeverEarly
  <2>. QED  BY <2>1, <2>2
<1>3. file'[s].state # "none" /\ file'[s].carve = file[s].carve /\ counted \subseteq counted'
  BY <1>0, <1>2, FilesStay
<1>4. /\ CountedFor(s) \subseteq CountedFor(s)'
      /\ IsFiniteSet(CountedFor(s)') /\ IsFiniteSet(CountedFor(s))
      /\ Cardinality(CountedFor(s)) \in Nat /\ Cardinality(CountedFor(s)') \in Nat
  <2>1. IsFiniteSet(CountedFor(s)) /\ Cardinality(CountedFor(s)) \in Nat
    BY <1>0, CountedForFinite
  <2>2. CountedFor(s)' \subseteq counted' /\ CountedFor(s) \subseteq CountedFor(s)'
    BY <1>3 DEF CountedFor
  <2>3. IsFiniteSet(CountedFor(s)')
    BY <1>0, <2>2, FS_Subset
  <2>. QED  BY <2>1, <2>2, <2>3, FS_CardinalityType
<1>5. Cardinality(CountedFor(s)) <= Cardinality(CountedFor(s)')
  BY <1>4, FS_Subset
<1>6. Total[file[s].carve] \in Nat
  BY <1>0, <1>2, CarvesAssumption DEF Opened
<1>. QED  BY <1>2, <1>3, <1>4, <1>5, <1>6

(* Two goroutines at a time would disturb the file. *)
LEMMA UndisturbedAlone ==
  ASSUME NEW s \in Sessions, UploadStep, s \notin disturbed'
  PROVE  AtMostOne(s)'
<1>. DEFINE these == {w \in Running' : worker'[w].session = s}
<1>1. ~(Cardinality(these) > 1)
  BY DEF UploadStep
<1>2. SUFFICES ASSUME NEW v \in these, NEW w \in these, v # w PROVE FALSE
  BY DEF AtMostOne
<1>3. IsFiniteSet(these) /\ Cardinality(these) \in Nat
  BY CarvesAssumption, FS_Subset, FS_CardinalityType DEF Running
<1>. HIDE DEF these
<1>4. IsFiniteSet({v}) /\ Cardinality({v}) = 1
  BY FS_Singleton
<1>5. Cardinality({v} \cup {w}) = 2 /\ IsFiniteSet({v} \cup {w})
  BY <1>2, <1>4, FS_AddElement
<1>6. Cardinality({v} \cup {w}) <= Cardinality(these)
  BY <1>3, FS_Subset
<1>. QED  BY <1>1, <1>3, <1>5, <1>6

Nonempty == \A c \in Carvings : Total[c] > 0

(* What the files of the service rely on while their blocks are processed. *)
WholeIInv == CarvesIInv /\ ExactlyOnce /\ StampedWhole /\ Orderly

(* A file that is not complete yet has no time of completion, and none of  *)
(* its goroutines judges it complete.                                      *)
LEMMA CountExact ==
  ASSUME WholeIInv, NEW s \in Sessions, file[s].state # "none", Exact(s)
  PROVE  /\ Total[file[s].carve] \in Nat /\ file[s].completed \in Nat
         /\ file[s].completed = Cardinality(CountedFor(s))
         /\ Cardinality(CountedFor(s)) <= Total[file[s].carve]
         /\ s \in stamped => file[s].completed = Total[file[s].carve]
<1>1. /\ Total[file[s].carve] \in Nat /\ Cardinality(CountedFor(s)) \in Nat
      /\ Cardinality(CountedFor(s)) <= Total[file[s].carve]
  BY CountedDistinct DEF WholeIInv
<1>2. s \in stamped => Cardinality(CountedFor(s)) >= Total[file[s].carve]
  BY DEF WholeIInv, StampedWhole
<1>. QED  BY <1>1, <1>2 DEF Exact

LEMMA BlockNumbers ==
  ASSUME NEW n \in Nat
  PROVE  IsFiniteSet(0 .. n - 1) /\ Cardinality(0 .. n - 1) = n
BY FS_Interval

(* Each block of a file counted, its count is that of the file. *)
LEMMA EachBlockCounted ==
  ASSUME CarvesIInv, NEW s \in Sessions, Total[file[s].carve] \in Nat,
         \A b \in 0 .. Total[file[s].carve] - 1 : \E d \in CountedFor(s) : d.block = b
  PROVE  Cardinality(CountedFor(s)) >= Total[file[s].carve]
<1>0. PICK n \in Nat : n = Total[file[s].carve]
  OBVIOUS
<1>1. IsFiniteSet(0 .. n - 1) /\ Cardinality(0 .. n - 1) = n
  BY BlockNumbers
<1>. DEFINE f == [b \in 0 .. n - 1 |-> CHOOSE d \in CountedFor(s) : d.block = b]
<1>2. f \in Injection(0 .. n - 1, CountedFor(s))
  <2>1. \A b \in 0 .. n - 1 : f[b] \in CountedFor(s) /\ f[b].block = b
    BY <1>0
  <2>2. f \in [0 .. n - 1 -> CountedFor(s)]
    BY <2>1
  <2>. HIDE DEF f
  <2>. QED  BY <2>1, <2>2 DEF Injection, IsInjective
<1>3. IsFiniteSet(CountedFor(s)) /\ Cardinality(CountedFor(s)) \in Nat
  BY CountedForFinite DEF CarvesIInv, CountBounded
<1>4. Cardinality(0 .. n - 1) <= Cardinality(CountedFor(s))
  BY <1>1, <1>2, <1>3, FS_Injection
<1>. QED  BY <1>0, <1>1, <1>3, <1>4

(* The goroutine of a block moves on. *)
LEMMA GoroutineOrderly ==
  ASSUME DBErrors = FALSE, WholeIInv, NEW w \in Workers, BlockStep(w),
         NEW s \in Sessions, Present(s)', OneAtATime(s), AtMostOne(s)'
  PROVE  OneAtATime(s)'
<1>. DEFINE t == worker[w].session
<1>0. /\ CarvesTypeOK /\ Opened /\ CountBounded /\ CountedOnce /\ StampedWhole
      /\ file \in [Sessions -> FileRow] /\ file[s] \in FileRow
      /\ worker \in [Workers -> WorkerState] /\ worker[w] \in WorkerState
  BY DEF WholeIInv, CarvesIInv, CarvesTypeOK
<1>1. w \in Running /\ t \in Sessions /\ file[t].state # "none"
  BY <1>0 DEF BlockStep, CreateBlock, CompleteBlockRead, CompleteBlock, Check, Progress, Finish,
     Stamp, Running, Opened
<1>2. PICK pc \in PCs : \/ Goto(w, pc)
                       \/ /\ pc = "write" /\ worker[w].pc = "read"
                          /\ worker' = [worker EXCEPT ![w].pc = "write", ![w].seen = file[t].completed]
  BY DEF BlockStep, CreateBlock, CompleteBlockRead, CompleteBlock, Check, Progress, Finish,
     Stamp, PCs
<1>3. /\ worker'[w].pc = pc /\ worker'[w].session = t /\ worker'[w].block = worker[w].block
      /\ \A v \in Workers : v # w => worker'[v] = worker[v]
  BY <1>0, <1>2, GotoMoves DEF WorkerState
<1>4. counted \subseteq counted' /\ Current(w)' = Current(w)
  BY <1>3 DEF BlockStep, CreateBlock, CompleteBlockRead, CompleteBlock, Check, Progress, Finish,
     Stamp, Current
<1>5. CASE t # s
  <2>1. file'[s] = file[s] /\ (s \in stamped') = (s \in stamped)
    <3>1. file'[s] = file[s]
      BY <1>0, <1>5, BlockUpdates
    <3>2. UNCHANGED stamped \/ stamped' = stamped \cup {t}
      BY DEF BlockStep, CreateBlock, CompleteBlockRead, CompleteBlock, Check, Progress, Finish, Stamp
    <3>. QED  BY <1>5, <3>1, <3>2
  <2>2. CountedFor(s)' = CountedFor(s)
    <3>1. UNCHANGED counted \/ counted' = counted \cup {Current(w)}
      BY DEF BlockStep, CreateBlock, CompleteBlockRead, CompleteBlock, Check, Progress, Finish, Stamp
    <3>. QED  BY <1>5, <3>1 DEF CountedFor, Current
  <2>. QED  BY <1>3, <1>4, <1>5, <2>1, <2>2, UntouchedKeeps DEF Untouched
<1>6. CASE t = s
  <2>1. Present(s) /\ file'[s].carve = file[s].carve
    BY <1>0, BlockUpdates DEF Present
  <2>2. /\ Total[file[s].carve] \in Nat /\ file[s].completed \in Nat
        /\ file[s].completed = Cardinality(CountedFor(s))
        /\ Cardinality(CountedFor(s)) <= Total[file[s].carve]
        /\ s \in stamped => file[s].completed = Total[file[s].carve]
    BY <1>1, <1>6, CountExact DEF OneAtATime
  <2>3. Exact(s) /\ InLine(w, s)
    BY <1>6 DEF OneAtATime
  <2>4. \A v \in Workers : v # w /\ worker[v].session = s => worker[v].pc \in {"idle", "done"}
    BY <1>1, <1>6 DEF OneAtATime, AtMostOne, Running
  <2>5. SUFFICES Exact(s)' /\ InLine(w, s)'
    BY <1>0, <1>1, <1>3, <1>4, <1>6, OneMoves
  <2>6. CASE CreateBlock(w)
    <3>1. pc = "read" /\ UNCHANGED <<file, stamped, counted>>
      BY <1>0, <1>3, <2>6, GotoMoves DEF CreateBlock, PCs
    <3>2. CountedFor(s)' = CountedFor(s)
      BY <3>1 DEF CountedFor
    <3>. QED  BY <1>3, <2>3, <2>4, <2>6, <3>1, <3>2 DEF Exact, InLine, AfterCount, CreateBlock
  <2>7. CASE CompleteBlockRead(w)
    <3>1. /\ worker'[w].pc = "write" /\ worker'[w].seen = file[s].completed
          /\ UNCHANGED <<file, stamped, counted>>
      BY <1>0, <1>6, <2>1, <2>7 DEF CompleteBlockRead, WorkerState
    <3>2. CountedFor(s)' = CountedFor(s)
      BY <3>1 DEF CountedFor
    <3>. QED  BY <1>3, <2>3, <2>4, <2>7, <3>1, <3>2 DEF Exact, InLine, AfterCount, CompleteBlockRead
  <2>8. CASE CompleteBlock(w)
    <3>1. /\ Update(s, [file[s] EXCEPT !.completed = worker[w].seen + 1])
          /\ counted' = counted \cup {Current(w)} /\ UNCHANGED stamped
          /\ worker[w].pc = "write" /\ worker[w].seen = file[s].completed
      BY <1>6, <2>3, <2>8 DEF CompleteBlock, InLine
    <3>2. worker'[w].pc = "check"
      BY <1>0, <2>8, GotoMoves DEF CompleteBlock, PCs
    <3>3. Current(w) \notin counted /\ Current(w).session = s
      BY <1>0, <1>6, <3>1 DEF CountedOnce, Current
    <3>4. Cardinality(CountedFor(s))' = Cardinality(CountedFor(s)) + 1
      BY <1>0, <3>1, <3>3, CountedForGrows DEF CountBounded
    <3>5. file'[s].completed = file[s].completed + 1 /\ file'[s].status = file[s].status
      BY <1>0, <2>1, <3>1 DEF Update, FileRow
    <3>6. Exact(s)'
      BY <1>3, <1>6, <2>1, <2>2, <2>3, <3>1, <3>2, <3>4, <3>5 DEF Exact
    <3>7. InLine(w, s)'
      BY <1>4, <3>1, <3>2 DEF InLine, AfterCount
    <3>. QED  BY <3>6, <3>7
  <2>9. CASE Check(w)
    <3>1. /\ worker[w].pc = "check" /\ UNCHANGED <<file, stamped, counted>>
          /\ worker'[w].pc = IF file[s].completed = Total[file[s].carve] THEN "finish" ELSE "progress"
      BY <1>0, <1>6, <2>1, <2>9, GotoMoves DEF Check, PCs, Completed
    <3>2. CountedFor(s)' = CountedFor(s)
      BY <3>1 DEF CountedFor
    <3>3. Exact(s)'
      BY <1>3, <1>6, <2>2, <2>3, <2>4, <3>1, <3>2 DEF Exact
    <3>4. InLine(w, s)'
      BY <1>4, <2>3, <3>1 DEF InLine, AfterCount
    <3>. QED  BY <3>3, <3>4
  <2>10. CASE Progress(w)
    <3>1. /\ worker[w].pc = "progress" /\ UNCHANGED <<stamped, counted>>
          /\ Update(s, [file[s] EXCEPT !.status = "IN PROGRESS"])
          /\ worker'[w].pc = "done"
      BY <1>0, <1>6, <2>10, GotoMoves DEF Progress, PCs
    <3>2. CountedFor(s)' = CountedFor(s)
      BY <3>1 DEF CountedFor
    <3>3. file'[s].completed = file[s].completed
      BY <1>0, <2>1, <3>1 DEF Update, FileRow
    <3>4. file[s].completed # Total[file[s].carve] /\ Current(w) \in counted
      BY <2>3, <3>1 DEF InLine, AfterCount
    <3>5. Exact(s)'
      BY <2>1, <2>2, <3>1, <3>2, <3>3, <3>4 DEF Exact
    <3>6. InLine(w, s)'
      BY <1>4, <3>1, <3>4 DEF InLine, AfterCount
    <3>. QED  BY <3>5, <3>6
  <2>11. CASE Finish(w)
    <3>1. /\ worker[w].pc = "finish" /\ UNCHANGED <<stamped, counted>>
          /\ Update(s, [file[s] EXCEPT !.status = "COMPLETED"])
          /\ worker'[w].pc = "stamp"
      BY <1>0, <1>6, <2>1, <2>11, GotoMoves DEF Finish, PCs
    <3>2. CountedFor(s)' = CountedFor(s)
      BY <3>1 DEF CountedFor
    <3>3. file'[s].completed = file[s].completed /\ file'[s].status = "COMPLETED"
      BY <1>0, <2>1, <3>1 DEF Update, FileRow
    <3>4. Exact(s)'
      BY <1>3, <1>6, <2>2, <3>1, <3>2, <3>3 DEF Exact
    <3>5. InLine(w, s)'
      BY <1>4, <2>3, <3>1, <3>3 DEF InLine, AfterCount
    <3>. QED  BY <3>4, <3>5
  <2>12. CASE Stamp(w)
    <3>1. /\ worker[w].pc = "stamp" /\ UNCHANGED <<file, counted>>
          /\ stamped' = stamped \cup {s} /\ worker'[w].pc = "done"
      BY <1>0, <1>6, <2>1, <2>12, GotoMoves DEF Stamp, PCs
    <3>2. CountedFor(s)' = CountedFor(s)
      BY <3>1 DEF CountedFor
    <3>3. Exact(s)' /\ InLine(w, s)'
      BY <1>4, <2>2, <2>3, <3>1, <3>2 DEF Exact, InLine, AfterCount
    <3>. QED  BY <3>3
  <2>. QED  BY <2>6, <2>7, <2>8, <2>9, <2>10, <2>11, <2>12 DEF BlockStep
<1>. QED  BY <1>5, <1>6

(* A file that is opened has no block yet. *)
LEMMA OpenedOrderly ==
  ASSUME Nonempty, WholeIInv, NEW c \in Carvings, NEW s \in Sessions, CarveInitHandler(c, s),
         AtMostOne(s)'
  PROVE  OneAtATime(s)'
<1>0. /\ CarvesTypeOK /\ Opened /\ StampedWhole /\ StoredBeforeCounted
      /\ file \in [Sessions -> FileRow] /\ worker \in [Workers -> WorkerState]
  BY DEF WholeIInv, CarvesIInv, CarvesTypeOK, ExactlyOnce
<1>1. /\ file[s].state = "none" /\ UNCHANGED <<stamped, worker, counted>>
      /\ file'[s] = [state |-> "present", carve |-> c, completed |-> 0, status |-> "INITIALIZED"]
  BY <1>0 DEF CarveInitHandler
<1>2. \A w \in Workers : worker[w].session = s => worker[w].pc = "idle"
  BY <1>0, <1>1 DEF Opened
<1>3. CountedFor(s)' = {}
  <2>1. SUFFICES ASSUME NEW d \in counted, d.session = s PROVE FALSE
    BY <1>1 DEF CountedFor
  <2>2. d.by \in Workers /\ worker[d.by].pc # "idle" /\ d = Current(d.by)
    BY <1>0, <2>1 DEF StoredBeforeCounted, CarvesTypeOK, Delivery
  <2>. QED  BY <1>2, <2>1, <2>2 DEF Current
<1>4. Cardinality(CountedFor(s)') = 0
  BY <1>3, FS_EmptySet
<1>5. s \notin stamped
  BY <1>0, <1>1 DEF StampedWhole
<1>6. Total[c] # 0
  BY CarvesAssumption DEF Nonempty
<1>7. Exact(s)'
  BY <1>1, <1>3, <1>4, <1>5, <1>6 DEF Exact
<1>8. ASSUME NEW w \in Workers, worker'[w].session = s PROVE InLine(w, s)'
  BY <1>1, <1>2, <1>8 DEF InLine, AfterCount
<1>. QED  BY <1>7, <1>8 DEF OneAtATime

(* A block arrives. *)
LEMMA ArrivedOrderly ==
  ASSUME WholeIInv, NEW c \in Carvings, NEW w \in Workers, CarveBlockHandler(c, w),
         NEW s \in Sessions, OneAtATime(s), AtMostOne(s)'
  PROVE  OneAtATime(s)'
<1>. DEFINE t == client[c].session
<1>0. worker \in [Workers -> WorkerState]
  BY DEF WholeIInv, CarvesIInv, CarvesTypeOK
<1>1. /\ UNCHANGED <<file, stamped, counted>> /\ worker[w].pc = "idle"
      /\ worker'[w] = [pc |-> "store", session |-> t, block |-> client[c].next, seen |-> 0]
      /\ \A v \in Workers : v # w => worker'[v] = worker[v]
  BY <1>0 DEF CarveBlockHandler
<1>2. CountedFor(s)' = CountedFor(s)
  BY <1>1 DEF CountedFor
<1>3. Exact(s)'
  BY <1>1, <1>2 DEF OneAtATime, Exact
<1>4. ASSUME NEW v \in Workers, worker'[v].session = s PROVE InLine(v, s)'
  <2>1. CASE v = w
    BY <1>1, <2>1 DEF InLine, AfterCount
  <2>2. CASE v # w
    BY <1>1, <1>4, <2>2 DEF InLine, AfterCount, OneAtATime, Current
  <2>. QED  BY <2>1, <2>2
<1>. QED  BY <1>3, <1>4 DEF OneAtATime

(* The service stops: a goroutine that is lost either judged its file      *)
(* already, or leaves it disturbed.                                        *)
LEMMA RestartOrderly ==
  ASSUME WholeIInv, UploadStep, Restart, NEW s \in Sessions, s \notin disturbed',
         Present(s), OneAtATime(s), AtMostOne(s)'
  PROVE  OneAtATime(s)'
<1>0. /\ worker \in [Workers -> WorkerState] /\ CarvesIInv /\ ExactlyOnce /\ StampedWhole
  BY DEF WholeIInv, CarvesIInv, CarvesTypeOK
<1>1. /\ UNCHANGED <<file, stamped, counted>>
      /\ \A v \in Workers : /\ v \in Running => worker'[v] = [worker[v] EXCEPT !.pc = "done"]
                            /\ v \notin Running => worker'[v] = worker[v]
  BY DEF Restart
<1>2. \A v \in Running : worker'[v].pc = "done" /\ worker'[v].session = worker[v].session
                        /\ worker'[v].block = worker[v].block
  <2>1. SUFFICES ASSUME NEW v \in Running
                 PROVE  /\ worker'[v].pc = "done" /\ worker'[v].session = worker[v].session
                        /\ worker'[v].block = worker[v].block
    OBVIOUS
  <2>2. v \in Workers /\ worker[v] \in WorkerState /\ worker'[v] = [worker[v] EXCEPT !.pc = "done"]
    BY <1>0, <1>1 DEF Running
  <2>. QED  BY <2>2 DEF WorkerState
<1>3. CountedFor(s)' = CountedFor(s)
  BY <1>1 DEF CountedFor
<1>4. \A w \in Running : worker[w].session = s => worker[w].pc = "progress" \/ s \in stamped
  BY <1>1, <1>2 DEF UploadStep
<1>5. file[s].state # "none"
  BY DEF Present
<1>6. Exact(s)'
  <2>1. Exact(s) /\ UNCHANGED <<file[s], stamped>>
    BY <1>1 DEF OneAtATime
  <2>2. ~\E w \in Workers : worker[w].session = s /\ worker[w].pc \in {"check", "finish", "stamp"}
                          /\ s \notin stamped
    BY <1>4 DEF Running
  <2>. QED  BY <1>1, <1>3, <2>1, <2>2 DEF Exact
<1>7. ASSUME NEW v \in Workers, worker'[v].session = s PROVE InLine(v, s)'
  <2>1. CASE v \notin Running
    BY <1>1, <1>7, <2>1 DEF InLine, AfterCount, OneAtATime, Current
  <2>2. CASE v \in Running
    <3>1. worker[v].session = s /\ worker[v].pc # "idle" /\ Current(v)' = Current(v)
      BY <1>2, <1>7, <2>2 DEF Running, Current
    <3>2. Current(v) \in counted
      <4>1. CASE s \in stamped
        <5>1. Cardinality(CountedFor(s)) >= Total[file[s].carve]
          BY <1>0, <4>1 DEF StampedWhole
        <5>. QED  BY <1>0, <1>5, <3>1, <5>1, AllCounted
      <4>2. CASE worker[v].pc = "progress"
        BY <3>1, <4>2 DEF OneAtATime, InLine, AfterCount
      <4>. QED  BY <1>4, <2>2, <3>1, <4>1, <4>2
    <3>. QED  BY <1>1, <1>2, <2>2, <3>1, <3>2 DEF InLine, AfterCount
  <2>. QED  BY <2>1, <2>2
<1>. QED  BY <1>6, <1>7 DEF OneAtATime

LEMMA UploadOrderly ==
  ASSUME DBErrors = FALSE, Nonempty, WholeIInv, UploadStep
  PROVE  Orderly'
<1>1. SUFFICES ASSUME NEW s \in Sessions, s \notin disturbed', Present(s)'
               PROVE  OneAtATime(s)'
  BY DEF Orderly
<1>2. AtMostOne(s)' /\ s \notin disturbed
  BY <1>1, UndisturbedAlone DEF UploadStep
<1>3. /\ CarvesTypeOK /\ Opened /\ file \in [Sessions -> FileRow]
  BY DEF WholeIInv, CarvesIInv, CarvesTypeOK
<1>4. Present(s) => OneAtATime(s)
  BY <1>1, <1>2 DEF WholeIInv, Orderly
<1>5. ASSUME NEW c \in Carvings, NEW t \in Sessions, CarveInitHandler(c, t)
      PROVE  OneAtATime(s)'
  <2>1. CASE t = s
    BY <1>2, <1>5, <2>1, OpenedOrderly
  <2>2. CASE t # s
    <3>1. file'[s] = file[s] /\ UNCHANGED <<stamped, worker, counted>>
      BY <1>3, <1>5, <2>2 DEF CarveInitHandler
    <3>2. Present(s)
      BY <1>1, <3>1 DEF Present
    <3>. QED  BY <1>4, <3>1, <3>2, UntouchedKeeps DEF Untouched, CountedFor
  <2>. QED  BY <2>1, <2>2
<1>6. ASSUME NEW t \in Sessions, Delete(t) PROVE OneAtATime(s)'
  <2>1. /\ \A u \in Sessions : u # t => file'[u] = file[u]
        /\ file'[t].state = "deleted" /\ UNCHANGED <<stamped, worker, counted>>
    BY <1>3, <1>6 DEF Delete, FileRow
  <2>2. t # s
    BY <1>1, <2>1 DEF Present
  <2>3. Present(s)
    BY <1>1, <2>1, <2>2 DEF Present
  <2>. QED  BY <1>4, <2>1, <2>2, <2>3, UntouchedKeeps DEF Untouched, CountedFor
<1>7. ASSUME NEW c \in Carvings, CarveInitRefused(c) \/ BlockRefused(c) PROVE OneAtATime(s)'
  <2>1. UNCHANGED <<file, stamped, worker, counted>>
    BY <1>7 DEF CarveInitRefused, BlockRefused
  <2>. QED  BY <1>1, <1>4, <2>1, UntouchedKeeps DEF Untouched, CountedFor, Present
<1>8. ASSUME NEW c \in Carvings, NEW w \in Workers, CarveBlockHandler(c, w) PROVE OneAtATime(s)'
  <2>1. Present(s)
    BY <1>1, <1>8 DEF Present, CarveBlockHandler
  <2>. QED  BY <1>2, <1>4, <1>8, <2>1, ArrivedOrderly
<1>9. ASSUME NEW w \in Workers, BlockStep(w) PROVE OneAtATime(s)'
  <2>1. Present(s)
    BY <1>1, <1>3, <1>9, BlockUpdates DEF Present
  <2>. QED  BY <1>1, <1>2, <1>4, <1>9, <2>1, GoroutineOrderly
<1>10. CASE Restart
  <2>1. Present(s)
    BY <1>1, <1>10 DEF Present, Restart
  <2>. QED  BY <1>1, <1>2, <1>4, <1>10, <2>1, RestartOrderly
<1>. QED  BY <1>5, <1>6, <1>7, <1>8, <1>9, <1>10 DEF UploadStep, CarvesNext

(* Whether files are downloaded has no part in it. *)
LEMMA WholeStepKeeps ==
  ASSUME DBErrors = FALSE, Nonempty, WholeIInv, CarvesIInv', ExactlyOnce',
         [DownloadsNext]_downloadsVars
  PROVE  WholeIInv'
<1>1. StampedWhole'
  BY DownloadsAreUploads, StampedWholeKept DEF WholeIInv
<1>2. CASE UploadStep
  BY <1>1, <1>2, UploadOrderly DEF WholeIInv
<1>3. CASE UNCHANGED <<carveVars, disturbed>>
  <2>1. ASSUME NEW s \in Sessions, OneAtATime(s) PROVE OneAtATime(s)'
    BY <1>3, <2>1, UntouchedKeeps DEF carveVars, Untouched, CountedFor
  <2>2. Orderly'
    BY <1>3, <2>1 DEF WholeIInv, Orderly, Present, carveVars
  <2>. QED  BY <1>1, <2>2 DEF WholeIInv
<1>. QED  BY <1>2, <1>3 DEF DownloadsNext, downloadsVars, DownloadStep, ArchiveStat,
            ArchiveBlocks, ArchiveOpen, ArchiveWrite, ArchiveClose, CarvesDownloadHandler

LEMMA WholeCompleted ==
  ASSUME WholeIInv PROVE WholeFilesCompleted
<1>1. SUFFICES ASSUME NEW s \in Sessions, Present(s), Whole(s), s \notin disturbed,
                      \A w \in Running : worker[w].session # s
               PROVE  file[s].status = "COMPLETED" /\ s \in stamped
  BY DEF WholeFilesCompleted
<1>2. OneAtATime(s) /\ Exact(s) /\ CarvesIInv /\ ExactlyOnce /\ file[s].state # "none"
  BY <1>1 DEF WholeIInv, Orderly, OneAtATime, Present
<1>3. CarvesTypeOK /\ StoredBeforeCounted
  BY <1>2 DEF CarvesIInv, ExactlyOnce
<1>. DEFINE n == Total[file[s].carve]
<1>4. n \in Nat /\ Cardinality(CountedFor(s)) <= n
  BY <1>2, CountedDistinct
<1>5. \A b \in 0 .. n - 1 : \E d \in CountedFor(s) : d.block = b
  <2>1. SUFFICES ASSUME NEW b \in 0 .. n - 1 PROVE \E d \in CountedFor(s) : d.block = b
    OBVIOUS
  <2>2. PICK d \in blocks : d.session = s /\ d.block = b
    BY <1>1, <2>1 DEF Whole, StoredFor
  <2>3. d.by \in Workers /\ worker[d.by].pc # "idle" /\ d = Current(d.by)
    BY <1>3, <2>2 DEF StoredBeforeCounted, CarvesTypeOK, Delivery
  <2>4. worker[d.by].session = s /\ worker[d.by].pc = "done"
    BY <1>1, <2>2, <2>3 DEF Running, Current
  <2>5. d \in counted
    BY <1>2, <2>3, <2>4 DEF OneAtATime, InLine, AfterCount
  <2>. QED  BY <2>2, <2>5 DEF CountedFor
<1>6. Cardinality(CountedFor(s)) >= n
  BY <1>2, <1>3, <1>4, <1>5, EachBlockCounted
<1>7. s \in stamped
  <2>1. Cardinality(CountedFor(s)) = n
    BY <1>2, <1>4, <1>6, CountedDistinct
  <2>2. ~\E w \in Workers : worker[w].session = s /\ worker[w].pc \in {"check", "finish", "stamp"}
    BY <1>1 DEF Running
  <2>. QED  BY <1>2, <2>1, <2>2 DEF Exact
<1>. QED  BY <1>2, <1>7 DEF Exact

(* A carve of which all blocks are stored is marked COMPLETED, with its    *)
(* time of completion, once its last goroutine ended, however many others  *)
(* are uploaded, deleted, downloaded or lost meanwhile.                    *)
THEOREM WholeFilesSound ==
  ASSUME Resends = 0, DBErrors = FALSE, Nonempty
  PROVE  DownloadsSpec => []WholeFilesCompleted
<1>1. CarvesInit /\ DownloadsInit /\ CarvesIInv /\ ExactlyOnce => WholeIInv
  BY DEF CarvesInit, WholeIInv, StampedWhole, Orderly, Present
<1>2. WholeIInv /\ CarvesIInv' /\ ExactlyOnce' /\ [DownloadsNext]_downloadsVars => WholeIInv'
  BY WholeStepKeeps
<1>3. WholeIInv => WholeFilesCompleted
  BY WholeCompleted
<1>4. DownloadsSpec => []CarvesIInv /\ []ExactlyOnce
  BY UploadsGoOn, CarvesInvariantHolds, ExactlyOnceHolds, PTL
<1>. QED  BY <1>1, <1>2, <1>3, <1>4, PTL DEF DownloadsSpec, downloadsVars
=============================================================================
