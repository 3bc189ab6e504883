-------------------------- MODULE NodeRecordsProofs --------------------------
(***************************************************************************)
(* Theorems about modules NodeMetadata and NodeRecords, for any number of  *)
(* handlers, addresses, names and requests, whatever overlaps or fails.    *)
(***************************************************************************)
EXTENDS NodeRecords, EnrolmentProofs, SequenceTheorems

-----------------------------------------------------------------------------
(* The inductive invariant: what a handler has done ... *)
Reading(r) == "read" \in reqs[r].left

HasRecord(a) == \E i \in DOMAIN ips : ips[i].addr = a

Sound(r) ==
  LET q == reqs[r] IN
  /\ q.kind # "idle" => q.addr \in Addresses
  /\ q.kind = "create" => q.left \subseteq Fields \cup {"ip"} /\ q.node # <<>> /\ q.node[1].addr = q.addr
  /\ q.kind = "update" =>
       \/ q.left = {"read"}
       \/ q.node # <<>> /\ "save" \in q.left /\ q.left \subseteq Fields \cup {"ip", "count", "save"}
  /\ "count" \in q.left => "ip" \notin q.left /\ q.id \in DOMAIN ips /\ ips[q.id].addr = q.addr
  /\ q.kind = "update" /\ q.left # {"read"} =>
       /\ \A f \in Fields \ q.left : q.report[f] \in {"", q.node[1].name[f]} \cup names[f]
       /\ "ip" \notin q.left => q.addr \in {"", q.node[1].addr} \/ HasRecord(q.addr)

(* ... what the row has is recorded or will be by an enrolment ... *)
NameKept(f) ==
  \/ row[1].name[f] \in names[f] \cup enrolled
  \/ \E r \in NodeRequests : reqs[r].kind = "create" /\ f \in reqs[r].left
                             /\ reqs[r].node[1].name[f] = row[1].name[f]

AddressKept ==
  \/ row[1].addr \in enrolled \/ HasRecord(row[1].addr)
  \/ \E r \in NodeRequests : reqs[r].kind = "create" /\ "ip" \in reqs[r].left
                             /\ reqs[r].addr = row[1].addr

RowKept == row # <<>> /\ ~failed => AddressKept /\ \A f \in Fields : NameKept(f)

(* ... and a handler that nothing came between knows the row. *)
Undisturbed ==
  \A r \in AtWork \ crossed :
    /\ \A s \in AtWork : s = r
    /\ reqs[r].kind = "update" /\ ~Reading(r) => row # <<>> /\ reqs[r].node = row

MetadataIInv ==
  /\ MetadataTypeOK
  /\ \A r \in NodeRequests : Sound(r)
  /\ RowKept
  /\ Undisturbed

-----------------------------------------------------------------------------
LEMMA ReportTexts ==
  /\ \A report \in Reports : report \in [Fields -> Text]
  /\ NoReport \in Reports
  /\ \A host \in Hosts : EnrolReport(host) \in [Fields -> Text]
  /\ \A host \in Hosts : \A f \in Fields : EnrolReport(host)[f] \in {host, "unknown"} \ {""}
BY MetadataAssumption DEF Reports, NoReport, EnrolReport, Text

LEMMA IdleRequestType ==
  /\ IdleRequest \in NodeRequest /\ IdleRequest.kind = "idle" /\ IdleRequest.left = {}
<1>1. <<>> \in Seq(MetadataRow)
  BY EmptySeq
<1>. QED  BY <1>1, ReportTexts DEF IdleRequest, NodeRequest

LEMMA RemovalsType == MetadataTypeOK => removals \in Nat /\ MaxRemovals \in Nat
<1>1. MetadataTypeOK => removals \in 0 .. MaxRemovals
  BY DEF MetadataTypeOK
<1>2. MaxRemovals \in Nat
  BY MetadataAssumption
<1>. QED  BY <1>1, <1>2

LEMMA RowType ==
  MetadataTypeOK => /\ row # <<>> => row[1] \in MetadataRow /\ row = <<row[1]>>
                    /\ \A n \in MetadataRow : <<n>> \in Seq(MetadataRow) /\ Len(<<n>>) <= 1 /\ <<n>> # <<>>
                                              /\ <<n>>[1] = n
<1>. SUFFICES ASSUME MetadataTypeOK
              PROVE  /\ row # <<>> => row[1] \in MetadataRow /\ row = <<row[1]>>
                     /\ \A n \in MetadataRow : <<n>> \in Seq(MetadataRow) /\ Len(<<n>>) <= 1 /\ <<n>> # <<>>
                                              /\ <<n>>[1] = n
  OBVIOUS
<1>1. ASSUME NEW n \in MetadataRow
      PROVE  <<n>> \in Seq(MetadataRow) /\ Len(<<n>>) = 1 /\ <<n>> # <<>> /\ <<n>>[1] = n
  OBVIOUS
<1>2. ASSUME row # <<>> PROVE row[1] \in MetadataRow /\ row = <<row[1]>>
  <2>1. Len(row) \in Nat \ {0} /\ Len(row) <= 1 /\ row \in Seq(MetadataRow)
    BY <1>2, EmptySeq DEF MetadataTypeOK
  <2>2. Len(row) = 1
    <3>1. PICK k \in Nat : k = Len(row) /\ k # 0 /\ k <= 1
      BY <2>1
    <3>. QED  BY <3>1
  <2>3. PICK n \in MetadataRow : n = row[1]
    BY <2>1, <2>2, ElementOfSeq
  <2>4. <<n>> \in Seq(MetadataRow) /\ Len(<<n>>) = 1 /\ <<n>>[1] = n
    OBVIOUS
  <2>5. row = <<n>>
    BY <2>1, <2>2, <2>3, <2>4, SeqEqual
  <2>. QED  BY <2>3, <2>5
<1>. QED  BY <1>1, <1>2

LEMMA UpdateType ==
  ASSUME NEW n \in MetadataRow, NEW addr \in Addresses \cup {""}, NEW report \in [Fields -> Text]
  PROVE  /\ Update(n, addr, report) \in MetadataRow
         /\ Update(n, addr, report).id = n.id
         /\ Update(n, addr, report).addr = IF addr = "" THEN n.addr ELSE addr
         /\ \A f \in Fields : Update(n, addr, report).name[f] =
                                IF report[f] = "" THEN n.name[f] ELSE report[f]
<1>1. PICK names2 : names2 = [f \in Fields |-> IF report[f] = "" THEN n.name[f] ELSE report[f]]
  OBVIOUS
<1>2. names2 \in [Fields -> Text]
  BY <1>1 DEF MetadataRow
<1>3. PICK addr2 \in Addresses : addr2 = IF addr = "" THEN n.addr ELSE addr
  BY DEF MetadataRow
<1>4. PICK new : new = [n EXCEPT !.addr = addr2, !.name = names2]
  OBVIOUS
<1>5. Update(n, addr, report) = new
  BY <1>1, <1>3, <1>4 DEF Update
<1>6. new \in MetadataRow /\ new.id = n.id /\ new.addr = addr2 /\ new.name = names2
  BY <1>2, <1>4 DEF MetadataRow
<1>. QED  BY <1>1, <1>3, <1>5, <1>6

(* What a step does to its handler. *)
LEMMA FinishType ==
  ASSUME MetadataTypeOK, NEW r \in NodeRequests, Finish(r)
  PROVE  /\ reqs' \in [NodeRequests -> NodeRequest] /\ reqs'[r] = IdleRequest
         /\ \A s \in NodeRequests \ {r} : reqs'[s] = reqs[s]
BY IdleRequestType DEF Finish, MetadataTypeOK

LEMMA NextStatementType ==
  ASSUME MetadataTypeOK, NEW r \in NodeRequests, NEW step \in Statement, NextStatement(r, step),
         step \in reqs[r].left
  PROVE  /\ reqs' \in [NodeRequests -> NodeRequest]
         /\ \A s \in NodeRequests \ {r} : reqs'[s] = reqs[s]
         /\ \/ reqs'[r] = IdleRequest /\ reqs[r].left = {step}
            \/ /\ reqs'[r].left = reqs[r].left \ {step} /\ reqs'[r].left # {}
               /\ reqs'[r].kind = reqs[r].kind /\ reqs'[r].addr = reqs[r].addr
               /\ reqs'[r].report = reqs[r].report /\ reqs'[r].node = reqs[r].node
               /\ reqs'[r].id = reqs[r].id /\ reqs'[r].count = reqs[r].count
<1>1. PICK q : q = reqs[r]
  OBVIOUS
<1>2. q \in NodeRequest /\ reqs \in [NodeRequests -> NodeRequest]
  BY <1>1 DEF MetadataTypeOK
<1>3. CASE q.left = {step}
  BY <1>1, <1>3, FinishType DEF NextStatement
<1>4. CASE q.left # {step}
  <2>1. PICK p : p = [q EXCEPT !.left = q.left \ {step}]
    OBVIOUS
  <2>2. /\ p \in NodeRequest /\ p.left = q.left \ {step} /\ p.kind = q.kind /\ p.addr = q.addr
        /\ p.report = q.report /\ p.node = q.node /\ p.id = q.id /\ p.count = q.count
    BY <1>2, <2>1 DEF NodeRequest
  <2>3. p.left # {}
    BY <1>1, <1>4, <2>2
  <2>4. reqs' = [reqs EXCEPT ![r] = p]
    BY <1>1, <1>4, <2>1 DEF NextStatement
  <2>. QED  BY <1>1, <1>2, <2>2, <2>3, <2>4
<1>. QED  BY <1>3, <1>4

(* Handlers that end or go on keep the types of requests. *)
LEMMA RequestsKept ==
  ASSUME MetadataTypeOK, NEW r \in NodeRequests, reqs' \in [NodeRequests -> NodeRequest],
         \A s \in NodeRequests \ {r} : reqs'[s] = reqs[s],
         reqs'[r].left = {} <=> reqs'[r].kind = "idle"
  PROVE  \A s \in NodeRequests : reqs'[s].left = {} <=> reqs'[s].kind = "idle"
BY DEF MetadataTypeOK

(* The statement of a log that saves the row is its last one. *)
LEMMA LastIsSave ==
  ASSUME MetadataIInv, NEW r \in NodeRequests, Todo(r, "save")
  PROVE  reqs[r].left = {"save"} /\ reqs[r].kind = "update"
<1>1. reqs[r].kind = "update" /\ reqs[r].left \subseteq Fields \cup {"ip", "count", "save"}
  <2>1. PICK q \in NodeRequest : q = reqs[r]
    BY DEF MetadataIInv, MetadataTypeOK
  <2>2. "save" \in q.left
    BY <2>1 DEF Todo
  <2>3. /\ q.kind = "create" => q.left \subseteq Fields \cup {"ip"}
        /\ q.kind = "update" => q.left = {"read"} \/ q.left \subseteq Fields \cup {"ip", "count", "save"}
    BY <2>1 DEF MetadataIInv, Sound
  <2>4. "save" \notin Fields \cup {"ip"} /\ "save" \notin {"read"}
    BY DEF Fields
  <2>5. q.kind # "create" /\ q.left # {"read"}
    BY <2>2, <2>3, <2>4
  <2>6. q.kind # "idle"
    BY <2>1, <2>2 DEF MetadataIInv, MetadataTypeOK
  <2>7. q.kind \in {"idle", "create", "update"}
    BY DEF NodeRequest
  <2>. QED  BY <2>1, <2>3, <2>5, <2>6, <2>7
<1>2. \A other \in Fields \cup {"ip", "count"} : ~(LogOrder["save"] <= LogOrder[other])
  BY DEF LogOrder, Fields
<1>3. \A other \in reqs[r].left : LogOrder["save"] <= LogOrder[other]
  BY <1>1 DEF Todo, Place
<1>. QED  BY <1>1, <1>2, <1>3 DEF Todo

(* What others do leaves a handler sound.  *)
LEMMA SoundKept ==
  ASSUME MetadataTypeOK, NEW s \in NodeRequests, Sound(s), reqs'[s] = reqs[s],
         \A f \in Fields : names[f] \subseteq names'[f],
         \A i \in DOMAIN ips : i \in DOMAIN ips' /\ ips'[i].addr = ips[i].addr
  PROVE  Sound(s)'
BY DEF Sound, HasRecord

LEMMA IdleSound ==
  ASSUME NEW s \in NodeRequests, reqs'[s] = IdleRequest
  PROVE  Sound(s)'
BY IdleRequestType DEF Sound

LEMMA WriteRecordType ==
  ASSUME MetadataTypeOK, NEW i \in 1 .. Len(ips) + 1, NEW addr \in Addresses, NEW count \in Nat,
         WriteRecord(i, addr, count)
  PROVE  /\ ips' \in Seq(IPRecord) /\ DOMAIN ips' = DOMAIN ips \cup {i}
         /\ ips'[i].addr = addr /\ ips'[i].count = count
         /\ \A j \in DOMAIN ips \ {i} : ips'[j].addr = ips[j].addr /\ ips'[j].count = ips[j].count
<1>1. /\ DOMAIN ips = 1 .. Len(ips) /\ Len(ips) \in Nat
      /\ \A j \in DOMAIN ips : ips[j] \in IPRecord
  BY LenProperties, ElementOfSeq DEF MetadataTypeOK
<1>2. PICK n \in Nat : DOMAIN ips \cup {i} = 1 .. n
  <2>1. CASE i \in DOMAIN ips
    BY <1>1, <2>1
  <2>2. CASE i \notin DOMAIN ips
    <3>1. i = Len(ips) + 1
      BY <1>1, <2>2
    <3>2. DOMAIN ips \cup {i} = 1 .. Len(ips) + 1
      BY <1>1, <3>1
    <3>. QED  BY <1>1, <3>2
  <2>. QED  BY <2>1, <2>2
<1>3. DOMAIN ips' = DOMAIN ips \cup {i}
  BY DEF WriteRecord
<1>4. PICK new : new = [addr |-> addr, count |-> count, older |-> DOMAIN ips \ {i}]
  OBVIOUS
<1>5. new \in IPRecord /\ new.addr = addr /\ new.count = count
  BY <1>1, <1>4 DEF IPRecord
<1>6. ips'[i] = new
  BY <1>4 DEF WriteRecord
<1>7. ASSUME NEW j \in DOMAIN ips \ {i}
      PROVE  ips'[j] \in IPRecord /\ ips'[j].addr = ips[j].addr /\ ips'[j].count = ips[j].count
  <2>1. PICK was \in IPRecord : was = ips[j]
    BY <1>1
  <2>2. ips'[j] = [was EXCEPT !.older = was.older \ {i}]
    BY <2>1 DEF WriteRecord
  <2>. QED  BY <2>1, <2>2 DEF IPRecord
<1>8. ips' \in [1 .. n -> IPRecord]
  BY <1>2, <1>3, <1>5, <1>6, <1>7 DEF WriteRecord
<1>9. ips' \in Seq(IPRecord)
  BY <1>8, SeqDef
<1>. QED  BY <1>3, <1>5, <1>6, <1>7, <1>9

-----------------------------------------------------------------------------
(* A statement of a handler that leaves the row alone. *)
LEMMA HandlerKeeps ==
  ASSUME MetadataIInv, NEW r \in NodeRequests, Handling(r),
         reqs' \in [NodeRequests -> NodeRequest], \A s \in NodeRequests \ {r} : reqs'[s] = reqs[s],
         reqs'[r].left = {} <=> reqs'[r].kind = "idle",
         UNCHANGED <<row, requested, enrolled, crossed, removals>>,
         names' \in [Fields -> SUBSET Text], \A f \in Fields : names[f] \subseteq names'[f],
         ips' \in Seq(IPRecord),
         \A i \in DOMAIN ips : i \in DOMAIN ips' /\ ips'[i].addr = ips[i].addr,
         failed' \in BOOLEAN, failed => failed',
         Sound(r)',
         \/ reqs'[r].kind = "idle"
         \/ reqs'[r].kind = reqs[r].kind /\ ~Reading(r)' /\
            ((~Reading(r) /\ reqs'[r].node = reqs[r].node) \/ (Reading(r) /\ row # <<>> /\ reqs'[r].node = row)),
         reqs[r].kind = "create" /\ ~failed' =>
           /\ reqs'[r].kind = "create" => reqs'[r].addr = reqs[r].addr /\ reqs'[r].node = reqs[r].node
           /\ \A f \in Fields \cap reqs[r].left :
                f \in reqs'[r].left \/ reqs[r].node[1].name[f] \in names'[f]
           /\ "ip" \in reqs[r].left => "ip" \in reqs'[r].left
                \/ \E i \in DOMAIN ips' : ips'[i].addr = reqs[r].addr
  PROVE  MetadataIInv'
<1>1. MetadataTypeOK'
  BY RequestsKept DEF MetadataIInv, MetadataTypeOK
<1>2. \A s \in NodeRequests : Sound(s)'
  BY SoundKept DEF MetadataIInv
<1>3. \A s \in AtWork' : s \in AtWork
  BY DEF AtWork, Handling
<1>4. Undisturbed'
  <2>. SUFFICES ASSUME NEW s \in AtWork', s \notin crossed
                PROVE  /\ \A u \in AtWork' : u = s
                       /\ reqs'[s].kind = "update" /\ ~Reading(s)' => row # <<>> /\ reqs'[s].node = row
    BY DEF Undisturbed
  <2>1. /\ \A u \in AtWork : u = s
        /\ reqs[s].kind = "update" /\ ~Reading(s) => row # <<>> /\ reqs[s].node = row
    BY <1>3 DEF MetadataIInv, Undisturbed
  <2>2. s = r
    BY <2>1 DEF AtWork
  <2>. QED  BY <1>3, <2>1, <2>2
<1>5. RowKept'
  <2>. SUFFICES ASSUME row # <<>>, ~failed' PROVE AddressKept' /\ \A f \in Fields : NameKept(f)'
    BY DEF RowKept
  <2>1. ~failed /\ AddressKept /\ \A f \in Fields : NameKept(f)
    BY DEF MetadataIInv, RowKept
  <2>2. \A a : HasRecord(a) => HasRecord(a)'
    BY DEF HasRecord
  <2>3. reqs[r].kind = "create" => reqs'[r].kind \in {"create", "idle"}
    OBVIOUS
  <2>4. reqs'[r].kind = "idle" => reqs'[r].left = {}
    OBVIOUS
  <2>5. AddressKept'
    <3>1. CASE row[1].addr \in enrolled \/ HasRecord(row[1].addr)
      BY <2>2, <3>1 DEF AddressKept, HasRecord
    <3>2. ASSUME NEW s \in NodeRequests, reqs[s].kind = "create", "ip" \in reqs[s].left,
                 reqs[s].addr = row[1].addr
          PROVE  AddressKept'
      <4>1. CASE s # r
        BY <3>2, <4>1 DEF AddressKept
      <4>2. CASE s = r /\ "ip" \in reqs'[r].left
        BY <2>3, <2>4, <3>2, <4>2 DEF AddressKept
      <4>3. CASE s = r /\ \E i \in DOMAIN ips' : ips'[i].addr = reqs[r].addr
        BY <3>2, <4>3 DEF AddressKept, HasRecord
      <4>. QED  BY <3>2, <4>1, <4>2, <4>3
    <3>. QED  BY <2>1, <3>1, <3>2 DEF AddressKept
  <2>6. ASSUME NEW f \in Fields PROVE NameKept(f)'
    <3>1. CASE row[1].name[f] \in names[f] \cup enrolled
      BY <3>1 DEF NameKept
    <3>2. ASSUME NEW s \in NodeRequests, reqs[s].kind = "create", f \in reqs[s].left,
                 reqs[s].node[1].name[f] = row[1].name[f]
          PROVE  NameKept(f)'
      <4>1. CASE s # r
        BY <3>2, <4>1 DEF NameKept
      <4>2. CASE s = r /\ f \in reqs'[r].left
        BY <2>3, <2>4, <3>2, <4>2 DEF NameKept
      <4>3. CASE s = r /\ reqs[r].node[1].name[f] \in names'[f]
        BY <3>2, <4>3 DEF NameKept
      <4>. QED  BY <3>2, <4>1, <4>2, <4>3
    <3>. QED  BY <2>1, <3>1, <3>2 DEF NameKept
  <2>. QED  BY <2>5, <2>6
<1>. QED  BY <1>1, <1>2, <1>4, <1>5 DEF MetadataIInv

LEMMA GiveUpKeeps ==
  ASSUME MetadataIInv, NEW r \in NodeRequests, Handling(r), Finish(r),
         UNCHANGED <<row, names, ips, requested, enrolled, crossed, removals>>,
         failed' \in BOOLEAN, failed => failed', failed' \/ reqs[r].kind = "update"
  PROVE  MetadataIInv'
<1>1. /\ reqs' \in [NodeRequests -> NodeRequest] /\ reqs'[r] = IdleRequest
      /\ \A s \in NodeRequests \ {r} : reqs'[s] = reqs[s]
  BY FinishType DEF MetadataIInv
<1>2. reqs'[r].left = {} /\ reqs'[r].kind = "idle"
  BY <1>1, IdleRequestType
<1>3. Sound(r)'
  BY <1>1, IdleSound
<1>4. names' \in [Fields -> SUBSET Text] /\ ips' \in Seq(IPRecord)
  BY DEF MetadataIInv, MetadataTypeOK
<1>. QED  BY <1>1, <1>2, <1>3, <1>4, HandlerKeeps

LEMMA ReadKeeps ==
  ASSUME MetadataIInv, NEW r \in NodeRequests, ReadNode(r)
  PROVE  MetadataIInv'
<1>0. MetadataTypeOK /\ Sound(r)
  BY DEF MetadataIInv
<1>1. /\ Handling(r) /\ Reading(r) /\ reqs[r].kind = "update"
      /\ UNCHANGED <<row, names, ips, requested, enrolled, crossed, removals>>
  <2>1. Reading(r)
    BY DEF ReadNode, Todo, Reading
  <2>2. "read" \notin Fields \cup {"ip"}
    BY DEF Fields
  <2>3. reqs[r].kind # "create" /\ reqs[r].kind # "idle"
    BY <1>0, <2>1, <2>2 DEF Sound, Reading, MetadataTypeOK
  <2>4. reqs[r].kind \in {"idle", "create", "update"}
    BY <1>0 DEF MetadataTypeOK, NodeRequest
  <2>. QED  BY <2>1, <2>3, <2>4 DEF ReadNode, Handling
<1>2. CASE GiveUp(r)
  BY <1>1, <1>2, GiveUpKeeps DEF GiveUp
<1>3. CASE Finish(r) /\ UNCHANGED failed
  BY <1>0, <1>1, <1>3, GiveUpKeeps DEF MetadataTypeOK
<1>4. CASE /\ row # <<>> /\ UNCHANGED failed
           /\ reqs' = [reqs EXCEPT ![r].node = row,
                ![r].left = {"ip", "save"} \cup
                   {f \in Fields : reqs[r].report[f] \notin {"", row[1].name[f]}}]
  <2>1. PICK q \in NodeRequest : q = reqs[r]
    BY <1>0 DEF MetadataTypeOK
  <2>2. PICK left : left = {"ip", "save"} \cup {f \in Fields : q.report[f] \notin {"", row[1].name[f]}}
    OBVIOUS
  <2>3. PICK p : p = [q EXCEPT !.node = row, !.left = left]
    OBVIOUS
  <2>4. left \subseteq Statement /\ row \in Seq(MetadataRow)
    BY <1>0, <2>2 DEF Statement, MetadataTypeOK
  <2>5. /\ p \in NodeRequest /\ p.node = row /\ p.left = left /\ p.kind = "update" /\ p.addr = q.addr
        /\ p.report = q.report
    BY <1>1, <2>1, <2>3, <2>4 DEF NodeRequest
  <2>6. /\ reqs' = [reqs EXCEPT ![r] = p] /\ reqs' \in [NodeRequests -> NodeRequest] /\ reqs'[r] = p
        /\ \A s \in NodeRequests \ {r} : reqs'[s] = reqs[s]
    BY <1>0, <1>4, <2>1, <2>2, <2>3, <2>5 DEF MetadataTypeOK
  <2>7. /\ "ip" \in left /\ "save" \in left /\ "count" \notin left /\ "read" \notin left
        /\ left \subseteq Fields \cup {"ip", "count", "save"}
        /\ \A f \in Fields \ left : q.report[f] \in {"", row[1].name[f]}
    BY <2>2 DEF Fields
  <2>8. q.addr \in Addresses
    BY <1>0, <1>1, <2>1 DEF Sound
  <2>9. Sound(r)'
    BY <1>4, <2>5, <2>6, <2>7, <2>8 DEF Sound
  <2>10. names' \in [Fields -> SUBSET Text] /\ ips' \in Seq(IPRecord) /\ failed' \in BOOLEAN
    BY <1>0, <1>1, <1>4 DEF MetadataTypeOK
  <2>11. reqs'[r].left # {} /\ reqs'[r].kind = "update" /\ ~Reading(r)' /\ reqs'[r].node = row
    BY <2>5, <2>6, <2>7 DEF Reading
  <2>. QED  BY <1>1, <1>4, <2>6, <2>9, <2>10, <2>11, HandlerKeeps
<1>. QED  BY <1>2, <1>3, <1>4 DEF ReadNode

LEMMA NameKeeps ==
  ASSUME MetadataIInv, NEW r \in NodeRequests, RecordName(r)
  PROVE  MetadataIInv'
<1>0. MetadataTypeOK /\ Sound(r)
  BY DEF MetadataIInv
<1>1. PICK f \in Fields : /\ Todo(r, f)
                          /\ \/ /\ names' = [names EXCEPT ![f] = @ \cup
                                    {IF reqs[r].kind = "create" THEN reqs[r].node[1].name[f] ELSE reqs[r].report[f]}]
                                /\ NextStatement(r, f)
                                /\ UNCHANGED failed
                             \/ GiveUp(r) /\ UNCHANGED names
  BY DEF RecordName
<1>2. f \in reqs[r].left /\ UNCHANGED <<row, ips, requested, enrolled, crossed, removals>>
  BY <1>1 DEF Todo, RecordName
<1>3. /\ Handling(r) /\ reqs[r].kind \in {"create", "update"}
      /\ ~Reading(r) /\ reqs[r].node # <<>>
  <2>1. reqs[r].kind # "idle"
    BY <1>0, <1>2 DEF MetadataTypeOK
  <2>2. reqs[r].kind \in {"idle", "create", "update"}
    BY <1>0 DEF MetadataTypeOK, NodeRequest
  <2>3. "read" \notin Fields \cup {"ip", "count", "save"}
    BY DEF Fields
  <2>. QED  BY <1>0, <1>2, <2>1, <2>2, <2>3 DEF Handling, Sound, Reading
<1>4. CASE GiveUp(r) /\ UNCHANGED names
  BY <1>2, <1>3, <1>4, GiveUpKeeps DEF GiveUp
<1>5. CASE /\ names' = [names EXCEPT ![f] = @ \cup
                {IF reqs[r].kind = "create" THEN reqs[r].node[1].name[f] ELSE reqs[r].report[f]}]
           /\ NextStatement(r, f) /\ UNCHANGED failed
  <2>1. PICK q \in NodeRequest : q = reqs[r]
    BY <1>0 DEF MetadataTypeOK
  <2>2. PICK v : v = IF q.kind = "create" THEN q.node[1].name[f] ELSE q.report[f]
    OBVIOUS
  <2>3. v \in Text
    <3>1. q.node \in Seq(MetadataRow) /\ q.node # <<>> /\ q.report \in [Fields -> Text]
      BY <1>3, <2>1, ReportTexts DEF NodeRequest
    <3>2. q.node[1] \in MetadataRow
      BY <3>1, EmptySeq, ElementOfSeq
    <3>. QED  BY <2>2, <3>1, <3>2 DEF MetadataRow
  <2>4. /\ names' \in [Fields -> SUBSET Text] /\ v \in names'[f]
        /\ \A g \in Fields : names[g] \subseteq names'[g]
    BY <1>0, <1>5, <2>1, <2>2, <2>3 DEF MetadataTypeOK
  <2>5. f \in Statement
    BY DEF Statement
  <2>6. /\ reqs' \in [NodeRequests -> NodeRequest]
        /\ \A s \in NodeRequests \ {r} : reqs'[s] = reqs[s]
        /\ \/ reqs'[r] = IdleRequest /\ q.left = {f}
           \/ /\ reqs'[r].left = q.left \ {f} /\ reqs'[r].left # {}
              /\ reqs'[r].kind = q.kind /\ reqs'[r].addr = q.addr
              /\ reqs'[r].report = q.report /\ reqs'[r].node = q.node
              /\ reqs'[r].id = q.id /\ reqs'[r].count = q.count
    BY <1>0, <1>2, <1>5, <2>1, <2>5, NextStatementType
  <2>7. f \notin {"ip", "count", "save", "read"}
    BY DEF Fields
  <2>8. Sound(r)'
    <3>1. CASE reqs'[r] = IdleRequest
      BY <3>1, IdleSound
    <3>2. CASE reqs'[r] # IdleRequest
      <4>1. \A g \in Fields \ reqs'[r].left : g = f \/ g \in Fields \ q.left
        BY <2>6, <3>2
      <4>2. q.kind = "update" => v = q.report[f]
        BY <2>2
      <4>3. PICK p : p = reqs'[r]
        OBVIOUS
      <4>4. /\ p.left = q.left \ {f} /\ p.left # {} /\ p.kind = q.kind /\ p.addr = q.addr
            /\ p.report = q.report /\ p.node = q.node /\ p.id = q.id
        BY <2>6, <3>2, <4>3
      <4>5. /\ q.addr \in Addresses
            /\ q.kind = "create" => q.left \subseteq Fields \cup {"ip"} /\ q.node[1].addr = q.addr
            /\ q.kind = "update" => "save" \in q.left /\ q.left \subseteq Fields \cup {"ip", "count", "save"}
            /\ "count" \in q.left => "ip" \notin q.left /\ q.id \in DOMAIN ips /\ ips[q.id].addr = q.addr
            /\ q.kind = "update" =>
                 /\ \A g \in Fields \ q.left : q.report[g] \in {"", q.node[1].name[g]} \cup names[g]
                 /\ "ip" \notin q.left => q.addr \in {"", q.node[1].addr} \/ HasRecord(q.addr)
        BY <1>0, <1>3, <2>1 DEF Sound, Reading
      <4>6. /\ "save" \in q.left => "save" \in p.left
            /\ "ip" \in q.left <=> "ip" \in p.left
            /\ "count" \in q.left <=> "count" \in p.left
        BY <2>7, <4>4
      <4>7. p.kind = "update" => \A g \in Fields \ p.left : p.report[g] \in {"", p.node[1].name[g]} \cup names'[g]
        <5>. SUFFICES ASSUME p.kind = "update", NEW g \in Fields, g \notin p.left
                      PROVE  p.report[g] \in {"", p.node[1].name[g]} \cup names'[g]
          OBVIOUS
        <5>1. CASE g = f
          BY <2>4, <4>2, <4>4, <5>1
        <5>2. CASE g # f
          <6>1. q.report[g] \in {"", q.node[1].name[g]} \cup names[g]
            BY <4>1, <4>3, <4>4, <4>5, <5>2
          <6>2. names[g] \subseteq names'[g]
            BY <2>4
          <6>. QED  BY <4>4, <6>1, <6>2
        <5>. QED  BY <5>1, <5>2
      <4>8. ips' = ips /\ p.node # <<>>
        BY <1>2, <1>3, <2>1, <4>4
      <4>. QED  BY <4>3, <4>4, <4>5, <4>6, <4>7, <4>8 DEF Sound, HasRecord
    <3>. QED  BY <3>1, <3>2
  <2>9. reqs'[r].left = {} <=> reqs'[r].kind = "idle"
    BY <1>3, <2>1, <2>6, IdleRequestType
  <2>10. \/ reqs'[r].kind = "idle"
         \/ /\ reqs'[r].kind = reqs[r].kind /\ ~Reading(r)' /\ reqs'[r].node = reqs[r].node
            /\ reqs'[r].addr = reqs[r].addr
    BY <1>3, <2>1, <2>6, IdleRequestType DEF Reading
  <2>11. reqs[r].kind = "create" /\ ~failed' =>
           /\ \A g \in Fields \cap reqs[r].left :
                g \in reqs'[r].left \/ reqs[r].node[1].name[g] \in names'[g]
           /\ "ip" \in reqs[r].left => "ip" \in reqs'[r].left
    BY <2>1, <2>2, <2>4, <2>6, <2>7, IdleRequestType
  <2>12. ips' \in Seq(IPRecord) /\ failed' \in BOOLEAN
    BY <1>0, <1>2, <1>5 DEF MetadataTypeOK
  <2>13. reqs[r].kind = "create" /\ reqs'[r].kind = "create" =>
           reqs'[r].addr = reqs[r].addr /\ reqs'[r].node = reqs[r].node
    BY <2>10
  <2>. QED  BY <1>2, <1>3, <1>5, <2>4, <2>6, <2>8, <2>9, <2>10, <2>11, <2>12, <2>13, HandlerKeeps
<1>. QED  BY <1>1, <1>4, <1>5

LEMMA AddressKeeps ==
  ASSUME MetadataIInv, NEW r \in NodeRequests, RecordAddress(r)
  PROVE  MetadataIInv'
<1>0. MetadataTypeOK /\ Sound(r)
  BY DEF MetadataIInv
<1>1. /\ "ip" \in reqs[r].left /\ UNCHANGED <<row, names, requested, enrolled, crossed, removals>>
      /\ names' \in [Fields -> SUBSET Text]
  BY <1>0 DEF RecordAddress, Todo, MetadataTypeOK
<1>2. PICK q \in NodeRequest : q = reqs[r]
  BY <1>0 DEF MetadataTypeOK
<1>3. /\ Handling(r) /\ q.kind \in {"create", "update"}
      /\ ~Reading(r) /\ q.node # <<>>
  <2>1. reqs[r].kind # "idle"
    BY <1>0, <1>1 DEF MetadataTypeOK
  <2>2. reqs[r].kind \in {"idle", "create", "update"}
    BY <1>2 DEF NodeRequest
  <2>3. "read" \notin Fields \cup {"ip", "count", "save"}
    BY DEF Fields
  <2>. QED  BY <1>0, <1>1, <1>2, <2>1, <2>2, <2>3 DEF Handling, Sound, Reading
<1>4. /\ q.addr \in Addresses
      /\ q.kind = "create" => q.left \subseteq Fields \cup {"ip"} /\ q.node[1].addr = q.addr
      /\ q.kind = "update" => "save" \in q.left /\ q.left \subseteq Fields \cup {"ip", "count", "save"}
      /\ "count" \notin q.left
      /\ q.kind = "update" =>
           \A g \in Fields \ q.left : q.report[g] \in {"", q.node[1].name[g]} \cup names[g]
  BY <1>0, <1>1, <1>2, <1>3 DEF Sound, Reading
<1>5. CASE GiveUp(r) /\ UNCHANGED ips
  BY <1>1, <1>3, <1>5, GiveUpKeeps DEF GiveUp
<1>6. CASE ~NewAddress(r) /\ Finish(r) /\ UNCHANGED <<ips, failed>>
  BY <1>0, <1>1, <1>2, <1>3, <1>6, GiveUpKeeps DEF NewAddress, MetadataTypeOK
<1>7. ASSUME ~NewAddress(r), NEW i \in RecordsOf(reqs[r].addr), UNCHANGED <<ips, failed>>,
             reqs' = [reqs EXCEPT ![r].id = i, ![r].count = ips[i].count,
                                     ![r].left = {"count"} \cup (@ \ {"ip"})]
      PROVE  MetadataIInv'
  <2>1. i \in DOMAIN ips /\ ips[i].addr = q.addr /\ ips[i].count \in Nat /\ i \in Nat
    <3>1. i \in DOMAIN ips /\ ips[i].addr = q.addr
      BY <1>2, <1>7 DEF RecordsOf
    <3>2. DOMAIN ips = 1 .. Len(ips) /\ Len(ips) \in Nat /\ ips[i] \in IPRecord
      BY <1>0, <3>1, LenProperties, ElementOfSeq DEF MetadataTypeOK
    <3>. QED  BY <3>1, <3>2 DEF IPRecord
  <2>2. PICK left : left = {"count"} \cup (q.left \ {"ip"})
    OBVIOUS
  <2>3. PICK p : p = [q EXCEPT !.id = i, !.count = ips[i].count, !.left = left]
    OBVIOUS
  <2>4. left \subseteq Statement
    BY <1>2, <2>2 DEF Statement, NodeRequest
  <2>5. /\ p \in NodeRequest /\ p.left = left /\ p.kind = q.kind /\ p.addr = q.addr
        /\ p.report = q.report /\ p.node = q.node /\ p.id = i
    BY <2>1, <2>3, <2>4 DEF NodeRequest
  <2>6. /\ reqs' = [reqs EXCEPT ![r] = p] /\ reqs' \in [NodeRequests -> NodeRequest] /\ reqs'[r] = p
        /\ \A s \in NodeRequests \ {r} : reqs'[s] = reqs[s]
    BY <1>0, <1>2, <1>7, <2>2, <2>3, <2>5 DEF MetadataTypeOK
  <2>7. q.kind = "update" /\ q.addr \in {"", q.node[1].addr}
    BY <1>2, <1>3, <1>7 DEF NewAddress
  <2>8. /\ "ip" \notin left /\ "save" \in left /\ "count" \in left /\ "read" \notin left
        /\ left \subseteq Fields \cup {"ip", "count", "save"}
        /\ \A g \in Fields \ left : g \in Fields \ q.left
    BY <1>4, <2>2, <2>7 DEF Fields
  <2>9. Sound(r)'
    BY <1>1, <1>3, <1>4, <1>7, <2>1, <2>5, <2>6, <2>7, <2>8 DEF Sound
  <2>10. ips' \in Seq(IPRecord) /\ failed' \in BOOLEAN
    BY <1>0, <1>7 DEF MetadataTypeOK
  <2>11. reqs'[r].left # {} /\ reqs'[r].kind = "update" /\ ~Reading(r)' /\ reqs'[r].node = reqs[r].node
    BY <1>2, <2>5, <2>6, <2>7, <2>8 DEF Reading
  <2>. QED  BY <1>1, <1>2, <1>3, <1>7, <2>6, <2>7, <2>9, <2>10, <2>11, HandlerKeeps
<1>8. CASE NewAddress(r) /\ WriteRecord(Len(ips) + 1, reqs[r].addr, 1) /\ NextStatement(r, "ip")
           /\ UNCHANGED failed
  <2>1. /\ ips' \in Seq(IPRecord) /\ DOMAIN ips' = DOMAIN ips \cup {Len(ips) + 1}
        /\ ips'[Len(ips) + 1].addr = q.addr
        /\ \A j \in DOMAIN ips : j \in DOMAIN ips' /\ ips'[j].addr = ips[j].addr
    <3>1. /\ Len(ips) \in Nat /\ DOMAIN ips = 1 .. Len(ips)
      BY <1>0, LenProperties DEF MetadataTypeOK
    <3>2. Len(ips) + 1 \in 1 .. Len(ips) + 1 /\ Len(ips) + 1 \notin DOMAIN ips
      BY <3>1
    <3>3. PICK i : i = Len(ips) + 1
      OBVIOUS
    <3>4. i \in 1 .. Len(ips) + 1 /\ i \notin DOMAIN ips /\ WriteRecord(i, q.addr, 1)
      BY <1>2, <1>8, <3>2, <3>3
    <3>5. /\ ips' \in Seq(IPRecord) /\ DOMAIN ips' = DOMAIN ips \cup {i} /\ ips'[i].addr = q.addr
          /\ \A j \in DOMAIN ips \ {i} : ips'[j].addr = ips[j].addr
      BY <1>0, <1>4, <3>4, WriteRecordType
    <3>. QED  BY <3>3, <3>4, <3>5
  <2>2. "ip" \in Statement
    BY DEF Statement
  <2>3. /\ reqs' \in [NodeRequests -> NodeRequest]
        /\ \A s \in NodeRequests \ {r} : reqs'[s] = reqs[s]
        /\ \/ reqs'[r] = IdleRequest /\ q.left = {"ip"}
           \/ /\ reqs'[r].left = q.left \ {"ip"} /\ reqs'[r].left # {}
              /\ reqs'[r].kind = q.kind /\ reqs'[r].addr = q.addr
              /\ reqs'[r].report = q.report /\ reqs'[r].node = q.node
              /\ reqs'[r].id = q.id /\ reqs'[r].count = q.count
    BY <1>0, <1>1, <1>2, <1>8, <2>2, NextStatementType
  <2>4. Sound(r)'
    <3>1. CASE reqs'[r] = IdleRequest
      BY <3>1, IdleSound
    <3>2. CASE reqs'[r] # IdleRequest
      <4>1. PICK p : p = reqs'[r]
        OBVIOUS
      <4>2. /\ p.left = q.left \ {"ip"} /\ p.left # {} /\ p.kind = q.kind /\ p.addr = q.addr
            /\ p.report = q.report /\ p.node = q.node
        BY <2>3, <3>2, <4>1
      <4>3. /\ "save" \in q.left => "save" \in p.left
            /\ "count" \notin p.left
            /\ \A g \in Fields \ p.left : g \in Fields \ q.left
        BY <1>4, <4>2 DEF Fields
      <4>4. \E i \in DOMAIN ips' : ips'[i].addr = p.addr
        BY <2>1, <4>2
      <4>. QED  BY <1>1, <1>3, <1>4, <4>1, <4>2, <4>3, <4>4 DEF Sound, HasRecord
    <3>. QED  BY <3>1, <3>2
  <2>5. reqs'[r].left = {} <=> reqs'[r].kind = "idle"
    BY <1>3, <2>3, IdleRequestType
  <2>6. \/ reqs'[r].kind = "idle"
        \/ /\ reqs'[r].kind = reqs[r].kind /\ ~Reading(r)' /\ reqs'[r].node = reqs[r].node
           /\ reqs'[r].addr = reqs[r].addr
    BY <1>2, <1>3, <2>3, IdleRequestType DEF Reading
  <2>7. "ip" \notin Fields
    BY DEF Fields
  <2>8. /\ \A g \in Fields \cap reqs[r].left : g \in reqs'[r].left
        /\ \E i \in DOMAIN ips' : ips'[i].addr = reqs[r].addr
    BY <1>2, <2>1, <2>3, <2>7, IdleRequestType
  <2>9. failed' \in BOOLEAN
    BY <1>0, <1>8 DEF MetadataTypeOK
  <2>10. reqs[r].kind = "create" /\ reqs'[r].kind = "create" =>
           reqs'[r].addr = reqs[r].addr /\ reqs'[r].node = reqs[r].node
    BY <2>6
  <2>. QED  BY <1>1, <1>3, <1>8, <2>1, <2>3, <2>4, <2>5, <2>6, <2>8, <2>9, <2>10, HandlerKeeps
<1>. QED  BY <1>5, <1>6, <1>7, <1>8 DEF RecordAddress

LEMMA CountKeeps ==
  ASSUME MetadataIInv, NEW r \in NodeRequests, CountAddress(r)
  PROVE  MetadataIInv'
<1>0. MetadataTypeOK /\ Sound(r)
  BY DEF MetadataIInv
<1>1. /\ "count" \in reqs[r].left /\ UNCHANGED <<row, names, requested, enrolled, crossed, removals>>
      /\ names' \in [Fields -> SUBSET Text]
  BY <1>0 DEF CountAddress, Todo, MetadataTypeOK
<1>2. PICK q \in NodeRequest : q = reqs[r]
  BY <1>0 DEF MetadataTypeOK
<1>3. /\ Handling(r) /\ q.kind = "update" /\ ~Reading(r) /\ q.node # <<>> /\ q.addr \in Addresses
      /\ "save" \in q.left /\ q.left \subseteq Fields \cup {"ip", "count", "save"}
      /\ "ip" \notin q.left /\ q.id \in DOMAIN ips /\ ips[q.id].addr = q.addr
      /\ \A g \in Fields \ q.left : q.report[g] \in {"", q.node[1].name[g]} \cup names[g]
  <2>1. reqs[r].kind # "idle"
    BY <1>0, <1>1 DEF MetadataTypeOK
  <2>2. reqs[r].kind \in {"idle", "create", "update"}
    BY <1>2 DEF NodeRequest
  <2>3. "count" \notin Fields \cup {"ip"} /\ "read" \notin Fields \cup {"ip", "count", "save"}
    BY DEF Fields
  <2>4. q.kind = "update"
    BY <1>0, <1>1, <1>2, <2>1, <2>2, <2>3 DEF Sound
  <2>. QED  BY <1>0, <1>1, <1>2, <2>3, <2>4 DEF Handling, Sound, Reading
<1>4. CASE GiveUp(r) /\ UNCHANGED ips
  BY <1>1, <1>3, <1>4, GiveUpKeeps DEF GiveUp
<1>5. CASE /\ WriteRecord(reqs[r].id, ips[reqs[r].id].addr, reqs[r].count + 1)
           /\ NextStatement(r, "count") /\ UNCHANGED failed
  <2>1. /\ ips' \in Seq(IPRecord) /\ \A j \in DOMAIN ips : j \in DOMAIN ips' /\ ips'[j].addr = ips[j].addr
    <3>1. /\ Len(ips) \in Nat /\ DOMAIN ips = 1 .. Len(ips)
      BY <1>0, LenProperties DEF MetadataTypeOK
    <3>2. PICK i : i = q.id
      OBVIOUS
    <3>3. PICK n : n = q.count + 1
      OBVIOUS
    <3>4. i \in 1 .. Len(ips) + 1 /\ n \in Nat
      <4>1. PICK k \in Nat : k = Len(ips)
        BY <3>1
      <4>2. i \in 1 .. k
        BY <1>3, <3>1, <3>2, <4>1
      <4>3. i \in 1 .. k + 1
        BY <4>2
      <4>4. q.count \in Nat
        BY DEF NodeRequest
      <4>. QED  BY <3>3, <4>1, <4>3, <4>4
    <3>5. WriteRecord(i, q.addr, n)
      BY <1>2, <1>3, <1>5, <3>2, <3>3
    <3>6. /\ ips' \in Seq(IPRecord) /\ DOMAIN ips' = DOMAIN ips \cup {i} /\ ips'[i].addr = q.addr
          /\ \A j \in DOMAIN ips \ {i} : ips'[j].addr = ips[j].addr
      BY <1>0, <1>3, <3>4, <3>5, WriteRecordType
    <3>. QED  BY <1>3, <3>2, <3>6
  <2>2. "count" \in Statement
    BY DEF Statement
  <2>3. /\ reqs' \in [NodeRequests -> NodeRequest]
        /\ \A s \in NodeRequests \ {r} : reqs'[s] = reqs[s]
        /\ \/ reqs'[r] = IdleRequest /\ q.left = {"count"}
           \/ /\ reqs'[r].left = q.left \ {"count"} /\ reqs'[r].left # {}
              /\ reqs'[r].kind = q.kind /\ reqs'[r].addr = q.addr
              /\ reqs'[r].report = q.report /\ reqs'[r].node = q.node
              /\ reqs'[r].id = q.id /\ reqs'[r].count = q.count
    BY <1>0, <1>1, <1>2, <1>5, <2>2, NextStatementType
  <2>4. PICK p : p = reqs'[r]
    OBVIOUS
  <2>5. /\ p.left = q.left \ {"count"} /\ p.left # {} /\ p.kind = q.kind /\ p.addr = q.addr
        /\ p.report = q.report /\ p.node = q.node
    BY <1>3, <2>3, <2>4
  <2>6. /\ "save" \in p.left /\ "count" \notin p.left /\ "read" \notin p.left
        /\ \A g \in Fields \ p.left : g \in Fields \ q.left
    BY <1>3, <2>5 DEF Fields
  <2>7. \E i \in DOMAIN ips' : ips'[i].addr = p.addr
    BY <1>3, <2>1, <2>5
  <2>8. Sound(r)'
    BY <1>1, <1>3, <2>4, <2>5, <2>6, <2>7 DEF Sound, HasRecord
  <2>9. /\ reqs'[r].left # {} /\ reqs'[r].kind = "update" /\ ~Reading(r)'
        /\ reqs'[r].node = reqs[r].node /\ reqs[r].kind = "update"
    BY <1>2, <1>3, <2>4, <2>5, <2>6 DEF Reading
  <2>10. failed' \in BOOLEAN
    BY <1>0, <1>5 DEF MetadataTypeOK
  <2>. QED  BY <1>1, <1>3, <1>5, <2>1, <2>3, <2>8, <2>9, <2>10, HandlerKeeps
<1>. QED  BY <1>4, <1>5 DEF CountAddress

(* The row itself. *)
LEMMA SaveKeeps ==
  ASSUME MetadataIInv, NEW r \in NodeRequests, SaveNode(r)
  PROVE  MetadataIInv'
<1>0. MetadataTypeOK /\ Sound(r) /\ Todo(r, "save")
  BY DEF MetadataIInv, SaveNode
<1>1. reqs[r].left = {"save"} /\ reqs[r].kind = "update" /\ Handling(r)
  BY <1>0, LastIsSave DEF Handling
<1>2. PICK q \in NodeRequest : q = reqs[r]
  BY <1>0 DEF MetadataTypeOK
<1>3. UNCHANGED <<names, ips, requested, enrolled, crossed, removals>>
  BY DEF SaveNode
<1>4. PICK n : n = q.node[1]
  OBVIOUS
<1>5. /\ n \in MetadataRow /\ q.addr \in Addresses /\ q.report \in [Fields -> Text]
      /\ \A f \in Fields : q.report[f] \in {"", n.name[f]} \cup names[f]
      /\ q.addr \in {"", n.addr} \/ HasRecord(q.addr)
  <2>1. "read" # "save" /\ "save" \notin Fields /\ "ip" # "save"
    BY DEF Fields
  <2>2. q.node \in Seq(MetadataRow) /\ q.report \in Reports
    BY DEF NodeRequest
  <2>3. q.node # <<>>
    BY <1>0, <1>1, <1>2, <2>1 DEF Sound
  <2>4. n \in MetadataRow
    BY <1>4, <2>2, <2>3, EmptySeq, ElementOfSeq
  <2>. QED  BY <1>0, <1>1, <1>2, <1>4, <2>1, <2>2, <2>4, ReportTexts DEF Sound
<1>6. CASE GiveUp(r) /\ UNCHANGED row
  BY <1>1, <1>3, <1>6, GiveUpKeeps DEF GiveUp
<1>7. CASE Finish(r) /\ UNCHANGED <<failed, row>>
  BY <1>0, <1>1, <1>3, <1>7, GiveUpKeeps DEF MetadataTypeOK
<1>8. PICK changes : changes = [f \in Fields |-> IF q.report[f] = n.name[f] THEN "" ELSE q.report[f]]
  OBVIOUS
<1>9. PICK addr : addr = IF q.addr = n.addr THEN "" ELSE q.addr
  OBVIOUS
<1>10. CASE row # <<>> /\ row' = <<Update(row[1], addr, changes)>> /\ Finish(r) /\ UNCHANGED failed
  <2>1. PICK old \in MetadataRow : old = row[1]
    BY <1>0, <1>10, RowType
  <2>2. changes \in [Fields -> Text] /\ addr \in Addresses \cup {""}
    BY <1>5, <1>8, <1>9 DEF Text
  <2>3. PICK new : new = Update(old, addr, changes)
    OBVIOUS
  <2>4. /\ new \in MetadataRow /\ new.addr = IF addr = "" THEN old.addr ELSE addr
        /\ \A f \in Fields : new.name[f] = IF changes[f] = "" THEN old.name[f] ELSE changes[f]
    BY <2>2, <2>3, UpdateType
  <2>5. row' \in Seq(MetadataRow) /\ Len(row') <= 1 /\ row' # <<>> /\ row'[1] = new
    BY <1>0, <1>10, <2>1, <2>3, <2>4, RowType
  <2>6. /\ reqs' \in [NodeRequests -> NodeRequest] /\ reqs'[r] = IdleRequest
        /\ \A s \in NodeRequests \ {r} : reqs'[s] = reqs[s]
    BY <1>0, <1>10, FinishType
  <2>7. reqs'[r].kind = "idle" /\ reqs'[r].left = {}
    BY <2>6, IdleRequestType
  <2>8. MetadataTypeOK'
    BY <1>0, <1>3, <1>10, <2>5, <2>6, <2>7, RequestsKept DEF MetadataTypeOK
  <2>9. \A s \in NodeRequests : Sound(s)'
    BY <1>0, <1>3, <2>6, SoundKept, IdleSound DEF MetadataIInv
  <2>10. Undisturbed'
    <3>. SUFFICES ASSUME NEW s \in AtWork', s \notin crossed PROVE FALSE
      BY <1>3 DEF Undisturbed
    <3>1. s \in AtWork /\ s # r /\ r \in AtWork
      BY <1>1, <2>6, <2>7 DEF AtWork, Handling
    <3>. QED  BY <3>1 DEF MetadataIInv, Undisturbed
  <2>11. ASSUME ~failed PROVE AddressKept' /\ \A f \in Fields : NameKept(f)'
    <3>1. AddressKept /\ \A f \in Fields : NameKept(f)
      BY <1>10, <2>11 DEF MetadataIInv, RowKept
    <3>2. \A s \in NodeRequests : reqs[s].kind = "create" => reqs'[s] = reqs[s]
      BY <1>1, <2>6
    <3>3. AddressKept'
      <4>1. CASE new.addr = old.addr
        BY <1>3, <2>1, <2>5, <3>1, <3>2, <4>1 DEF AddressKept, HasRecord
      <4>2. CASE new.addr # old.addr
        <5>1. new.addr = q.addr /\ HasRecord(q.addr)
          BY <1>5, <1>9, <2>4, <4>2
        <5>. QED  BY <1>3, <2>5, <5>1 DEF AddressKept, HasRecord
      <4>. QED  BY <4>1, <4>2
    <3>4. ASSUME NEW f \in Fields PROVE NameKept(f)'
      <4>1. CASE new.name[f] = old.name[f]
        BY <1>3, <2>1, <2>5, <3>1, <3>2, <4>1 DEF NameKept
      <4>2. CASE new.name[f] # old.name[f]
        <5>1. new.name[f] = q.report[f] /\ q.report[f] \in names[f]
          BY <1>5, <1>8, <2>4, <4>2
        <5>. QED  BY <1>3, <2>5, <5>1 DEF NameKept
      <4>. QED  BY <4>1, <4>2
    <3>. QED  BY <3>3, <3>4
  <2>12. RowKept'
    BY <1>10, <2>11 DEF RowKept
  <2>. QED  BY <2>8, <2>9, <2>10, <2>12 DEF MetadataIInv
<1>. QED  BY <1>2, <1>4, <1>6, <1>7, <1>8, <1>9, <1>10 DEF SaveNode

(* A handler starts. *)
LEMMA ReceiveType ==
  ASSUME MetadataTypeOK, NEW r \in NodeRequests, NEW addr \in Addresses, NEW request \in NodeRequest,
         Receive(r, addr, request)
  PROVE  /\ reqs' \in [NodeRequests -> NodeRequest] /\ reqs'[r] = request
         /\ \A s \in NodeRequests \ {r} : reqs'[s] = reqs[s]
         /\ requested' \in Seq(Addresses) /\ Len(requested') <= MaxRequests
         /\ crossed' \subseteq NodeRequests
         /\ reqs[r].kind = "idle"
<1>1. /\ reqs' = [reqs EXCEPT ![r] = request] /\ requested' = Append(requested, addr)
      /\ Len(requested) < MaxRequests
  BY DEF Receive
<1>2. requested \in Seq(Addresses)
  BY DEF MetadataTypeOK
<1>3. PICK k \in Nat : k = Len(requested)
  BY <1>2, LenProperties
<1>4. k + 1 <= MaxRequests
  <2>1. k < MaxRequests /\ MaxRequests \in Nat
    BY <1>1, <1>3, MetadataAssumption
  <2>. QED  BY <2>1
<1>5. requested' \in Seq(Addresses) /\ Len(requested') = k + 1
  BY <1>1, <1>2, <1>3, AppendProperties
<1>6. AtWork \subseteq NodeRequests
  BY DEF AtWork
<1>. QED  BY <1>1, <1>4, <1>5, <1>6 DEF Receive, MetadataTypeOK, Handling

LEMMA ReceiveUndisturbed ==
  ASSUME MetadataIInv, NEW r \in NodeRequests, NEW addr \in Addresses, NEW request \in NodeRequest,
         Receive(r, addr, request), request.kind # "idle",
         request.kind = "create" \/ (request.left = {"read"} /\ UNCHANGED row)
  PROVE  Undisturbed'
<1>1. /\ reqs'[r] = request /\ \A s \in NodeRequests \ {r} : reqs'[s] = reqs[s]
  BY ReceiveType DEF MetadataIInv
<1>2. AtWork' = AtWork \cup {r} /\ r \notin AtWork
  BY <1>1 DEF AtWork, Handling, Receive
<1>3. CASE AtWork = {}
  BY <1>1, <1>2, <1>3 DEF Undisturbed, Reading
<1>4. CASE AtWork # {}
  BY <1>2, <1>4 DEF Receive, Undisturbed
<1>. QED  BY <1>3, <1>4

LEMMA LogStarts ==
  ASSUME MetadataIInv, NEW r \in NodeRequests, ReceiveLog(r)
  PROVE  MetadataIInv'
<1>0. MetadataTypeOK
  BY DEF MetadataIInv
<1>1. PICK addr \in Addresses, report \in Reports :
        Receive(r, addr, [IdleRequest EXCEPT !.kind = "update", !.addr = addr,
                                             !.report = report, !.left = {"read"}])
  BY DEF ReceiveLog
<1>2. PICK q : q = [IdleRequest EXCEPT !.kind = "update", !.addr = addr,
                                       !.report = report, !.left = {"read"}]
  OBVIOUS
<1>3. {"read"} \subseteq Statement
  BY DEF Statement
<1>4. /\ q \in NodeRequest /\ q.kind = "update" /\ q.addr = addr /\ q.left = {"read"}
  BY <1>2, <1>3, IdleRequestType DEF NodeRequest
<1>5. UNCHANGED <<row, names, ips, enrolled, removals, failed>> /\ Receive(r, addr, q)
  BY <1>1, <1>2 DEF ReceiveLog
<1>6. /\ reqs' \in [NodeRequests -> NodeRequest] /\ reqs'[r] = q
      /\ \A s \in NodeRequests \ {r} : reqs'[s] = reqs[s]
      /\ requested' \in Seq(Addresses) /\ Len(requested') <= MaxRequests
      /\ crossed' \subseteq NodeRequests
      /\ reqs[r].kind = "idle"
  BY <1>0, <1>4, <1>5, ReceiveType
<1>7. MetadataTypeOK'
  BY <1>0, <1>4, <1>5, <1>6, RequestsKept DEF MetadataTypeOK
<1>8. Undisturbed'
  BY <1>4, <1>5, ReceiveUndisturbed
<1>9. Sound(r)'
  <2>1. "count" \notin q.left /\ "read" \in q.left /\ q.kind # "create"
    BY <1>4
  <2>. QED  BY <1>4, <1>6, <2>1 DEF Sound
<1>10. \A s \in NodeRequests : Sound(s)'
  BY <1>0, <1>5, <1>6, <1>9, SoundKept DEF MetadataIInv
<1>11. \A s \in NodeRequests : reqs[s].kind = "create" => reqs'[s] = reqs[s]
  BY <1>6
<1>12. AddressKept => AddressKept'
  BY <1>5, <1>11 DEF AddressKept, HasRecord
<1>13. \A f \in Fields : NameKept(f) => NameKept(f)'
  BY <1>5, <1>11 DEF NameKept
<1>14. RowKept'
  BY <1>5, <1>12, <1>13 DEF MetadataIInv, RowKept
<1>. QED  BY <1>7, <1>8, <1>10, <1>14 DEF MetadataIInv

LEMMA CreateStarts ==
  ASSUME MetadataIInv, NEW r \in NodeRequests, CreateNode(r)
  PROVE  MetadataIInv'
<1>0. MetadataTypeOK
  BY DEF MetadataIInv
<1>1. PICK addr \in Addresses, host \in Hosts :
        LET n == [id |-> removals, addr |-> addr, name |-> EnrolReport(host)] IN
        /\ row' = <<n>>
        /\ Receive(r, addr, [IdleRequest EXCEPT !.kind = "create", !.addr = addr,
                                                !.node = <<n>>, !.left = Fields \cup {"ip"}])
  BY DEF CreateNode
<1>2. PICK n : n = [id |-> removals, addr |-> addr, name |-> EnrolReport(host)]
  OBVIOUS
<1>3. n \in MetadataRow /\ n.addr = addr
  <2>1. PICK name \in [Fields -> Text] : name = EnrolReport(host)
    BY ReportTexts
  <2>2. removals \in Nat
    BY <1>0, RemovalsType
  <2>. QED  BY <1>2, <2>1, <2>2 DEF MetadataRow
<1>4. PICK node : node = <<n>>
  OBVIOUS
<1>5. node \in Seq(MetadataRow) /\ Len(node) <= 1 /\ node # <<>> /\ node[1] = n
  BY <1>0, <1>3, <1>4, RowType
<1>6. PICK left : left = Fields \cup {"ip"}
  OBVIOUS
<1>7. PICK q : q = [IdleRequest EXCEPT !.kind = "create", !.addr = addr, !.node = node, !.left = left]
  OBVIOUS
<1>8. left \subseteq Statement /\ left # {} /\ "count" \notin left
  BY <1>6 DEF Statement, Fields
<1>9. /\ q \in NodeRequest /\ q.kind = "create" /\ q.addr = addr /\ q.left = left /\ q.node = node
  BY <1>5, <1>7, <1>8, IdleRequestType DEF NodeRequest
<1>10. /\ row' = node /\ Receive(r, addr, q) /\ UNCHANGED <<names, ips, enrolled, removals, failed>>
  BY <1>1, <1>2, <1>4, <1>6, <1>7 DEF CreateNode
<1>11. /\ reqs' \in [NodeRequests -> NodeRequest] /\ reqs'[r] = q
       /\ \A s \in NodeRequests \ {r} : reqs'[s] = reqs[s]
       /\ requested' \in Seq(Addresses) /\ Len(requested') <= MaxRequests
       /\ crossed' \subseteq NodeRequests
  BY <1>0, <1>9, <1>10, ReceiveType
<1>12. MetadataTypeOK'
  BY <1>0, <1>5, <1>8, <1>9, <1>10, <1>11, RequestsKept DEF MetadataTypeOK
<1>13. Undisturbed'
  BY <1>9, <1>10, ReceiveUndisturbed
<1>14. Sound(r)'
  BY <1>3, <1>5, <1>6, <1>8, <1>9, <1>11 DEF Sound
<1>15. \A s \in NodeRequests : Sound(s)'
  BY <1>0, <1>10, <1>11, <1>14, SoundKept DEF MetadataIInv
<1>16. AddressKept' /\ \A f \in Fields : NameKept(f)'
  BY <1>3, <1>5, <1>6, <1>9, <1>10, <1>11 DEF AddressKept, NameKept
<1>17. RowKept'
  BY <1>16 DEF RowKept
<1>. QED  BY <1>12, <1>13, <1>15, <1>17 DEF MetadataIInv

(* What comes between.  *)
LEMMA BetweenKeeps ==
  ASSUME MetadataIInv, UNCHANGED <<names, ips, reqs, requested, failed>>, crossed' = crossed \cup AtWork,
         row' \in Seq(MetadataRow), Len(row') <= 1, removals' \in 0 .. MaxRemovals,
         enrolled' \subseteq Addresses \cup Text
  PROVE  MetadataTypeOK' /\ Undisturbed' /\ \A s \in NodeRequests : Sound(s)'
<1>1. MetadataTypeOK'
  BY DEF MetadataIInv, MetadataTypeOK, AtWork
<1>2. Undisturbed'
  BY DEF Undisturbed, AtWork, Handling
<1>3. \A s \in NodeRequests : Sound(s)'
  BY SoundKept DEF MetadataIInv, MetadataTypeOK
<1>. QED  BY <1>1, <1>2, <1>3

LEMMA EnrolAgainKeeps ==
  ASSUME MetadataIInv, EnrolAgain
  PROVE  MetadataIInv'
<1>0. MetadataTypeOK
  BY DEF MetadataIInv
<1>1. PICK addr \in Addresses, host \in Hosts :
        /\ row' = <<Update(row[1], addr, EnrolReport(host))>>
        /\ enrolled' = {addr, host, "unknown"}
  BY DEF EnrolAgain
<1>2. /\ row # <<>> /\ enrolled = {} /\ crossed' = crossed \cup AtWork
      /\ UNCHANGED <<names, ips, reqs, requested, removals, failed>>
  BY DEF EnrolAgain
<1>3. PICK old \in MetadataRow : old = row[1]
  BY <1>0, <1>2, RowType
<1>4. PICK report \in [Fields -> Text] :
        report = EnrolReport(host) /\ \A f \in Fields : report[f] \in {host, "unknown"} \ {""}
  BY ReportTexts
<1>5. PICK new : new = Update(old, addr, report)
  OBVIOUS
<1>6. /\ new \in MetadataRow /\ new.addr = IF addr = "" THEN old.addr ELSE addr
      /\ \A f \in Fields : new.name[f] = IF report[f] = "" THEN old.name[f] ELSE report[f]
  <2>1. addr \in Addresses \cup {""}
    OBVIOUS
  <2>. QED  BY <1>5, <2>1, UpdateType
<1>7. row' \in Seq(MetadataRow) /\ Len(row') <= 1 /\ row' # <<>> /\ row'[1] = new
  BY <1>0, <1>1, <1>3, <1>4, <1>6, <1>5, RowType
<1>8. enrolled' \subseteq Addresses \cup Text /\ removals' \in 0 .. MaxRemovals
  BY <1>0, <1>1, <1>2 DEF MetadataTypeOK, Text
<1>9. MetadataTypeOK' /\ Undisturbed' /\ \A s \in NodeRequests : Sound(s)'
  BY <1>2, <1>7, <1>8, BetweenKeeps
<1>10. ASSUME ~failed PROVE AddressKept' /\ \A f \in Fields : NameKept(f)'
  <2>1. AddressKept
    BY <1>2, <1>10 DEF MetadataIInv, RowKept
  <2>2. AddressKept'
    <3>1. CASE addr = ""
      BY <1>1, <1>2, <1>3, <1>6, <1>7, <2>1, <3>1 DEF AddressKept, HasRecord
    <3>2. CASE addr # ""
      BY <1>1, <1>6, <1>7, <3>2 DEF AddressKept
    <3>. QED  BY <3>1, <3>2
  <2>3. ASSUME NEW f \in Fields PROVE NameKept(f)'
    BY <1>1, <1>4, <1>6, <1>7 DEF NameKept
  <2>. QED  BY <2>2, <2>3
<1>11. RowKept'
  BY <1>2, <1>10 DEF RowKept
<1>. QED  BY <1>9, <1>11 DEF MetadataIInv

LEMMA RemoveKeeps ==
  ASSUME MetadataIInv, RemoveNode
  PROVE  MetadataIInv'
<1>1. /\ row' = <<>> /\ removals' \in 0 .. MaxRemovals /\ crossed' = crossed \cup AtWork
      /\ UNCHANGED <<names, ips, reqs, requested, enrolled, failed>>
  <2>1. removals \in Nat /\ removals < MaxRemovals /\ MaxRemovals \in Nat /\ removals' = removals + 1
    BY RemovalsType DEF RemoveNode, MetadataIInv
  <2>. QED  BY <2>1 DEF RemoveNode
<1>2. row' \in Seq(MetadataRow) /\ Len(row') <= 1 /\ enrolled' \subseteq Addresses \cup Text
  BY <1>1, EmptySeq DEF MetadataIInv, MetadataTypeOK
<1>3. MetadataTypeOK' /\ Undisturbed' /\ \A s \in NodeRequests : Sound(s)'
  BY <1>1, <1>2, BetweenKeeps
<1>. QED  BY <1>1, <1>3 DEF MetadataIInv, RowKept

LEMMA MetadataStep ==
  ASSUME MetadataIInv, [MetadataNext]_metadataVars
  PROVE  MetadataIInv'
<1>1. CASE UNCHANGED metadataVars
  <2>1. MetadataTypeOK' /\ RowKept'
    BY <1>1 DEF metadataVars, MetadataIInv, MetadataTypeOK, RowKept, AddressKept, NameKept, HasRecord
  <2>2. Undisturbed'
    BY <1>1 DEF metadataVars, MetadataIInv, Undisturbed, AtWork, Handling, Reading
  <2>3. \A s \in NodeRequests : Sound(s)'
    BY <1>1, SoundKept DEF metadataVars, MetadataIInv
  <2>. QED  BY <2>1, <2>2, <2>3 DEF MetadataIInv
<1>. QED  BY <1>1, LogStarts, CreateStarts, ReadKeeps, NameKeeps, AddressKeeps, CountKeeps, SaveKeeps,
             EnrolAgainKeeps, RemoveKeeps DEF MetadataNext

LEMMA MetadataStart == MetadataInit => MetadataIInv
<1>. SUFFICES ASSUME MetadataInit PROVE MetadataIInv
  OBVIOUS
<1>1. /\ \A r \in NodeRequests : reqs[r] = IdleRequest
      /\ row = <<>> /\ ips = <<>> /\ requested = <<>>
  BY DEF MetadataInit
<1>2. /\ row \in Seq(MetadataRow) /\ Len(row) <= 1 /\ ips \in Seq(IPRecord)
      /\ requested \in Seq(Addresses) /\ Len(requested) <= MaxRequests
  <2>1. MaxRequests \in Nat
    BY MetadataAssumption
  <2>2. Len(requested) = 0 /\ Len(row) = 0
    BY <1>1, EmptySeq
  <2>3. 0 <= MaxRequests /\ 0 <= 1
    BY <2>1
  <2>4. row \in Seq(MetadataRow) /\ ips \in Seq(IPRecord) /\ requested \in Seq(Addresses)
    BY <1>1, EmptySeq
  <2>. QED  BY <2>2, <2>3, <2>4
<1>3. MetadataTypeOK
  <2>1. 0 \in 0 .. MaxRemovals
    <3>1. MaxRemovals \in Nat
      BY MetadataAssumption
    <3>. QED  BY <3>1
  <2>2. reqs \in [NodeRequests -> NodeRequest] /\ names \in [Fields -> SUBSET Text]
    BY IdleRequestType DEF MetadataInit
  <2>3. removals = 0 /\ failed = FALSE /\ crossed = {} /\ enrolled = {}
    BY DEF MetadataInit
  <2>. QED  BY <1>1, <1>2, <2>1, <2>2, <2>3, IdleRequestType DEF MetadataTypeOK
<1>4. \A s \in NodeRequests : Sound(s)
  BY <1>1, IdleRequestType DEF Sound
<1>5. RowKept /\ Undisturbed
  BY <1>1, IdleRequestType DEF RowKept, Undisturbed, AtWork, Handling
<1>. QED  BY <1>3, <1>4, <1>5 DEF MetadataIInv

(* Each reachable state satisfies the inductive invariant. *)
THEOREM MetadataInvariantHolds == MetadataSpec => []MetadataIInv
<1>1. MetadataIInv /\ [MetadataNext]_metadataVars => MetadataIInv'
  BY MetadataStep
<1>. QED  BY <1>1, MetadataStart, PTL DEF MetadataSpec

(* The row, its histories and the handlers keep their types. *)
THEOREM MetadataTypeCorrect == MetadataSpec => []MetadataTypeOK
<1>1. MetadataIInv => MetadataTypeOK
  BY DEF MetadataIInv
<1>. QED  BY <1>1, MetadataInvariantHolds, PTL

(* Whatever handlers overlap and however often the node is deleted, its    *)
(* row has no name and no address that its histories lack, unless an       *)
(* enrolment is at work or a repeated one wrote it, or a statement failed. *)
THEOREM RowsRecorded == MetadataSpec => []RowRecorded
<1>1. MetadataIInv => RowRecorded
  BY DEF MetadataIInv, RowKept, AddressKept, NameKept, HasRecord, RowRecorded
<1>. QED  BY <1>1, MetadataInvariantHolds, PTL

-----------------------------------------------------------------------------
(* A log ends with its last statement, or when its address has no record.  *)
LEMMA LogEnds ==
  ASSUME MetadataIInv, MetadataNext, NEW r \in NodeRequests, reqs[r].kind = "update", ~Handling(r)',
         ~failed', row # <<>>, HasRecord(reqs[r].addr)
  PROVE  SaveNode(r) /\ ~GiveUp(r)
<1>0. MetadataTypeOK /\ Sound(r)
  BY DEF MetadataIInv
<1>1. Handling(r) /\ ~GiveUp(r)
  BY DEF Handling, GiveUp
<1>2. ASSUME NEW s \in NodeRequests, s # r, reqs'[r] = reqs[r] PROVE FALSE
  BY <1>2 DEF Handling
<1>3. ASSUME NEW step \in Statement, NextStatement(r, step), step \in reqs[r].left, step # "save", ~Reading(r)
      PROVE  FALSE
  <2>1. "save" \in reqs[r].left
    BY <1>0, <1>3 DEF Sound, Reading
  <2>2. reqs[r].left # {step}
    BY <1>3, <2>1
  <2>3. reqs'[r].kind = reqs[r].kind
    BY <1>0, <1>3, <2>2, NextStatementType
  <2>. QED  BY <2>3 DEF Handling
<1>4. \A step \in Statement \ {"read"} : step \in reqs[r].left => ~Reading(r)
  <2>1. "read" \notin Fields \cup {"ip", "count", "save"}
    BY DEF Fields
  <2>. QED  BY <1>0, <2>1 DEF Sound, Reading
<1>5. ASSUME NEW s \in NodeRequests, ReceiveLog(s) \/ CreateNode(s) PROVE FALSE
  <2>1. PICK addr, request : Receive(s, addr, request)
    BY <1>5 DEF ReceiveLog, CreateNode
  <2>2. s # r
    BY <1>1, <2>1 DEF Receive
  <2>. QED  BY <1>0, <1>2, <2>1, <2>2 DEF Receive, MetadataTypeOK
<1>6. ASSUME NEW s \in NodeRequests, ReadNode(s) PROVE FALSE
  <2>1. CASE s # r
    BY <1>0, <1>2, <1>6, <2>1 DEF ReadNode, Finish, GiveUp, MetadataTypeOK
  <2>2. CASE s = r
    <3>1. reqs'[r].kind = "update"
      <4>1. PICK left : reqs' = [reqs EXCEPT ![r].node = row, ![r].left = left]
        BY <1>1, <1>6, <2>2 DEF ReadNode
      <4>. QED  BY <1>0, <4>1 DEF MetadataTypeOK, NodeRequest
    <3>. QED  BY <3>1 DEF Handling
  <2>. QED  BY <2>1, <2>2
<1>7. ASSUME NEW s \in NodeRequests, RecordName(s) PROVE FALSE
  <2>1. PICK f \in Fields : f \in reqs[s].left /\ (NextStatement(s, f) \/ GiveUp(s))
    BY <1>7 DEF RecordName, Todo
  <2>2. f \in Statement \ {"read"} /\ f # "save"
    BY DEF Statement, Fields
  <2>3. CASE s # r
    BY <1>0, <1>2, <2>1, <2>3 DEF NextStatement, Finish, GiveUp, MetadataTypeOK
  <2>. QED  BY <1>1, <1>3, <1>4, <2>1, <2>2, <2>3
<1>8. ASSUME NEW s \in NodeRequests, RecordAddress(s) PROVE FALSE
  <2>1. "ip" \in reqs[s].left
    BY <1>8 DEF RecordAddress, Todo
  <2>2. CASE s # r
    BY <1>0, <1>2, <1>8, <2>2 DEF RecordAddress, NextStatement, Finish, GiveUp, MetadataTypeOK
  <2>3. CASE s = r
    <3>1. "ip" \in Statement \ {"read"} /\ "ip" # "save"
      BY DEF Statement
    <3>2. ~NextStatement(r, "ip")
      BY <1>3, <1>4, <2>1, <2>3, <3>1
    <3>3. RecordsOf(reqs[r].addr) # {}
      BY DEF HasRecord, RecordsOf
    <3>4. PICK i : reqs' = [reqs EXCEPT ![r].id = i, ![r].count = ips[i].count,
                                     ![r].left = {"count"} \cup (@ \ {"ip"})]
      BY <1>1, <1>8, <2>3, <3>2, <3>3 DEF RecordAddress
    <3>5. reqs'[r].kind = "update"
      BY <1>0, <3>4 DEF MetadataTypeOK, NodeRequest
    <3>. QED  BY <3>5 DEF Handling
  <2>. QED  BY <2>2, <2>3
<1>9. ASSUME NEW s \in NodeRequests, CountAddress(s) PROVE FALSE
  <2>1. "count" \in reqs[s].left /\ (NextStatement(s, "count") \/ GiveUp(s))
    BY <1>9 DEF CountAddress, Todo
  <2>2. "count" \in Statement \ {"read"} /\ "count" # "save"
    BY DEF Statement
  <2>3. CASE s # r
    BY <1>0, <1>2, <2>1, <2>3 DEF NextStatement, Finish, GiveUp, MetadataTypeOK
  <2>. QED  BY <1>1, <1>3, <1>4, <2>1, <2>2, <2>3
<1>10. ~EnrolAgain /\ ~RemoveNode
  BY <1>1 DEF EnrolAgain, RemoveNode, Handling
<1>11. ASSUME NEW s \in NodeRequests, SaveNode(s), s # r PROVE FALSE
  BY <1>0, <1>2, <1>11 DEF SaveNode, Finish, GiveUp, MetadataTypeOK
<1>. QED  BY <1>1, <1>5, <1>6, <1>7, <1>8, <1>9, <1>10, <1>11 DEF MetadataNext

LEMMA SavedRow ==
  ASSUME MetadataIInv, NEW r \in NodeRequests, SaveNode(r), ~GiveUp(r), r \notin crossed
  PROVE  /\ row # <<>> /\ row' # <<>>
         /\ row'[1].addr = IF reqs[r].addr = "" THEN row[1].addr ELSE reqs[r].addr
         /\ \A f \in Fields : row'[1].name[f] =
              IF reqs[r].report[f] = "" THEN row[1].name[f] ELSE reqs[r].report[f]
<1>0. MetadataTypeOK /\ Sound(r) /\ Todo(r, "save")
  BY DEF MetadataIInv, SaveNode
<1>1. reqs[r].left = {"save"} /\ reqs[r].kind = "update"
  BY <1>0, LastIsSave
<1>2. PICK q \in NodeRequest : q = reqs[r]
  BY <1>0 DEF MetadataTypeOK
<1>3. row # <<>> /\ q.node = row
  BY <1>1, <1>2 DEF MetadataIInv, Undisturbed, AtWork, Handling, Reading
<1>4. PICK old \in MetadataRow : old = row[1]
  BY <1>0, <1>3, RowType
<1>5. q.addr \in Addresses /\ q.report \in [Fields -> Text]
  BY <1>0, <1>1, <1>2, ReportTexts DEF Sound, NodeRequest
<1>6. PICK changes : changes = [f \in Fields |-> IF q.report[f] = old.name[f] THEN "" ELSE q.report[f]]
  OBVIOUS
<1>7. PICK addr : addr = IF q.addr = old.addr THEN "" ELSE q.addr
  OBVIOUS
<1>8. row' = <<Update(old, addr, changes)>>
  BY <1>2, <1>3, <1>4, <1>6, <1>7 DEF SaveNode
<1>9. changes \in [Fields -> Text] /\ addr \in Addresses \cup {""}
  BY <1>5, <1>6, <1>7 DEF Text
<1>10. PICK new : new = Update(old, addr, changes)
  OBVIOUS
<1>11. /\ new \in MetadataRow /\ new.addr = IF addr = "" THEN old.addr ELSE addr
       /\ \A f \in Fields : new.name[f] = IF changes[f] = "" THEN old.name[f] ELSE changes[f]
  BY <1>9, <1>10, UpdateType
<1>12. row' # <<>> /\ row'[1] = new
  BY <1>0, <1>8, <1>10, <1>11, RowType
<1>13. new.addr = IF q.addr = "" THEN old.addr ELSE q.addr
  BY <1>7, <1>11
<1>14. ASSUME NEW f \in Fields
       PROVE  new.name[f] = IF q.report[f] = "" THEN old.name[f] ELSE q.report[f]
  BY <1>6, <1>11
<1>. QED  BY <1>2, <1>3, <1>4, <1>12, <1>13, <1>14

(* The names and the address of a log, for any number of handlers: see     *)
(* LogsReachRow for what may come between.                                 *)
THEOREM LogsArrive == MetadataSpec => LogsReachRow
<1>. DEFINE Reaches(r) ==
       LET q == reqs[r]
           known == \E i \in DOMAIN ips : ips[i].addr = q.addr
       IN
       /\ q.kind = "update" /\ r \notin crossed /\ ~Handling(r)' /\ ~failed'
       /\ known /\ row # <<>>
       => /\ row' # <<>> /\ row'[1].addr = IF q.addr = "" THEN row[1].addr ELSE q.addr
          /\ \A f \in Fields :
               row'[1].name[f] = IF q.report[f] = "" THEN row[1].name[f] ELSE q.report[f]
<1>1. MetadataIInv /\ [MetadataNext]_metadataVars => [\A r \in NodeRequests : Reaches(r)]_metadataVars
  <2>. SUFFICES ASSUME MetadataIInv, MetadataNext, NEW r \in NodeRequests PROVE Reaches(r)
    OBVIOUS
  <2>. QED  BY LogEnds, SavedRow DEF HasRecord
<1>. QED  BY <1>1, MetadataInvariantHolds, PTL DEF MetadataSpec, LogsReachRow

-----------------------------------------------------------------------------
(* The counts: what the records of an address have come to, or a handler   *)
(* has read of them, and the requests that are yet to count are no more    *)
(* than those that came from it.                                           *)
From(a) == {i \in DOMAIN requested : requested[i] = a}

ToCount == {"read", "ip", "count"}

Uncounted(a) == {r \in NodeRequests : reqs[r].addr = a /\ reqs[r].left \cap ToCount # {}}

Reached(a) ==
  {p \in Nat \X Nat :
     \/ p[1] \in DOMAIN ips /\ ips[p[1]].addr = a /\ p[2] \in 1 .. ips[p[1]].count
     \/ \E r \in NodeRequests : /\ "count" \in reqs[r].left /\ reqs[r].addr = a /\ reqs[r].id = p[1]
                               /\ p[2] \in 1 .. reqs[r].count}

Bounded(R, P, F) == IsFiniteSet(R) /\ Cardinality(R) + Cardinality(P) <= Cardinality(F)

CountsIInv == MetadataIInv /\ \A a \in Addresses : Bounded(Reached(a), Uncounted(a), From(a))

LEMMA FiniteCounts ==
  ASSUME MetadataTypeOK
  PROVE  \A a : IsFiniteSet(Uncounted(a)) /\ IsFiniteSet(From(a))
<1>1. \A a : Uncounted(a) \in SUBSET NodeRequests
  BY DEF Uncounted
<1>2. Len(requested) \in Nat /\ DOMAIN requested = 1 .. Len(requested)
  BY LenProperties DEF MetadataTypeOK
<1>3. IsFiniteSet(DOMAIN requested)
  BY <1>2, FS_Interval
<1>4. \A a : From(a) \in SUBSET DOMAIN requested
  BY DEF From
<1>. QED  BY <1>1, <1>3, <1>4, FS_Subset, MetadataAssumption

LEMMA FewerBounded ==
  ASSUME NEW R, NEW P, NEW F, Bounded(R, P, F), IsFiniteSet(P), IsFiniteSet(F),
         NEW Q \in SUBSET R, NEW O \in SUBSET P
  PROVE  Bounded(Q, O, F)
<1>1. /\ IsFiniteSet(Q) /\ Cardinality(Q) <= Cardinality(R) /\ Cardinality(O) <= Cardinality(P)
      /\ IsFiniteSet(O) /\ IsFiniteSet(R)
  BY FS_Subset DEF Bounded
<1>2. /\ Cardinality(Q) \in Nat /\ Cardinality(R) \in Nat /\ Cardinality(O) \in Nat
      /\ Cardinality(P) \in Nat /\ Cardinality(F) \in Nat
  BY <1>1, FS_CardinalityType
<1>. QED  BY <1>1, <1>2 DEF Bounded

LEMMA OneMoreBounded ==
  ASSUME NEW R, NEW P, NEW F, Bounded(R, P, F), IsFiniteSet(P), IsFiniteSet(F),
         NEW r, NEW i, i \notin F
  PROVE  Bounded(R, P \cup {r}, F \cup {i})
<1>1. /\ Cardinality(F \cup {i}) = Cardinality(F) + 1
      /\ Cardinality(P \cup {r}) = Cardinality(P) \/ Cardinality(P \cup {r}) = Cardinality(P) + 1
  BY FS_AddElement
<1>2. Cardinality(R) \in Nat /\ Cardinality(P) \in Nat /\ Cardinality(F) \in Nat
  BY FS_CardinalityType DEF Bounded
<1>. QED  BY <1>1, <1>2 DEF Bounded

LEMMA CountedBounded ==
  ASSUME NEW R, NEW P, NEW F, Bounded(R, P, F), IsFiniteSet(P), IsFiniteSet(F),
         NEW p, NEW r \in P
  PROVE  Bounded(R \cup {p}, P \ {r}, F)
<1>1. /\ IsFiniteSet(R \cup {p})
      /\ Cardinality(R \cup {p}) = Cardinality(R) \/ Cardinality(R \cup {p}) = Cardinality(R) + 1
  BY FS_AddElement DEF Bounded
<1>2. Cardinality(P \ {r}) = Cardinality(P) - 1
  BY FS_RemoveElement
<1>3. Cardinality(R) \in Nat /\ Cardinality(P) \in Nat /\ Cardinality(F) \in Nat
  BY FS_CardinalityType DEF Bounded
<1>. QED  BY <1>1, <1>2, <1>3 DEF Bounded

(* Nothing is counted, and nobody comes. *)
LEMMA FewerCounts ==
  ASSUME CountsIInv, NEW a \in Addresses, UNCHANGED requested,
         Reached(a)' \subseteq Reached(a), Uncounted(a)' \subseteq Uncounted(a)
  PROVE  Bounded(Reached(a), Uncounted(a), From(a))'
<1>1. From(a)' = From(a)
  BY DEF From
<1>. QED  BY <1>1, FiniteCounts, FewerBounded DEF CountsIInv, MetadataIInv

LEMMA CountsOfHandlers ==
  ASSUME CountsIInv, NEW a \in Addresses, UNCHANGED <<requested, ips>>, NEW r \in NodeRequests,
         \A s \in NodeRequests \ {r} : reqs'[s] = reqs[s],
         \/ reqs'[r].left \cap ToCount = {}
         \/ /\ reqs'[r].addr = reqs[r].addr /\ reqs[r].left \cap ToCount # {}
            /\ "count" \in reqs'[r].left =>
                 \/ "count" \in reqs[r].left /\ reqs'[r].id = reqs[r].id /\ reqs'[r].count = reqs[r].count
                 \/ /\ reqs'[r].id \in DOMAIN ips /\ ips[reqs'[r].id].addr = reqs[r].addr
                    /\ reqs'[r].count = ips[reqs'[r].id].count
  PROVE  Bounded(Reached(a), Uncounted(a), From(a))'
<1>1. Uncounted(a)' \subseteq Uncounted(a)
  BY DEF Uncounted
<1>2. "count" \in ToCount
  BY DEF ToCount
<1>3. ASSUME NEW p \in Reached(a)' PROVE p \in Reached(a)
  <2>1. p \in Nat \X Nat
    BY <1>3 DEF Reached
  <2>2. CASE p[1] \in DOMAIN ips /\ ips[p[1]].addr = a /\ p[2] \in 1 .. ips[p[1]].count
    BY <2>1, <2>2 DEF Reached
  <2>3. ASSUME NEW s \in NodeRequests, "count" \in reqs'[s].left, reqs'[s].addr = a,
               reqs'[s].id = p[1], p[2] \in 1 .. reqs'[s].count
        PROVE  p \in Reached(a)
    <3>1. CASE s # r
      <4>1. /\ "count" \in reqs[s].left /\ reqs[s].addr = a /\ reqs[s].id = p[1]
            /\ p[2] \in 1 .. reqs[s].count
        BY <2>3, <3>1
      <4>. QED  BY <2>1, <4>1 DEF Reached
    <3>2. CASE s = r
      <4>1. /\ reqs'[r].addr = reqs[r].addr
            /\ \/ "count" \in reqs[r].left /\ reqs'[r].id = reqs[r].id /\ reqs'[r].count = reqs[r].count
               \/ /\ reqs'[r].id \in DOMAIN ips /\ ips[reqs'[r].id].addr = reqs[r].addr
                  /\ reqs'[r].count = ips[reqs'[r].id].count
        BY <1>2, <2>3, <3>2
      <4>2. CASE "count" \in reqs[r].left /\ reqs'[r].id = reqs[r].id /\ reqs'[r].count = reqs[r].count
        <5>1. /\ reqs[r].addr = a /\ reqs[r].id = p[1] /\ p[2] \in 1 .. reqs[r].count
          BY <2>3, <3>2, <4>1, <4>2
        <5>. QED  BY <2>1, <4>2, <5>1 DEF Reached
      <4>3. CASE /\ reqs'[r].id \in DOMAIN ips /\ ips[reqs'[r].id].addr = reqs[r].addr
                 /\ reqs'[r].count = ips[reqs'[r].id].count
        BY <2>2, <2>3, <3>2, <4>1, <4>3
      <4>. QED  BY <4>1, <4>2, <4>3
    <3>. QED  BY <3>1, <3>2
  <2>. QED  BY <1>3, <2>2, <2>3 DEF Reached
<1>. QED  BY <1>1, <1>3, FewerCounts

(* A handler writes a record: it has reached one more than what was read.  *)
LEMMA CountsOfRecord ==
  ASSUME CountsIInv, NEW a \in Addresses, UNCHANGED requested, NEW r \in NodeRequests,
         \A s \in NodeRequests \ {r} : reqs'[s] = reqs[s],
         reqs[r].left \cap ToCount # {}, reqs'[r].left \cap ToCount = {},
         NEW i, NEW n \in Nat, i \in DOMAIN ips', ips'[i].addr = reqs[r].addr, ips'[i].count = n + 1,
         n = 0 \/ ("count" \in reqs[r].left /\ reqs[r].id = i /\ reqs[r].count = n),
         \A j \in DOMAIN ips' \ {i} :
           j \in DOMAIN ips /\ ips'[j].addr = ips[j].addr /\ ips'[j].count = ips[j].count
  PROVE  Bounded(Reached(a), Uncounted(a), From(a))'
<1>1. "count" \in ToCount
  BY DEF ToCount
<1>2. Uncounted(a)' \subseteq Uncounted(a) /\ r \notin Uncounted(a)'
  BY DEF Uncounted
<1>3. PICK new : new = <<i, n + 1>>
  OBVIOUS
<1>4. ASSUME NEW p \in Reached(a)' PROVE p \in Reached(a) \/ (p = new /\ a = reqs[r].addr)
  <2>1. PICK j \in Nat, k \in Nat : p = <<j, k>> /\ p[1] = j /\ p[2] = k
    BY <1>4 DEF Reached
  <2>2. CASE j \in DOMAIN ips' /\ ips'[j].addr = a /\ k \in 1 .. ips'[j].count /\ j # i
    <3>1. j \in DOMAIN ips /\ ips[j].addr = a /\ k \in 1 .. ips[j].count
      BY <2>2
    <3>. QED  BY <2>1, <3>1 DEF Reached
  <2>3. CASE j \in DOMAIN ips' /\ ips'[j].addr = a /\ k \in 1 .. ips'[j].count /\ j = i
    <3>1. k = n + 1 \/ k \in 1 .. n
      BY <2>1, <2>3
    <3>2. CASE k \in 1 .. n
      <4>1. n # 0
        BY <3>2
      <4>2. /\ "count" \in reqs[r].left /\ reqs[r].addr = a /\ reqs[r].id = j
            /\ k \in 1 .. reqs[r].count
        BY <2>3, <3>2, <4>1
      <4>. QED  BY <2>1, <4>2 DEF Reached
    <3>. QED  BY <1>3, <2>1, <2>3, <3>1, <3>2
  <2>4. ASSUME NEW s \in NodeRequests, "count" \in reqs'[s].left, reqs'[s].addr = a,
               reqs'[s].id = j, k \in 1 .. reqs'[s].count
        PROVE  p \in Reached(a)
    <3>1. s # r
      BY <1>1, <2>4
    <3>2. "count" \in reqs[s].left /\ reqs[s].addr = a /\ reqs[s].id = j /\ k \in 1 .. reqs[s].count
      BY <2>4, <3>1
    <3>. QED  BY <2>1, <3>2 DEF Reached
  <2>. QED  BY <1>4, <2>1, <2>2, <2>3, <2>4 DEF Reached
<1>5. CASE a # reqs[r].addr
  BY <1>2, <1>4, <1>5, FewerCounts
<1>6. CASE a = reqs[r].addr
  <2>1. r \in Uncounted(a)
    BY <1>6 DEF Uncounted
  <2>2. Bounded(Reached(a), Uncounted(a), From(a)) /\ IsFiniteSet(Uncounted(a)) /\ IsFiniteSet(From(a))
    BY FiniteCounts DEF CountsIInv, MetadataIInv
  <2>3. Bounded(Reached(a) \cup {new}, Uncounted(a) \ {r}, From(a))
    BY <2>1, <2>2, CountedBounded
  <2>4. Reached(a)' \subseteq Reached(a) \cup {new} /\ Uncounted(a)' \subseteq Uncounted(a) \ {r}
    BY <1>2, <1>4
  <2>5. IsFiniteSet(Uncounted(a) \ {r})
    BY <2>2, FS_RemoveElement
  <2>6. Bounded(Reached(a)', Uncounted(a)', From(a))
    BY <2>2, <2>3, <2>4, <2>5, FewerBounded
  <2>7. From(a)' = From(a)
    BY DEF From
  <2>. QED  BY <2>6, <2>7 DEF Bounded
<1>. QED  BY <1>5, <1>6

(* A request comes. *)
LEMMA CountsOfRequest ==
  ASSUME CountsIInv, NEW a \in Addresses, UNCHANGED ips, NEW r \in NodeRequests, reqs[r].kind = "idle",
         \A s \in NodeRequests \ {r} : reqs'[s] = reqs[s], "count" \notin reqs'[r].left,
         reqs'[r].addr \in Addresses, requested' = Append(requested, reqs'[r].addr)
  PROVE  Bounded(Reached(a), Uncounted(a), From(a))'
<1>1. PICK n \in Nat : n = Len(requested) /\ DOMAIN requested = 1 .. n /\ requested \in Seq(Addresses)
  BY LenProperties DEF CountsIInv, MetadataIInv, MetadataTypeOK
<1>2. PICK addr \in Addresses : addr = reqs'[r].addr
  OBVIOUS
<1>3. /\ DOMAIN requested' = 1 .. n + 1 /\ requested'[n + 1] = addr
      /\ \A i \in 1 .. n : requested'[i] = requested[i]
  <2>1. Len(requested') = n + 1 /\ requested' \in Seq(Addresses)
    BY <1>1, <1>2, AppendProperties
  <2>2. DOMAIN requested' = 1 .. n + 1
    BY <2>1, LenProperties
  <2>. QED  BY <1>1, <1>2, <2>2, AppendProperties
<1>4. From(a)' = IF a = addr THEN From(a) \cup {n + 1} ELSE From(a)
  <2>1. 1 .. n + 1 = (1 .. n) \cup {n + 1} /\ n + 1 \notin 1 .. n
    OBVIOUS
  <2>. QED  BY <1>1, <1>3, <2>1 DEF From
<1>5. Uncounted(a)' \subseteq IF a = addr THEN Uncounted(a) \cup {r} ELSE Uncounted(a)
  BY <1>2 DEF Uncounted
<1>6. Reached(a)' \subseteq Reached(a)
  BY DEF Reached
<1>7. Bounded(Reached(a), Uncounted(a), From(a)) /\ IsFiniteSet(Uncounted(a)) /\ IsFiniteSet(From(a))
  BY FiniteCounts DEF CountsIInv, MetadataIInv
<1>8. CASE a # addr
  <2>1. Bounded(Reached(a)', Uncounted(a)', From(a))
    BY <1>5, <1>6, <1>7, <1>8, FewerBounded
  <2>. QED  BY <1>4, <1>8, <2>1 DEF Bounded
<1>9. CASE a = addr
  <2>1. n + 1 \notin From(a)
    BY <1>1 DEF From
  <2>2. Bounded(Reached(a), Uncounted(a) \cup {r}, From(a) \cup {n + 1})
    BY <1>7, <2>1, OneMoreBounded
  <2>3. IsFiniteSet(Uncounted(a) \cup {r}) /\ IsFiniteSet(From(a) \cup {n + 1})
    BY <1>7, FS_AddElement
  <2>4. Bounded(Reached(a)', Uncounted(a)', From(a) \cup {n + 1})
    BY <1>5, <1>6, <1>9, <2>2, <2>3, FewerBounded
  <2>. QED  BY <1>4, <1>9, <2>4 DEF Bounded
<1>. QED  BY <1>8, <1>9

LEMMA CountsOfStart ==
  ASSUME CountsIInv, NEW a \in Addresses, NEW r \in NodeRequests, ReceiveLog(r) \/ CreateNode(r)
  PROVE  Bounded(Reached(a), Uncounted(a), From(a))'
<1>1. PICK addr, q : /\ Receive(r, addr, q) /\ q.addr = addr /\ "count" \notin q.left
                   /\ addr \in Addresses /\ UNCHANGED ips
  <2>1. CASE ReceiveLog(r)
    BY <2>1 DEF ReceiveLog, IdleRequest
  <2>2. CASE CreateNode(r)
    <3>1. "count" \notin Fields \cup {"ip"}
      BY DEF Fields
    <3>. QED  BY <2>2, <3>1 DEF CreateNode, IdleRequest
  <2>. QED  BY <2>1, <2>2
<1>2. reqs \in [NodeRequests -> NodeRequest]
  BY DEF CountsIInv, MetadataIInv, MetadataTypeOK
<1>3. /\ reqs[r].kind = "idle" /\ reqs'[r] = q /\ \A s \in NodeRequests \ {r} : reqs'[s] = reqs[s]
      /\ requested' = Append(requested, addr)
  BY <1>1, <1>2 DEF Receive, Handling
<1>. QED  BY <1>1, <1>3, CountsOfRequest

LEMMA CountsOfEnd ==
  ASSUME CountsIInv, NEW a \in Addresses, NEW r \in NodeRequests, Finish(r), UNCHANGED <<requested, ips>>
  PROVE  Bounded(Reached(a), Uncounted(a), From(a))'
<1>1. reqs'[r] = IdleRequest /\ \A s \in NodeRequests \ {r} : reqs'[s] = reqs[s]
  BY FinishType DEF CountsIInv, MetadataIInv
<1>2. reqs'[r].left \cap ToCount = {}
  BY <1>1, IdleRequestType
<1>. QED  BY <1>1, <1>2, CountsOfHandlers

LEMMA CountsOfRead ==
  ASSUME CountsIInv, NEW a \in Addresses, NEW r \in NodeRequests, ReadNode(r)
  PROVE  Bounded(Reached(a), Uncounted(a), From(a))'
<1>0. MetadataTypeOK /\ UNCHANGED <<requested, ips>> /\ "read" \in reqs[r].left
  BY DEF CountsIInv, MetadataIInv, ReadNode, Todo
<1>1. CASE Finish(r)
  BY <1>0, <1>1, CountsOfEnd
<1>2. CASE ~Finish(r)
  <2>1. PICK left : /\ reqs' = [reqs EXCEPT ![r].node = row, ![r].left = left]
                    /\ "count" \notin left
    <3>1. "count" \notin {"ip", "save"} \cup {f \in Fields : reqs[r].report[f] \notin {"", row[1].name[f]}}
      BY DEF Fields
    <3>. QED  BY <1>2, <3>1 DEF ReadNode, GiveUp
  <2>2. /\ reqs'[r].left = left /\ reqs'[r].addr = reqs[r].addr
        /\ \A s \in NodeRequests \ {r} : reqs'[s] = reqs[s]
    BY <1>0, <2>1 DEF MetadataTypeOK, NodeRequest
  <2>. QED  BY <1>0, <2>1, <2>2, CountsOfHandlers DEF ToCount
<1>. QED  BY <1>1, <1>2

LEMMA CountsOfName ==
  ASSUME CountsIInv, NEW a \in Addresses, NEW r \in NodeRequests, RecordName(r)
  PROVE  Bounded(Reached(a), Uncounted(a), From(a))'
<1>0. MetadataTypeOK /\ UNCHANGED <<requested, ips>>
  BY DEF CountsIInv, MetadataIInv, RecordName
<1>1. PICK f \in Fields : f \in reqs[r].left /\ (NextStatement(r, f) \/ GiveUp(r))
  BY DEF RecordName, Todo
<1>2. CASE Finish(r)
  BY <1>0, <1>2, CountsOfEnd
<1>3. CASE ~Finish(r)
  <2>1. NextStatement(r, f) /\ f \in Statement /\ f \notin ToCount
    BY <1>1, <1>3 DEF GiveUp, Statement, ToCount, Fields
  <2>2. reqs'[r] # IdleRequest
    <3>1. reqs[r].left # {f}
      BY <1>3, <2>1 DEF NextStatement
    <3>. QED  BY <1>0, <1>1, <2>1, <3>1, NextStatementType, IdleRequestType
  <2>3. /\ \A s \in NodeRequests \ {r} : reqs'[s] = reqs[s]
        /\ reqs'[r].left = reqs[r].left \ {f} /\ reqs'[r].addr = reqs[r].addr
        /\ reqs'[r].id = reqs[r].id /\ reqs'[r].count = reqs[r].count
    BY <1>0, <1>1, <2>1, <2>2, NextStatementType
  <2>4. \/ reqs'[r].left \cap ToCount = {}
        \/ reqs[r].left \cap ToCount # {}
    BY <2>3
  <2>. QED  BY <1>0, <2>3, <2>4, CountsOfHandlers
<1>. QED  BY <1>2, <1>3

LEMMA CountsOfAddress ==
  ASSUME CountsIInv, NEW a \in Addresses, NEW r \in NodeRequests, RecordAddress(r)
  PROVE  Bounded(Reached(a), Uncounted(a), From(a))'
<1>0. MetadataTypeOK /\ Sound(r) /\ UNCHANGED requested /\ "ip" \in reqs[r].left
  BY DEF CountsIInv, MetadataIInv, RecordAddress, Todo
<1>1. PICK q \in NodeRequest : q = reqs[r]
  BY <1>0 DEF MetadataTypeOK
<1>2. q.left \cap ToCount # {}
  BY <1>0, <1>1 DEF ToCount
<1>3. CASE Finish(r) /\ UNCHANGED ips
  BY <1>0, <1>3, CountsOfEnd
<1>4. ASSUME NEW i \in RecordsOf(reqs[r].addr), UNCHANGED ips,
             reqs' = [reqs EXCEPT ![r].id = i, ![r].count = ips[i].count,
                                  ![r].left = {"count"} \cup (@ \ {"ip"})]
      PROVE  Bounded(Reached(a), Uncounted(a), From(a))'
  <2>1. /\ reqs'[r].id = i /\ reqs'[r].count = ips[i].count /\ reqs'[r].addr = reqs[r].addr
        /\ \A s \in NodeRequests \ {r} : reqs'[s] = reqs[s]
    BY <1>0, <1>4 DEF MetadataTypeOK, NodeRequest
  <2>2. i \in DOMAIN ips /\ ips[i].addr = reqs[r].addr
    BY <1>4 DEF RecordsOf
  <2>. QED  BY <1>0, <1>1, <1>2, <1>4, <2>1, <2>2, CountsOfHandlers
<1>5. CASE NewAddress(r) /\ WriteRecord(Len(ips) + 1, reqs[r].addr, 1) /\ NextStatement(r, "ip")
  <2>1. q.kind # "idle" /\ q.kind \in {"idle", "create", "update"}
    BY <1>0, <1>1 DEF MetadataTypeOK, NodeRequest
  <2>2. q.addr \in Addresses /\ "read" \notin q.left /\ "count" \notin q.left
    <3>1. "read" \notin Fields \cup {"ip", "count", "save"} /\ "count" \notin Fields \cup {"ip"}
      BY DEF Fields
    <3>. QED  BY <1>0, <1>1, <2>1, <3>1 DEF Sound
  <2>3. PICK n \in Nat : n = Len(ips) /\ DOMAIN ips = 1 .. n
    BY <1>0, LenProperties DEF MetadataTypeOK
  <2>4. PICK i \in 1 .. Len(ips) + 1 : i = Len(ips) + 1 /\ i \notin DOMAIN ips
    BY <2>3
  <2>5. /\ DOMAIN ips' = DOMAIN ips \cup {i} /\ ips'[i].addr = reqs[r].addr /\ ips'[i].count = 1
        /\ \A j \in DOMAIN ips \ {i} : ips'[j].addr = ips[j].addr /\ ips'[j].count = ips[j].count
    <3>1. PICK one \in Nat : one = 1
      OBVIOUS
    <3>2. WriteRecord(i, q.addr, one)
      BY <1>1, <1>5, <2>4, <3>1
    <3>3. /\ DOMAIN ips' = DOMAIN ips \cup {i} /\ ips'[i].addr = q.addr /\ ips'[i].count = one
          /\ \A j \in DOMAIN ips \ {i} : ips'[j].addr = ips[j].addr /\ ips'[j].count = ips[j].count
      BY <1>0, <2>2, <3>2, WriteRecordType
    <3>. QED  BY <1>1, <3>1, <3>3
  <2>6. "ip" \in Statement
    BY DEF Statement
  <2>7. /\ \A s \in NodeRequests \ {r} : reqs'[s] = reqs[s]
        /\ reqs'[r] = IdleRequest \/ reqs'[r].left = q.left \ {"ip"}
    BY <1>0, <1>1, <1>5, <2>6, NextStatementType
  <2>8. reqs'[r].left \cap ToCount = {}
    BY <2>2, <2>7, IdleRequestType DEF ToCount
  <2>9. 0 \in Nat /\ ips'[i].count = 0 + 1 /\ i \in DOMAIN ips'
    BY <2>5
  <2>10. \A j \in DOMAIN ips' \ {i} : j \in DOMAIN ips
    BY <2>5
  <2>. QED  BY <1>0, <1>1, <1>2, <2>5, <2>7, <2>8, <2>9, <2>10, CountsOfRecord
<1>. QED  BY <1>3, <1>4, <1>5 DEF RecordAddress, GiveUp

LEMMA CountsOfCount ==
  ASSUME CountsIInv, NEW a \in Addresses, NEW r \in NodeRequests, CountAddress(r)
  PROVE  Bounded(Reached(a), Uncounted(a), From(a))'
<1>0. MetadataTypeOK /\ Sound(r) /\ UNCHANGED requested /\ "count" \in reqs[r].left
  BY DEF CountsIInv, MetadataIInv, CountAddress, Todo
<1>1. PICK q \in NodeRequest : q = reqs[r]
  BY <1>0 DEF MetadataTypeOK
<1>2. q.left \cap ToCount # {}
  BY <1>0, <1>1 DEF ToCount
<1>3. CASE Finish(r) /\ UNCHANGED ips
  BY <1>0, <1>3, CountsOfEnd
<1>4. CASE WriteRecord(reqs[r].id, ips[reqs[r].id].addr, reqs[r].count + 1) /\ NextStatement(r, "count")
  <2>1. q.kind # "idle" /\ q.kind \in {"idle", "create", "update"}
    BY <1>0, <1>1 DEF MetadataTypeOK, NodeRequest
  <2>2. /\ q.addr \in Addresses /\ "read" \notin q.left /\ "ip" \notin q.left
        /\ q.id \in DOMAIN ips /\ ips[q.id].addr = q.addr
    <3>1. "read" \notin Fields \cup {"ip", "count", "save"} /\ "count" \notin Fields \cup {"ip"}
      BY DEF Fields
    <3>. QED  BY <1>0, <1>1, <2>1, <3>1 DEF Sound
  <2>3. PICK n \in Nat : n = Len(ips) /\ DOMAIN ips = 1 .. n
    BY <1>0, LenProperties DEF MetadataTypeOK
  <2>4. PICK i \in 1 .. Len(ips) + 1 : i = q.id
    BY <2>2, <2>3
  <2>5. PICK k \in Nat : k = q.count /\ k + 1 \in Nat
    <3>1. q.count \in Nat
      BY <1>1 DEF NodeRequest
    <3>. QED  BY <3>1
  <2>6. /\ DOMAIN ips' = DOMAIN ips \cup {i} /\ ips'[i].addr = q.addr /\ ips'[i].count = k + 1
        /\ \A j \in DOMAIN ips \ {i} : ips'[j].addr = ips[j].addr /\ ips'[j].count = ips[j].count
    <3>1. WriteRecord(i, q.addr, k + 1)
      BY <1>1, <1>4, <2>2, <2>4, <2>5
    <3>. QED  BY <1>0, <2>2, <2>5, <3>1, WriteRecordType
  <2>7. "count" \in Statement
    BY DEF Statement
  <2>8. /\ \A s \in NodeRequests \ {r} : reqs'[s] = reqs[s]
        /\ reqs'[r] = IdleRequest \/ reqs'[r].left = q.left \ {"count"}
    BY <1>0, <1>1, <1>4, <2>7, NextStatementType
  <2>9. reqs'[r].left \cap ToCount = {}
    BY <2>2, <2>8, IdleRequestType DEF ToCount
  <2>10. i \in DOMAIN ips' /\ \A j \in DOMAIN ips' \ {i} : j \in DOMAIN ips
    BY <2>6
  <2>. QED  BY <1>0, <1>1, <1>2, <2>4, <2>5, <2>6, <2>8, <2>9, <2>10, CountsOfRecord
<1>. QED  BY <1>3, <1>4 DEF CountAddress, GiveUp

LEMMA CountsStep ==
  ASSUME CountsIInv, [MetadataNext]_metadataVars
  PROVE  CountsIInv'
<1>1. MetadataIInv'
  BY MetadataStep DEF CountsIInv
<1>2. ASSUME NEW a \in Addresses PROVE Bounded(Reached(a), Uncounted(a), From(a))'
  <2>1. CASE UNCHANGED <<ips, reqs, requested>>
    <3>1. Reached(a)' = Reached(a) /\ Uncounted(a)' = Uncounted(a)
      BY <2>1 DEF Reached, Uncounted
    <3>. QED  BY <2>1, <3>1, FewerCounts
  <2>2. ASSUME NEW r \in NodeRequests, SaveNode(r)
        PROVE  Bounded(Reached(a), Uncounted(a), From(a))'
    BY <2>2, CountsOfEnd DEF SaveNode, GiveUp
  <2>3. CASE EnrolAgain \/ RemoveNode \/ UNCHANGED metadataVars
    BY <2>1, <2>3 DEF EnrolAgain, RemoveNode, metadataVars
  <2>. QED  BY <2>2, <2>3, CountsOfStart, CountsOfRead, CountsOfName, CountsOfAddress, CountsOfCount
            DEF MetadataNext
<1>. QED  BY <1>1, <1>2 DEF CountsIInv

LEMMA CountsStart == MetadataInit => CountsIInv
<1>. SUFFICES ASSUME MetadataInit, NEW a \in Addresses PROVE Bounded(Reached(a), Uncounted(a), From(a))
  BY MetadataStart DEF CountsIInv
<1>1. /\ \A r \in NodeRequests : reqs[r].left = {}
      /\ DOMAIN ips = {} /\ MetadataTypeOK
  BY IdleRequestType, MetadataStart DEF MetadataInit, MetadataIInv
<1>2. Reached(a) = {} /\ Uncounted(a) = {}
  BY <1>1 DEF Reached, Uncounted
<1>3. IsFiniteSet({}) /\ Cardinality({}) = 0
  BY FS_EmptySet
<1>4. PICK n \in Nat : n = Cardinality(From(a))
  BY <1>1, FiniteCounts, FS_CardinalityType
<1>. QED  BY <1>2, <1>3, <1>4 DEF Bounded

(* Each reachable state satisfies the inductive invariant of the counts. *)
THEOREM CountsInvariantHolds == MetadataSpec => []CountsIInv
<1>. QED  BY CountsStart, CountsStep, PTL DEF MetadataSpec

(* Two handlers that read a record before either writes it lose a request, *)
(* and no interleaving of any number of them counts one twice.             *)
THEOREM CountsSound == MetadataSpec => []CountsNotAbove
<1>1. CountsIInv => CountsNotAbove
  <2>. SUFFICES ASSUME CountsIInv, NEW a \in Addresses
                PROVE  Cardinality(Counted(a)) <= Cardinality(From(a))
    BY DEF CountsNotAbove, From
  <2>1. Bounded(Reached(a), Uncounted(a), From(a)) /\ IsFiniteSet(Uncounted(a)) /\ IsFiniteSet(From(a))
    BY FiniteCounts DEF CountsIInv, MetadataIInv
  <2>2. Counted(a) \subseteq Reached(a)
    <3>1. DOMAIN ips \subseteq Nat /\ \A i \in DOMAIN ips : ips[i].count \in Nat
      <4>1. DOMAIN ips = 1 .. Len(ips) /\ Len(ips) \in Nat /\ \A i \in DOMAIN ips : ips[i] \in IPRecord
        BY LenProperties, ElementOfSeq DEF CountsIInv, MetadataIInv, MetadataTypeOK
      <4>. QED  BY <4>1 DEF IPRecord
    <3>2. ASSUME NEW i \in DOMAIN ips, ips[i].addr = a, NEW k \in 1 .. ips[i].count
          PROVE  <<i, k>> \in Reached(a)
      <4>1. i \in Nat /\ k \in Nat
        BY <3>1
      <4>. QED  BY <3>2, <4>1 DEF Reached
    <3>. QED  BY <3>2 DEF Counted
  <2>3. /\ Cardinality(Counted(a)) <= Cardinality(Reached(a))
        /\ IsFiniteSet(Counted(a)) /\ IsFiniteSet(Reached(a))
    BY <2>1, <2>2, FS_Subset DEF Bounded
  <2>4. /\ Cardinality(Counted(a)) \in Nat /\ Cardinality(Reached(a)) \in Nat
        /\ Cardinality(Uncounted(a)) \in Nat /\ Cardinality(From(a)) \in Nat
    BY <2>1, <2>3, FS_CardinalityType
  <2>. QED  BY <2>1, <2>3, <2>4 DEF Bounded
<1>. QED  BY <1>1, CountsInvariantHolds, PTL

-----------------------------------------------------------------------------
(* Each part of the tables of a node goes through a behaviour of its own   *)
(* module, so what is proved of either holds of both together.             *)
THEOREM RecordsImplementParts == RecordsSpec => EnrolmentSpec /\ MetadataSpec
<1>1. RecordsInit => EnrolmentInit /\ MetadataInit
  BY DEF RecordsInit
<1>2. [RecordsNext]_recordsVars => [EnrolmentNext]_enrolmentVars /\ [MetadataNext]_metadataVars
  BY DEF RecordsNext, recordsVars
<1>. QED  BY <1>1, <1>2, PTL DEF RecordsSpec, EnrolmentSpec, MetadataSpec

(* Enrolments and requests of a node keep all its tables in their types.   *)
THEOREM RecordsTypeCorrect == RecordsSpec => []RecordsTypeOK
<1>1. EnrolmentTypeOK /\ MetadataTypeOK => RecordsTypeOK
  BY DEF RecordsTypeOK
<1>. QED  BY <1>1, RecordsImplementParts, EnrolmentTypeCorrect, MetadataTypeCorrect, PTL
=============================================================================
