---------------------------- MODULE Catalog_proofs ----------------------------
(***************************************************************************)
(* Theorems about Catalog, for every set of tenants, principals, items,    *)
(* versions, runs, handlers and requests.                                  *)
(***************************************************************************)
EXTENDS Catalog, FiniteSetTheorems, TLAPS

(* A pin stays sound from the moment a handler checked it.                 *)
PinInHand(q) ==
    LET s == req[q].sub IN
    s.item \in Workflow => s.content.pin \in Version /\ SoundPin(s.content.pin, s.item)

(* What a handler that creates, edits or publishes a version, or prepares  *)
(* a run, still may rely on although the rows may have moved on.           *)
CreateInHand(q) ==
    LET r == req[q] IN
    r.pc = "number" \/ (r.pc = "commit" /\ r.sub.op = "create_version") =>
        /\ Visible(r.sub.item, TenantOfRequest(r.sub)) /\ PinInHand(q)
        /\ r.pc = "commit" => r.mem \in 1..(Cardinality(VersionsOf(r.sub.item)) + 1)

EditInHand(q) ==
    LET r == req[q]
        v == r.sub.version IN
    r.pc \in {"validate", "commit"} /\ r.sub.op \in {"update", "publish"} =>
        /\ Visible(r.sub.item, TenantOfRequest(r.sub))
        /\ Exists(v) /\ ver[v].item = r.sub.item
        /\ r.mem.status = "draft" /\ r.mem.lock = r.sub.lock /\ r.mem.lock <= ver[v].lock
        /\ ver[v].lock = r.mem.lock => ver[v] = r.mem
        /\ r.pc = "commit" /\ r.sub.op = "update" => PinInHand(q)

StackInHand(q) ==
    LET r == req[q] IN
    r.pc \in {"pinned", "commit"} /\ r.sub.op \in RunOp =>
        /\ ver[r.mem.wv].status = "published" /\ ver[r.mem.wv].item = r.sub.item
        /\ r.mem.workflow = ver[r.mem.wv].content /\ r.mem.av = r.mem.workflow.pin
        /\ r.pc = "commit" => ver[r.mem.av].status = "published"
        /\ r.pc = "commit" => r.mem.agent = ver[r.mem.av].content
        /\ r.pc = "commit" /\ r.sub.op = "prepare" =>
              r.mem.workflow.body = "erp" /\ AiValid(r.mem.agent.body)

InHand(q) == CreateInHand(q) /\ EditInHand(q) /\ StackInHand(q)

(* A version of a workflow pins something.                                 *)
PinsExist ==
    \A v \in Version : Exists(v) /\ ver[v].item \in Workflow => ver[v].content.pin \in Version

(* An item has finitely many versions, numbered from 1.                    *)
Numbers(i) == {ver[v].number : v \in VersionsOf(i)}
Shelves ==
    \A i \in Item : IsFiniteSet(VersionsOf(i)) /\ Numbers(i) = 1..Cardinality(VersionsOf(i))

CatalogInv ==
    /\ CatalogTypeOK /\ PinsExist /\ Shelves
    /\ EditsAreSerial /\ PinsArePublished /\ RunsCarryPublishedStack
    /\ \A q \in Slot : InHand(q)

-------------------------------------------------------------------------------
(* What a request names.                                                   *)
LEMMA RequestType ==
    ASSUME NEW s \in Submission
    PROVE  /\ s.op \in CatalogOp \cup RunOp /\ s.principal \in Principal /\ s.item \in Item
           /\ s.slug \in Slug \cup {None} /\ s.lock \in Nat /\ s.content \in Content
           /\ TenantOfRequest(s) \in Tenant
           /\ s.op \in {"update", "publish"} => s.version \in Version
           /\ s.op \in RunOp => s.item \in Workflow
           /\ s.item \in Workflow => s.content.pin \in Version
BY SubmissionAssumption, PrincipalAssumption DEF TenantOfRequest

(* Rows as they are.                                                       *)
LEMMA RowType ==
    ASSUME CatalogTypeOK, NEW v \in Version
    PROVE  /\ ver[v].status # "absent" <=> ver[v] \in Row
           /\ ver[v].status = "absent" <=> ver[v] = NoVersion
           /\ ver[v].lock \in Nat /\ log[v] \in Seq([content : Content, base : Nat])
<1>1. ver[v] \in Row \cup {NoVersion} /\ log[v] \in Seq([content : Content, base : Nat])
  BY DEF CatalogTypeOK
<1>2. ASSUME ver[v] \in Row PROVE ver[v].status # "absent" /\ ver[v].lock \in Nat
  BY <1>2 DEF Row
<1>3. ASSUME ver[v] = NoVersion PROVE ver[v].status = "absent" /\ ver[v].lock \in Nat
  BY <1>3 DEF NoVersion
<1> QED BY <1>1, <1>2, <1>3

LEMMA HandlerType ==
    ASSUME CatalogTypeOK, NEW q \in Slot, req[q].pc # "idle"
    PROVE  /\ req[q].sub \in Submission /\ req[q].pc \in Pc
           /\ req[q].pc = "commit" /\ req[q].sub.op = "create_version" => req[q].mem \in Nat \ {0}
           /\ req[q].pc \in {"validate", "commit"} /\ req[q].sub.op \in {"update", "publish"} =>
                 req[q].mem \in Row
           /\ req[q].pc \in {"pinned", "commit"} /\ req[q].sub.op \in RunOp => req[q].mem \in Stack
           /\ req[q] = [pc |-> req[q].pc, sub |-> req[q].sub, mem |-> req[q].mem,
                        reply |-> req[q].reply]
BY DEF CatalogTypeOK, HandlerOK

(* A handler that answers or moves on replaces its own state.              *)
LEMMA AnswerEffect ==
    ASSUME CatalogTypeOK, NEW q \in Slot, NEW code, NEW detail, Answer(q, code, detail)
    PROVE  /\ req' = [req EXCEPT ![q] = [pc |-> "done", sub |-> req[q].sub, mem |-> req[q].mem,
                                         reply |-> [code |-> code, detail |-> detail]]]
           /\ req' = [z \in Slot |-> req'[z]]
           /\ \A z \in Slot : z # q => req'[z] = req[z]
<1>1. req = [z \in Slot |-> req[z]]
  BY DEF CatalogTypeOK
<1>2. req[q] = [pc |-> req[q].pc, sub |-> req[q].sub, mem |-> req[q].mem, reply |-> req[q].reply]
  BY DEF CatalogTypeOK, HandlerOK
<1>3. req' = [req EXCEPT ![q] = [[req[q] EXCEPT !.pc = "done"] EXCEPT
                                    !.reply = [code |-> code, detail |-> detail]]]
  BY <1>1, <1>2 DEF Answer
<1>4. [[req[q] EXCEPT !.pc = "done"] EXCEPT !.reply = [code |-> code, detail |-> detail]]
      = [pc |-> "done", sub |-> req[q].sub, mem |-> req[q].mem,
         reply |-> [code |-> code, detail |-> detail]]
  <2>1. [req[q] EXCEPT !.pc = "done"]
        = [pc |-> "done", sub |-> req[q].sub, mem |-> req[q].mem, reply |-> req[q].reply]
    BY <1>2
  <2>2. [[pc |-> "done", sub |-> req[q].sub, mem |-> req[q].mem, reply |-> req[q].reply]
            EXCEPT !.reply = [code |-> code, detail |-> detail]]
        = [pc |-> "done", sub |-> req[q].sub, mem |-> req[q].mem,
           reply |-> [code |-> code, detail |-> detail]]
    OBVIOUS
  <2> QED BY <2>1, <2>2, Zenon
<1> QED BY <1>1, <1>3, <1>4

LEMMA GotoEffect ==
    ASSUME CatalogTypeOK, NEW q \in Slot, NEW pc, NEW mem, Goto(q, pc, mem)
    PROVE  /\ req' = [req EXCEPT ![q] = [pc |-> pc, sub |-> req[q].sub, mem |-> mem,
                                         reply |-> req[q].reply]]
           /\ req' = [z \in Slot |-> req'[z]]
           /\ \A z \in Slot : z # q => req'[z] = req[z]
<1>1. req = [z \in Slot |-> req[z]]
  BY DEF CatalogTypeOK
<1>2. req[q] = [pc |-> req[q].pc, sub |-> req[q].sub, mem |-> req[q].mem, reply |-> req[q].reply]
  BY DEF CatalogTypeOK, HandlerOK
<1>3. req' = [req EXCEPT ![q] = [[req[q] EXCEPT !.pc = pc] EXCEPT !.mem = mem]]
  BY <1>1, <1>2 DEF Goto
<1>4. [[req[q] EXCEPT !.pc = pc] EXCEPT !.mem = mem]
      = [pc |-> pc, sub |-> req[q].sub, mem |-> mem, reply |-> req[q].reply]
  <2>1. [req[q] EXCEPT !.pc = pc]
        = [pc |-> pc, sub |-> req[q].sub, mem |-> req[q].mem, reply |-> req[q].reply]
    BY <1>2
  <2>2. [[pc |-> pc, sub |-> req[q].sub, mem |-> req[q].mem, reply |-> req[q].reply]
            EXCEPT !.mem = mem]
        = [pc |-> pc, sub |-> req[q].sub, mem |-> mem, reply |-> req[q].reply]
    OBVIOUS
  <2> QED BY <2>1, <2>2, Zenon
<1> QED BY <1>1, <1>3, <1>4

-------------------------------------------------------------------------------
(* How the rows may change: items stay, versions move on under their       *)
(* lock_version, and what is published is final.                           *)
Grows ==
    /\ \A i \in Item : item[i] # None => item'[i] = item[i]
    /\ \A v \in Version : Exists(v) =>
          /\ ver'[v].status # "absent" /\ ver'[v].item = ver[v].item
          /\ ver'[v].number = ver[v].number
          /\ ver[v].lock <= ver'[v].lock
          /\ ver'[v].lock = ver[v].lock => ver'[v] = ver[v]
          /\ ver[v].status = "published" => ver'[v] = ver[v]

(* A sound pin is sound in every later state.                              *)
LEMMA SoundPinGrows ==
    ASSUME CatalogTypeOK, Grows, NEW a \in Version, NEW i \in Item, SoundPin(a, i)
    PROVE  SoundPin(a, i)'
<1>1. /\ ver[a].status = "published" /\ ver[a].item \in Agent
      /\ item[ver[a].item] # None /\ item[i] # None
      /\ item[ver[a].item].tenant = item[i].tenant
  BY DEF SoundPin
<1>2. Exists(a)
  BY <1>1 DEF Exists
<1>3. ver'[a] = ver[a]
  BY <1>1, <1>2 DEF Grows
<1>4. ver[a].item \in Item
  BY <1>1 DEF Item
<1>5. item'[ver[a].item] = item[ver[a].item] /\ item'[i] = item[i]
  BY <1>1, <1>4 DEF Grows
<1> QED BY <1>1, <1>3, <1>5 DEF SoundPin

LEMMA PinInHandGrows ==
    ASSUME CatalogTypeOK, Grows, NEW q \in Slot, req'[q] = req[q], req[q].sub \in Submission,
           PinInHand(q)
    PROVE  PinInHand(q)'
<1> DEFINE a == req[q].sub.content.pin
           i == req[q].sub.item
<1>1. CASE i \in Workflow
  <2>1. a \in Version /\ i \in Item /\ SoundPin(a, i)
    BY <1>1 DEF PinInHand, Item
  <2>2. \A b \in Version, j \in Item : SoundPin(b, j) => (SoundPin(b, j))'
    BY SoundPinGrows
  <2>3. req'[q].sub.content.pin \in Version /\ SoundPin(req[q].sub.content.pin, req[q].sub.item)'
    BY <2>1, <2>2 DEF SoundPin
  <2> QED BY <2>3 DEF PinInHand
<1>2. CASE i \notin Workflow
  BY <1>2 DEF PinInHand
<1> QED BY <1>1, <1>2

(* No shelf shrinks.                                                       *)
LEMMA ShelvesGrow ==
    ASSUME Grows, Shelves, Shelves', NEW i \in Item
    PROVE  /\ Cardinality(VersionsOf(i)) \in Nat /\ Cardinality(VersionsOf(i)') \in Nat
           /\ Cardinality(VersionsOf(i)) <= Cardinality(VersionsOf(i)')
<1>1. VersionsOf(i) \subseteq VersionsOf(i)'
  BY DEF Grows, VersionsOf, Exists
<1>2. IsFiniteSet(VersionsOf(i)) /\ IsFiniteSet(VersionsOf(i)')
  BY DEF Shelves
<1> QED BY <1>1, <1>2, FS_Subset, FS_CardinalityType

(* What a waiting handler relies on is so in every later state.            *)
LEMMA InHandGrows ==
    ASSUME CatalogTypeOK, Grows, NEW q \in Slot, req'[q] = req[q], InHand(q),
           ver' \in [Version -> Row \cup {NoVersion}], Shelves, Shelves'
    PROVE  InHand(q)'
<1> DEFINE r == req[q]
           v == r.sub.version
<1>1. CASE r.pc \in {"idle", "read", "done"}
  BY <1>1 DEF InHand, CreateInHand, EditInHand, StackInHand
<1>2. CASE r.pc \notin {"idle", "read", "done"}
  <2>1. r.sub \in Submission
    BY <1>2, HandlerType
  <2>2. /\ r.sub.item \in Item
        /\ r.sub.op \in {"update", "publish"} => v \in Version
    BY <2>1, RequestType
  <2>3. Visible(r.sub.item, TenantOfRequest(r.sub)) =>
            Visible(r.sub.item, TenantOfRequest(r.sub))'
    BY <2>2 DEF Visible, Grows, TenantOfRequest
  <2>4. PinInHand(q) => PinInHand(q)'
    BY <2>1, PinInHandGrows
  <2>5. CreateInHand(q)'
    <3>1. SUFFICES ASSUME r.pc = "number" \/ (r.pc = "commit" /\ r.sub.op = "create_version")
                   PROVE  /\ Visible(r.sub.item, TenantOfRequest(r.sub))' /\ PinInHand(q)'
                          /\ r.pc = "commit" =>
                                r.mem \in 1..(Cardinality(VersionsOf(r.sub.item)') + 1)
      BY DEF CreateInHand, VersionsOf, Exists
    <3>2. /\ Visible(r.sub.item, TenantOfRequest(r.sub)) /\ PinInHand(q)
          /\ r.pc = "commit" => r.mem \in 1..(Cardinality(VersionsOf(r.sub.item)) + 1)
      BY <3>1 DEF InHand, CreateInHand
    <3>3. \A i \in Item : /\ Cardinality(VersionsOf(i)) \in Nat /\ Cardinality(VersionsOf(i)') \in Nat
                          /\ Cardinality(VersionsOf(i)) <= Cardinality(VersionsOf(i)')
      BY ShelvesGrow
    <3>4. /\ Cardinality(VersionsOf(r.sub.item)) \in Nat /\ Cardinality(VersionsOf(r.sub.item)') \in Nat
          /\ Cardinality(VersionsOf(r.sub.item)) <= Cardinality(VersionsOf(r.sub.item)')
      BY <2>2, <3>3 DEF VersionsOf, Exists
    <3>5. r.pc = "commit" => r.mem \in 1..(Cardinality(VersionsOf(r.sub.item)') + 1)
      BY <3>2, <3>4
    <3> QED BY <2>3, <2>4, <3>2, <3>5
  <2>6. EditInHand(q)'
    <3>1. CASE ~(r.pc \in {"validate", "commit"} /\ r.sub.op \in {"update", "publish"})
      BY <3>1 DEF EditInHand
    <3>2. CASE r.pc \in {"validate", "commit"} /\ r.sub.op \in {"update", "publish"}
      <4>1. /\ Visible(r.sub.item, TenantOfRequest(r.sub))
            /\ Exists(v) /\ ver[v].item = r.sub.item
            /\ r.mem.status = "draft" /\ r.mem.lock = r.sub.lock /\ r.mem.lock <= ver[v].lock
            /\ ver[v].lock = r.mem.lock => ver[v] = r.mem
            /\ r.pc = "commit" /\ r.sub.op = "update" => PinInHand(q)
        BY <3>2 DEF InHand, EditInHand
      <4>2. v \in Version /\ r.mem \in Row
        BY <2>2, <3>2, <1>2, HandlerType
      <4>3. r.mem.lock \in Nat /\ ver[v].lock \in Nat /\ ver'[v].lock \in Nat
        <5>1. ver'[v] \in Row \cup {NoVersion}
          BY <4>2
        <5> QED BY <4>2, <5>1, RowType DEF Row, NoVersion
      <4>4. /\ ver'[v].status # "absent" /\ ver'[v].item = ver[v].item
            /\ ver[v].lock <= ver'[v].lock
            /\ ver'[v].lock = ver[v].lock => ver'[v] = ver[v]
        BY <4>1, <4>2 DEF Grows
      <4>5. r.mem.lock <= ver'[v].lock
        BY <4>1, <4>3, <4>4
      <4>6. ver'[v].lock = r.mem.lock => ver'[v] = r.mem
        <5>1. ver'[v].lock = r.mem.lock => ver[v].lock = r.mem.lock
          BY <4>1, <4>3, <4>4
        <5> QED BY <5>1, <4>1, <4>4
      <4> QED BY <2>3, <2>4, <4>1, <4>4, <4>5, <4>6 DEF EditInHand, Exists
    <3> QED BY <3>1, <3>2
  <2>7. StackInHand(q)'
    <3>1. CASE ~(r.pc \in {"pinned", "commit"} /\ r.sub.op \in RunOp)
      BY <3>1 DEF StackInHand
    <3>2. CASE r.pc \in {"pinned", "commit"} /\ r.sub.op \in RunOp
      <4>1. /\ ver[r.mem.wv].status = "published" /\ ver[r.mem.wv].item = r.sub.item
            /\ r.mem.workflow = ver[r.mem.wv].content /\ r.mem.av = r.mem.workflow.pin
            /\ r.pc = "commit" => ver[r.mem.av].status = "published"
            /\ r.pc = "commit" => r.mem.agent = ver[r.mem.av].content
            /\ r.pc = "commit" /\ r.sub.op = "prepare" =>
                  r.mem.workflow.body = "erp" /\ AiValid(r.mem.agent.body)
        BY <3>2 DEF InHand, StackInHand
      <4>2. r.mem.wv \in Version /\ r.mem.av \in Version
        BY <1>2, <3>2, HandlerType DEF Stack
      <4>3. ver'[r.mem.wv] = ver[r.mem.wv] /\ (r.pc = "commit" => ver'[r.mem.av] = ver[r.mem.av])
        BY <4>1, <4>2 DEF Grows, Exists
      <4> QED BY <4>1, <4>3 DEF StackInHand, AiValid
    <3> QED BY <3>1, <3>2
  <2> QED BY <2>5, <2>6, <2>7 DEF InHand
<1> QED BY <1>1, <1>2

-------------------------------------------------------------------------------
(* The part of CatalogInv that is about the items and their versions.      *)
TablesOK ==
    /\ item \in [Item -> ItemRow \cup {None}]
    /\ ver \in [Version -> Row \cup {NoVersion}]
    /\ log \in [Version -> Seq([content : Content, base : Nat])]
    /\ signed \in [Version -> Nat]
RowsOK == TablesOK /\ PinsExist /\ EditsAreSerial /\ PinsArePublished

LEMMA SameRows ==
    ASSUME CatalogInv, UNCHANGED <<item, ver, log, signed>>
    PROVE  RowsOK' /\ Grows
<1>1. RowsOK'
  BY DEF CatalogInv, CatalogTypeOK, RowsOK, TablesOK, PinsExist, EditsAreSerial,
         PinsArePublished, SoundPin, VersionsOf, Exists
<1>2. \A v \in Version : ver[v].lock \in Nat
  BY RowType DEF CatalogInv
<1>3. Grows
  BY <1>2 DEF Grows, Exists
<1> QED BY <1>1, <1>3

(* No pin is lost when rows grow.                                          *)
LEMMA PinsGrow ==
    ASSUME CatalogInv, Grows, NEW v \in Version, Exists(v), ver[v].item \in Workflow,
           ver'[v].item = ver[v].item, ver'[v].content.pin = ver[v].content.pin
    PROVE  SoundPin(ver[v].content.pin, ver[v].item)'
<1>1. /\ ver[v].content.pin \in Version /\ ver[v].item \in Item
      /\ SoundPin(ver[v].content.pin, ver[v].item)
  BY DEF CatalogInv, PinsExist, PinsArePublished, Item
<1>2. \A b \in Version, j \in Item : SoundPin(b, j) => (SoundPin(b, j))'
  BY SoundPinGrows DEF CatalogInv
<1> QED BY <1>1, <1>2 DEF SoundPin

LEMMA ItemRows ==
    ASSUME CatalogInv, NEW q \in Slot, CommitItem(q)
    PROVE  RowsOK' /\ Grows
<1> DEFINE s == req[q].sub
<1>1. /\ s \in Submission /\ item[s.item] = None
      /\ item' = [item EXCEPT ![s.item] = [tenant |-> TenantOfRequest(s), slug |-> s.slug]]
      /\ UNCHANGED <<ver, log, signed>>
  BY HandlerType DEF CatalogInv, CommitItem
<1>2. s.item \in Item /\ [tenant |-> TenantOfRequest(s), slug |-> s.slug] \in ItemRow
  BY <1>1, RequestType DEF ItemRow
<1>3. \A v \in Version : ver[v].lock \in Nat
  BY RowType DEF CatalogInv
<1>4. \A i \in Item : item[i] # None => item'[i] = item[i]
  BY <1>1, <1>2 DEF CatalogInv, CatalogTypeOK
<1>5. Grows
  BY <1>1, <1>3, <1>4 DEF Grows, Exists
<1>6. TablesOK'
  BY <1>1, <1>2 DEF CatalogInv, CatalogTypeOK, TablesOK
<1>7. EditsAreSerial' /\ PinsExist'
  BY <1>1 DEF CatalogInv, EditsAreSerial, PinsExist, Exists
<1>8. PinsArePublished'
  <2>1. ASSUME NEW v \in Version, Exists(v), ver[v].item \in Workflow
        PROVE  SoundPin(ver[v].content.pin, ver[v].item)'
    BY <1>1, <1>5, <2>1, PinsGrow
  <2> QED BY <1>1, <2>1 DEF PinsArePublished, Exists
<1> QED BY <1>5, <1>6, <1>7, <1>8 DEF RowsOK

(* One version's row is replaced, and its logs with it.                    *)
Replaces(v, row, edits, signature) ==
    /\ UNCHANGED item
    /\ ver' = [ver EXCEPT ![v] = row]
    /\ log' = [log EXCEPT ![v] = edits]
    /\ signed' = [signed EXCEPT ![v] = signature]

(* A row that is replaced as it should be leaves all rows right.           *)
LEMMA ReplacedRows ==
    ASSUME CatalogInv, NEW v \in Version, NEW row \in Row,
           NEW edits \in Seq([content : Content, base : Nat]), NEW signature \in Nat,
           Replaces(v, row, edits, signature),
           Exists(v) => /\ row.item = ver[v].item /\ row.number = ver[v].number
                        /\ ver[v].status = "draft" /\ ver[v].lock < row.lock,
           row.item \in Workflow =>
               row.content.pin \in Version /\ SoundPin(row.content.pin, row.item),
           \A i \in 1..Len(edits) : edits[i].base = i - 1,
           Len(edits) > 0, row.content = edits[Len(edits)].content,
           row.lock = IF row.status = "published" THEN Len(edits) + 1 ELSE Len(edits),
           signature = IF row.status = "published" THEN Len(edits) ELSE 0
    PROVE  RowsOK' /\ Grows
<1>1. /\ ver'[v] = row /\ log'[v] = edits /\ signed'[v] = signature
      /\ \A w \in Version \ {v} : ver'[w] = ver[w] /\ log'[w] = log[w] /\ signed'[w] = signed[w]
      /\ item' = item
  BY DEF CatalogInv, CatalogTypeOK, Replaces
<1>2. TablesOK'
  BY DEF CatalogInv, CatalogTypeOK, TablesOK, Replaces
<1>3. \A w \in Version : ver[w].lock \in Nat
  BY RowType DEF CatalogInv
<1>4. row.lock \in Nat /\ row.status # "absent" /\ row.item \in Item
  BY DEF Row
<1>5. Grows
  <2>1. ASSUME NEW w \in Version, Exists(w)
        PROVE  /\ ver'[w].status # "absent" /\ ver'[w].item = ver[w].item
               /\ ver'[w].number = ver[w].number
               /\ ver[w].lock <= ver'[w].lock
               /\ ver'[w].lock = ver[w].lock => ver'[w] = ver[w]
               /\ ver[w].status = "published" => ver'[w] = ver[w]
    <3>1. CASE w # v
      BY <1>1, <1>3, <2>1, <3>1 DEF Exists
    <3>2. CASE w = v
      <4>1. /\ row.item = ver[v].item /\ row.number = ver[v].number
            /\ ver[v].status = "draft" /\ ver[v].lock < row.lock
        BY <2>1, <3>2
      <4>2. ver[v].lock <= row.lock /\ row.lock # ver[v].lock
        BY <4>1, <1>3, <1>4
      <4> QED BY <1>1, <1>4, <3>2, <4>1, <4>2
    <3> QED BY <3>1, <3>2
  <2> QED BY <1>1, <2>1 DEF Grows
<1>6. PinsExist'
  BY <1>1 DEF CatalogInv, PinsExist, Exists
<1>7. PinsArePublished'
  <2>1. ASSUME NEW w \in Version, ver'[w].status # "absent", ver'[w].item \in Workflow
        PROVE  SoundPin(ver[w].content.pin, ver[w].item)'
    <3>1. CASE w # v
      BY <1>1, <1>5, <2>1, <3>1, PinsGrow DEF Exists
    <3>2. CASE w = v
      <4>1. row.content.pin \in Version /\ row.item \in Item /\ SoundPin(row.content.pin, row.item)
        BY <1>1, <1>4, <2>1, <3>2
      <4>2. \A b \in Version, j \in Item : SoundPin(b, j) => (SoundPin(b, j))'
        BY <1>5, SoundPinGrows DEF CatalogInv
      <4> QED BY <1>1, <3>2, <4>1, <4>2 DEF SoundPin
    <3> QED BY <3>1, <3>2
  <2> QED BY <2>1 DEF PinsArePublished, Exists
<1>8. EditsAreSerial'
  <2> DEFINE Serial(w) ==
        LET n == Len(log[w]) IN
        /\ \A i \in 1..n : log[w][i].base = i - 1
        /\ n > 0 <=> Exists(w)
        /\ n > 0 => ver[w].content = log[w][n].content
        /\ ver[w].lock = IF ver[w].status = "published" THEN n + 1 ELSE n
        /\ signed[w] = IF ver[w].status = "published" THEN n ELSE 0
  <2>1. ASSUME NEW w \in Version, w # v PROVE Serial(w)'
    <3>1. Serial(w)
      BY DEF CatalogInv, EditsAreSerial
    <3>2. ver'[w] = ver[w] /\ log'[w] = log[w] /\ signed'[w] = signed[w]
      BY <1>1, <2>1
    <3> QED BY <3>1, <3>2 DEF Exists
  <2>2. Serial(v)'
    BY <1>1, <1>4 DEF Exists
  <2> QED BY <2>1, <2>2 DEF EditsAreSerial
<1> QED BY <1>2, <1>5, <1>6, <1>7, <1>8 DEF RowsOK

(* A new version is a draft, numbered, of lock_version 1.                  *)
LEMMA VersionRows ==
    ASSUME CatalogInv, NEW q \in Slot, CommitVersion(q)
    PROVE  RowsOK' /\ Grows
<1> DEFINE s == req[q].sub
<1>1. /\ s \in Submission /\ req[q].mem \in Nat \ {0} /\ req[q].pc = "commit"
      /\ s.op = "create_version"
  BY HandlerType DEF CatalogInv, CommitVersion
<1>2. PICK v \in Version :
         /\ ~Exists(v)
         /\ ver' = [ver EXCEPT ![v] = [item |-> s.item, number |-> req[q].mem, status |-> "draft",
                                       content |-> s.content, lock |-> 1]]
         /\ log' = [log EXCEPT ![v] = <<[content |-> s.content, base |-> 0]>>]
         /\ UNCHANGED <<item, signed>>
  BY DEF CommitVersion
<1> DEFINE row == [item |-> s.item, number |-> req[q].mem, status |-> "draft",
                   content |-> s.content, lock |-> 1]
           edit == [content |-> s.content, base |-> 0]
<1>3. s.item \in Item /\ s.content \in Content
  BY <1>1, RequestType
<1>4. row \in Row /\ <<edit>> \in Seq([content : Content, base : Nat])
  BY <1>1, <1>3 DEF Row
<1>5. signed[v] = 0
  BY <1>2 DEF CatalogInv, EditsAreSerial, Exists
<1>6. signed' = [signed EXCEPT ![v] = 0]
  BY <1>2, <1>5 DEF CatalogInv, CatalogTypeOK
<1>7. Replaces(v, row, <<edit>>, 0)
  BY <1>2, <1>6 DEF Replaces
<1>8. row.item \in Workflow => row.content.pin \in Version /\ SoundPin(row.content.pin, row.item)
  <2>1. PinInHand(q)
    BY <1>1 DEF CatalogInv, InHand, CreateInHand
  <2> QED BY <2>1 DEF PinInHand
<1>9. /\ Len(<<edit>>) = 1 /\ <<edit>>[1] = edit /\ edit.base = 0 /\ row.content = edit.content
      /\ row.lock = 1 /\ row.status = "draft"
  OBVIOUS
<1> HIDE DEF row, edit
<1>10. \A i \in 1..Len(<<edit>>) : <<edit>>[i].base = i - 1
  BY <1>9
<1>11. /\ Exists(v) => /\ row.item = ver[v].item /\ row.number = ver[v].number
                       /\ ver[v].status = "draft" /\ ver[v].lock < row.lock
       /\ Len(<<edit>>) > 0 /\ row.content = <<edit>>[Len(<<edit>>)].content
       /\ row.lock = IF row.status = "published" THEN Len(<<edit>>) + 1 ELSE Len(<<edit>>)
       /\ 0 = IF row.status = "published" THEN Len(<<edit>>) ELSE 0
  BY <1>2, <1>9
<1>12. 0 \in Nat
  OBVIOUS
<1> QED BY <1>2, <1>4, <1>7, <1>8, <1>10, <1>11, <1>12, ReplacedRows

(* An edit that finds its lock_version replaces the draft it read.         *)
LEMMA EditFindsDraft ==
    ASSUME CatalogInv, NEW q \in Slot, req[q].pc = "commit",
           req[q].sub.op \in {"update", "publish"}, LockHolds(q)
    PROVE  LET v == req[q].sub.version IN
           /\ v \in Version /\ req[q].sub \in Submission
           /\ ver[v] \in Row /\ ver[v] = req[q].mem /\ ver[v].status = "draft"
           /\ ver[v].lock = req[q].sub.lock /\ ver[v].item = req[q].sub.item
           /\ Len(log[v]) = ver[v].lock /\ ver[v].content = log[v][Len(log[v])].content
           /\ \A i \in 1..Len(log[v]) : log[v][i].base = i - 1
           /\ signed[v] = 0
<1> DEFINE v == req[q].sub.version
<1>1. req[q].sub \in Submission /\ req[q].mem \in Row
  BY HandlerType DEF CatalogInv
<1>2. v \in Version
  BY <1>1, RequestType
<1>3. /\ Exists(v) /\ ver[v].item = req[q].sub.item
      /\ req[q].mem.status = "draft" /\ req[q].mem.lock = req[q].sub.lock
      /\ ver[v].lock = req[q].mem.lock => ver[v] = req[q].mem
  BY DEF CatalogInv, InHand, EditInHand
<1>4. ver[v] = req[q].mem
  BY <1>3 DEF LockHolds
<1>5. ver[v].status = "draft" /\ ver[v] \in Row
  BY <1>1, <1>3, <1>4
<1>6. LET n == Len(log[v]) IN
      /\ \A i \in 1..n : log[v][i].base = i - 1
      /\ n > 0 /\ ver[v].content = log[v][n].content
      /\ ver[v].lock = n /\ signed[v] = 0
  BY <1>2, <1>3, <1>5 DEF CatalogInv, EditsAreSerial
<1> QED BY <1>1, <1>2, <1>3, <1>4, <1>5, <1>6

LEMMA UpdateRows ==
    ASSUME CatalogInv, NEW q \in Slot, CommitUpdate(q)
    PROVE  RowsOK' /\ Grows
<1> DEFINE s == req[q].sub
           v == s.version
           edit == [content |-> s.content, base |-> s.lock]
           edits == Append(log[v], edit)
           row == [item |-> ver[v].item, number |-> ver[v].number, status |-> "draft",
                   content |-> s.content, lock |-> ver[v].lock + 1]
<1>1. /\ req[q].pc = "commit" /\ s.op = "update" /\ LockHolds(q)
      /\ ver' = [ver EXCEPT ![v].content = s.content, ![v].lock = req[q].mem.lock + 1]
      /\ log' = [log EXCEPT ![v] = Append(@, edit)] /\ UNCHANGED <<item, signed>>
  BY DEF CommitUpdate
<1>2. /\ v \in Version /\ s \in Submission
      /\ ver[v] \in Row /\ ver[v] = req[q].mem /\ ver[v].status = "draft"
      /\ ver[v].lock = s.lock /\ ver[v].item = s.item
      /\ Len(log[v]) = ver[v].lock /\ \A i \in 1..Len(log[v]) : log[v][i].base = i - 1
      /\ signed[v] = 0
  BY <1>1, EditFindsDraft
<1>3. s.content \in Content /\ s.lock \in Nat /\ s.item \in Item
  BY <1>2, RequestType
<1>4. log[v] \in Seq([content : Content, base : Nat])
  BY <1>2, RowType DEF CatalogInv
<1>5. /\ edits \in Seq([content : Content, base : Nat]) /\ Len(edits) = Len(log[v]) + 1
      /\ edits[Len(log[v]) + 1] = edit /\ \A i \in 1..Len(log[v]) : edits[i] = log[v][i]
  <2>1. edit \in [content : Content, base : Nat]
    BY <1>3
  <2> HIDE DEF edit
  <2> QED BY <1>4, <2>1
<1>6. row \in Row /\ row.item = ver[v].item /\ row.number = ver[v].number
      /\ row.content = s.content
      /\ row.status = "draft" /\ row.lock = ver[v].lock + 1
  BY <1>2, <1>3 DEF Row
<1>7. ver' = [ver EXCEPT ![v] = row]
  <2>1. ver[v] = [item |-> ver[v].item, number |-> ver[v].number, status |-> "draft",
                  content |-> ver[v].content, lock |-> ver[v].lock]
    BY <1>2 DEF Row
  <2>2. ver' = [ver EXCEPT ![v] = [[ver[v] EXCEPT !.content = s.content] EXCEPT
                                      !.lock = req[q].mem.lock + 1]]
    BY <1>1, <1>2 DEF CatalogInv, CatalogTypeOK
  <2>3. [ver[v] EXCEPT !.content = s.content]
        = [item |-> ver[v].item, number |-> ver[v].number, status |-> "draft",
           content |-> s.content, lock |-> ver[v].lock]
    BY <2>1
  <2>4. [[item |-> ver[v].item, number |-> ver[v].number, status |-> "draft",
          content |-> s.content, lock |-> ver[v].lock] EXCEPT !.lock = req[q].mem.lock + 1]
        = [item |-> ver[v].item, number |-> ver[v].number, status |-> "draft",
           content |-> s.content, lock |-> req[q].mem.lock + 1]
    OBVIOUS
  <2> QED BY <1>2, <2>2, <2>3, <2>4, Zenon
<1>8. signed' = [signed EXCEPT ![v] = 0]
  BY <1>1, <1>2 DEF CatalogInv, CatalogTypeOK
<1>9. Replaces(v, row, edits, 0)
  BY <1>1, <1>7, <1>8 DEF Replaces
<1>10. row.item \in Workflow => row.content.pin \in Version /\ SoundPin(row.content.pin, row.item)
  <2>1. PinInHand(q)
    BY <1>1 DEF CatalogInv, InHand, EditInHand
  <2> QED BY <1>2, <1>6, <2>1 DEF PinInHand
<1>11. edit.base = s.lock /\ edit.content = s.content
  OBVIOUS
<1> HIDE DEF row, edit, edits
<1>12. ver[v].lock \in Nat
  BY <1>2, <1>3
<1>13. \A i \in 1..Len(edits) : edits[i].base = i - 1
  <2>1. ASSUME NEW i \in 1..Len(edits) PROVE edits[i].base = i - 1
    <3>1. CASE i = Len(log[v]) + 1
      BY <1>2, <1>5, <1>11, <1>12, <3>1
    <3>2. CASE i # Len(log[v]) + 1
      <4>1. i \in 1..Len(log[v])
        BY <1>2, <1>5, <1>12, <2>1, <3>2
      <4> QED BY <4>1, <1>2, <1>5
    <3> QED BY <3>1, <3>2
  <2> QED BY <2>1
<1>14. /\ ver[v].lock < row.lock /\ Len(edits) > 0 /\ row.content = edits[Len(edits)].content
       /\ row.lock = Len(edits) /\ row.status # "published"
  BY <1>2, <1>5, <1>6, <1>11, <1>12
<1>15. /\ Exists(v) => /\ row.item = ver[v].item /\ row.number = ver[v].number
                       /\ ver[v].status = "draft" /\ ver[v].lock < row.lock
       /\ row.lock = IF row.status = "published" THEN Len(edits) + 1 ELSE Len(edits)
       /\ 0 = IF row.status = "published" THEN Len(edits) ELSE 0
  BY <1>2, <1>6, <1>14
<1>16. 0 \in Nat
  OBVIOUS
<1>17. v \in Version /\ row \in Row /\ edits \in Seq([content : Content, base : Nat])
  BY <1>2, <1>5, <1>6
<1> HIDE DEF v
<1> QED BY <1>9, <1>10, <1>13, <1>14, <1>15, <1>16, <1>17, ReplacedRows

LEMMA PublishRows ==
    ASSUME CatalogInv, NEW q \in Slot, CommitPublish(q)
    PROVE  RowsOK' /\ Grows
<1> DEFINE s == req[q].sub
           v == s.version
           edits == log[v]
           row == [item |-> ver[v].item, number |-> ver[v].number, status |-> "published",
                   content |-> ver[v].content, lock |-> ver[v].lock + 1]
<1>1. /\ req[q].pc = "commit" /\ s.op = "publish" /\ LockHolds(q)
      /\ ver' = [ver EXCEPT ![v].status = "published", ![v].lock = req[q].mem.lock + 1]
      /\ signed' = [signed EXCEPT ![v] = s.lock] /\ UNCHANGED <<item, log>>
  BY DEF CommitPublish
<1>2. /\ v \in Version /\ s \in Submission
      /\ ver[v] \in Row /\ ver[v] = req[q].mem /\ ver[v].status = "draft"
      /\ ver[v].lock = s.lock /\ ver[v].item = s.item
      /\ Len(log[v]) = ver[v].lock /\ ver[v].content = log[v][Len(log[v])].content
      /\ \A i \in 1..Len(log[v]) : log[v][i].base = i - 1
  BY <1>1, EditFindsDraft
<1>3. edits \in Seq([content : Content, base : Nat]) /\ s.lock \in Nat
  BY <1>2, RowType, RequestType DEF CatalogInv
<1>4. row \in Row /\ row.item = ver[v].item /\ row.number = ver[v].number
      /\ row.content = ver[v].content
      /\ row.status = "published" /\ row.lock = ver[v].lock + 1 /\ ver[v].lock > 0
  BY <1>2 DEF Row
<1>5. ver' = [ver EXCEPT ![v] = row]
  <2>1. ver[v] = [item |-> ver[v].item, number |-> ver[v].number, status |-> "draft",
                  content |-> ver[v].content, lock |-> ver[v].lock]
    BY <1>2 DEF Row
  <2>2. ver' = [ver EXCEPT ![v] = [[ver[v] EXCEPT !.status = "published"] EXCEPT
                                      !.lock = req[q].mem.lock + 1]]
    BY <1>1, <1>2 DEF CatalogInv, CatalogTypeOK
  <2>3. [ver[v] EXCEPT !.status = "published"]
        = [item |-> ver[v].item, number |-> ver[v].number, status |-> "published",
           content |-> ver[v].content, lock |-> ver[v].lock]
    BY <2>1
  <2>4. [[item |-> ver[v].item, number |-> ver[v].number, status |-> "published",
          content |-> ver[v].content, lock |-> ver[v].lock] EXCEPT !.lock = req[q].mem.lock + 1]
        = [item |-> ver[v].item, number |-> ver[v].number, status |-> "published",
           content |-> ver[v].content, lock |-> req[q].mem.lock + 1]
    OBVIOUS
  <2> QED BY <1>2, <2>2, <2>3, <2>4, Zenon
<1>6. log' = [log EXCEPT ![v] = edits]
  BY <1>1, <1>2 DEF CatalogInv, CatalogTypeOK
<1>7. Replaces(v, row, edits, s.lock)
  BY <1>1, <1>5, <1>6 DEF Replaces
<1>8. row.item \in Workflow => row.content.pin \in Version /\ SoundPin(row.content.pin, row.item)
  BY <1>2, <1>4 DEF CatalogInv, PinsExist, PinsArePublished, Exists
<1> HIDE DEF row, edits
<1>9. /\ ver[v].lock < row.lock /\ Len(log[v]) > 0 /\ row.lock = Len(log[v]) + 1
      /\ s.lock = Len(log[v])
  <2>1. ver[v].lock = s.lock /\ Len(log[v]) = s.lock
    BY <1>2
  <2>2. row.lock = ver[v].lock + 1 /\ ver[v].lock > 0
    BY <1>4
  <2>3. s.lock \in Nat
    BY <1>3
  <2> HIDE DEF v, s
  <2> QED BY <2>1, <2>2, <2>3
<1> QED BY <1>2, <1>3, <1>4, <1>7, <1>8, <1>9, ReplacedRows DEF edits

(* Every step leaves the rows right and only lets them grow.               *)
LEMMA RowsStep ==
    ASSUME CatalogInv, [Next]_vars
    PROVE  RowsOK' /\ Grows
<1>1. CASE UNCHANGED vars
  BY <1>1, SameRows DEF vars
<1>2. ASSUME NEW r \in Run, ProposePrepared(r) PROVE RowsOK' /\ Grows
  BY <1>2, SameRows DEF ProposePrepared
<1>3. ASSUME NEW q \in Slot, Begin(q) \/ Respond(q) \/ Prepare(q) PROVE RowsOK' /\ Grows
  <2>1. UNCHANGED <<item, ver, log, signed>>
    BY <1>3 DEF Begin, Respond, Prepare, ReadStack, ReadPinned, CommitRun, CommitPreparation, Reading
  <2> QED BY <2>1, SameRows
<1>4. ASSUME NEW q \in Slot, Create(q) PROVE RowsOK' /\ Grows
  <2>1. CASE SlugTaken(q) \/ ReadItem(q) \/ ReadNumber(q) \/ NumberTaken(q)
    <3>1. UNCHANGED <<item, ver, log, signed>>
      BY <2>1 DEF SlugTaken, ReadItem, ReadNumber, NumberTaken, Reading
    <3> QED BY <3>1, SameRows
  <2> QED BY <1>4, <2>1, ItemRows, VersionRows DEF Create
<1>5. ASSUME NEW q \in Slot, Write(q) PROVE RowsOK' /\ Grows
  <2>1. CASE ReadVersion(q) \/ Validate(q) \/ CommitNothing(q) \/ StaleWrite(q)
    <3>1. UNCHANGED <<item, ver, log, signed>>
      BY <2>1 DEF ReadVersion, Validate, CommitNothing, StaleWrite, Reading
    <3> QED BY <3>1, SameRows
  <2> QED BY <1>5, <2>1, UpdateRows, PublishRows DEF Write
<1> QED BY <1>1, <1>2, <1>3, <1>4, <1>5 DEF Next

-------------------------------------------------------------------------------
(* What RunsCarryPublishedStack says of one run.                           *)
CarriesStack(r) ==
    run[r].stage # "absent" =>
        LET w == ver[run[r].wv] IN
        /\ w.status = "published" /\ w.item = run[r].item
        /\ run[r].av = w.content.pin /\ SoundPin(run[r].av, run[r].item)
        /\ run[r].stage = "proposed" => /\ run[r].workflow = w.content
                                        /\ run[r].agent = ver[run[r].av].content
        /\ run[r].stage = "queued" => AiValid(ver[run[r].av].content.body)
                                      /\ w.content.body = "erp"

(* Once right, a run stays right as the rows grow.                         *)
LEMMA CarriedGrows ==
    ASSUME CatalogInv, Grows, NEW r \in Run, run'[r] = run[r]
    PROVE  CarriesStack(r)'
<1>1. CASE run[r].stage = "absent"
  BY <1>1 DEF CarriesStack
<1>2. CASE run[r].stage # "absent"
  <2>1. CarriesStack(r)
    BY DEF CatalogInv, RunsCarryPublishedStack, CarriesStack
  <2>2. run[r] \in RunRow
    BY <1>2 DEF CatalogInv, CatalogTypeOK, NoRun
  <2>3. run[r].wv \in Version /\ run[r].av \in Version /\ run[r].item \in Item
    BY <2>2 DEF RunRow, Item
  <2>4. ver[run[r].wv].status = "published" /\ SoundPin(run[r].av, run[r].item)
    BY <1>2, <2>1 DEF CarriesStack
  <2>5. ver[run[r].av].status = "published"
    BY <2>4 DEF SoundPin
  <2>6. ver'[run[r].wv] = ver[run[r].wv] /\ ver'[run[r].av] = ver[run[r].av]
    BY <2>3, <2>4, <2>5 DEF Grows, Exists
  <2>7. \A b \in Version, j \in Item : SoundPin(b, j) => (SoundPin(b, j))'
    BY SoundPinGrows DEF CatalogInv
  <2>8. SoundPin(run[r].av, run[r].item)'
    BY <2>3, <2>4, <2>7 DEF SoundPin
  <2> QED BY <1>2, <2>1, <2>6, <2>8 DEF CarriesStack, AiValid, SoundPin
<1> QED BY <1>1, <1>2

(* What a handler has in hand at its commit is a stack for a run.          *)
LEMMA StackIsSound ==
    ASSUME CatalogInv, NEW q \in Slot, req[q].pc = "commit", req[q].sub.op \in RunOp
    PROVE  LET s == req[q].sub
               stack == req[q].mem
               w == ver[stack.wv] IN
           /\ stack \in Stack /\ s.item \in Workflow
           /\ w.status = "published" /\ w.item = s.item /\ stack.workflow = w.content
           /\ stack.av = w.content.pin /\ SoundPin(stack.av, s.item)
           /\ stack.agent = ver[stack.av].content
           /\ s.op = "prepare" => w.content.body = "erp" /\ AiValid(ver[stack.av].content.body)
<1>1. req[q].mem \in Stack /\ req[q].sub \in Submission
  BY HandlerType DEF CatalogInv
<1>2. req[q].sub.item \in Workflow /\ req[q].mem.wv \in Version
  BY <1>1, RequestType DEF Stack
<1>3. LET stack == req[q].mem
          w == ver[stack.wv] IN
      /\ w.status = "published" /\ w.item = req[q].sub.item
      /\ stack.workflow = w.content /\ stack.av = w.content.pin
      /\ stack.agent = ver[stack.av].content
      /\ req[q].sub.op = "prepare" => w.content.body = "erp" /\ AiValid(ver[stack.av].content.body)
  BY DEF CatalogInv, InHand, StackInHand
<1>4. SoundPin(ver[req[q].mem.wv].content.pin, ver[req[q].mem.wv].item)
  BY <1>2, <1>3 DEF CatalogInv, PinsArePublished, Exists
<1> QED BY <1>1, <1>2, <1>3, <1>4

(* One run is replaced.                                                    *)
LEMMA ReplacedRun ==
    ASSUME CatalogInv, Grows, NEW r \in Run, NEW row \in RunRow, run' = [run EXCEPT ![r] = row],
           UNCHANGED <<item, ver>>,
           ver[row.wv].status = "published", ver[row.wv].item = row.item,
           row.av = ver[row.wv].content.pin, SoundPin(row.av, row.item),
           row.stage = "proposed" => /\ row.workflow = ver[row.wv].content
                                     /\ row.agent = ver[row.av].content,
           row.stage = "queued" => /\ AiValid(ver[row.av].content.body)
                                   /\ ver[row.wv].content.body = "erp"
    PROVE  run' \in [Run -> RunRow \cup {NoRun}] /\ RunsCarryPublishedStack'
<1>1. run' \in [Run -> RunRow \cup {NoRun}] /\ run'[r] = row /\ \A x \in Run \ {r} : run'[x] = run[x]
  BY DEF CatalogInv, CatalogTypeOK
<1>2. CarriesStack(r)'
  BY <1>1 DEF CarriesStack, SoundPin, AiValid
<1>3. \A x \in Run : CarriesStack(x)'
  BY <1>1, <1>2, CarriedGrows
<1> QED BY <1>1, <1>3 DEF RunsCarryPublishedStack, CarriesStack

(* Every step leaves the runs right.                                       *)
LEMMA RunsStep ==
    ASSUME CatalogInv, Grows, [Next]_vars
    PROVE  run' \in [Run -> RunRow \cup {NoRun}] /\ RunsCarryPublishedStack'
<1> DEFINE Goal == run' \in [Run -> RunRow \cup {NoRun}] /\ RunsCarryPublishedStack'
<1>1. CASE UNCHANGED run
  <2>1. \A r \in Run : CarriesStack(r)'
    BY <1>1, CarriedGrows
  <2> QED BY <1>1, <2>1 DEF CatalogInv, CatalogTypeOK, RunsCarryPublishedStack, CarriesStack
<1>2. ASSUME NEW q \in Slot, CommitRun(q) PROVE Goal
  <2> DEFINE s == req[q].sub
             stack == req[q].mem
             row == [stage |-> "proposed", item |-> s.item, wv |-> stack.wv, av |-> stack.av,
                     workflow |-> stack.workflow, agent |-> stack.agent]
  <2>1. req[q].pc = "commit" /\ s.op \in RunOp /\ UNCHANGED <<item, ver>>
    BY <1>2 DEF CommitRun, RunOp
  <2>2. PICK r \in Run : run' = [run EXCEPT ![r] = row]
    BY <1>2 DEF CommitRun
  <2>3. LET w == ver[stack.wv] IN
        /\ stack \in Stack /\ s.item \in Workflow
        /\ w.status = "published" /\ w.item = s.item /\ stack.workflow = w.content
        /\ stack.av = w.content.pin /\ SoundPin(stack.av, s.item)
        /\ stack.agent = ver[stack.av].content
    BY <2>1, StackIsSound
  <2>4. row \in RunRow
    BY <2>3 DEF RunRow, Stack
  <2>5. /\ row.stage = "proposed" /\ row.item = s.item /\ row.wv = stack.wv /\ row.av = stack.av
        /\ row.workflow = stack.workflow /\ row.agent = stack.agent
    OBVIOUS
  <2> HIDE DEF row
  <2>6. /\ ver[row.wv].status = "published" /\ ver[row.wv].item = row.item
        /\ row.av = ver[row.wv].content.pin /\ SoundPin(row.av, row.item)
        /\ row.stage = "proposed" => /\ row.workflow = ver[row.wv].content
                                     /\ row.agent = ver[row.av].content
        /\ row.stage = "queued" => /\ AiValid(ver[row.av].content.body)
                                   /\ ver[row.wv].content.body = "erp"
    BY <2>3, <2>5
  <2> QED BY <2>1, <2>2, <2>4, <2>6, ReplacedRun
<1>3. ASSUME NEW q \in Slot, CommitPreparation(q) PROVE Goal
  <2> DEFINE s == req[q].sub
             stack == req[q].mem
             row == [stage |-> "queued", item |-> s.item, wv |-> stack.wv, av |-> stack.av,
                     workflow |-> None, agent |-> None]
  <2>1. req[q].pc = "commit" /\ s.op \in RunOp /\ s.op = "prepare" /\ UNCHANGED <<item, ver>>
    BY <1>3 DEF CommitPreparation, RunOp
  <2>2. PICK r \in Run : run' = [run EXCEPT ![r] =
                            [NoRun EXCEPT !.stage = "queued", !.item = s.item,
                                          !.wv = stack.wv, !.av = stack.av]]
    BY <1>3 DEF CommitPreparation
  <2>3. LET w == ver[stack.wv] IN
        /\ stack \in Stack /\ s.item \in Workflow
        /\ w.status = "published" /\ w.item = s.item
        /\ stack.av = w.content.pin /\ SoundPin(stack.av, s.item)
        /\ w.content.body = "erp" /\ AiValid(ver[stack.av].content.body)
    BY <2>1, StackIsSound
  <2>4. [NoRun EXCEPT !.stage = "queued", !.item = s.item, !.wv = stack.wv, !.av = stack.av] = row
    <3> DEFINE a == [stage |-> "queued", item |-> None, wv |-> None, av |-> None,
                     workflow |-> None, agent |-> None]
               b == [stage |-> "queued", item |-> s.item, wv |-> None, av |-> None,
                     workflow |-> None, agent |-> None]
               c == [stage |-> "queued", item |-> s.item, wv |-> stack.wv, av |-> None,
                     workflow |-> None, agent |-> None]
    <3>1. [NoRun EXCEPT !.stage = "queued", !.item = s.item, !.wv = stack.wv, !.av = stack.av]
          = [[[[NoRun EXCEPT !.stage = "queued"] EXCEPT !.item = s.item]
                 EXCEPT !.wv = stack.wv] EXCEPT !.av = stack.av]
      BY Zenon
    <3>2. [NoRun EXCEPT !.stage = "queued"] = a
      BY DEF NoRun
    <3>3. [a EXCEPT !.item = s.item] = b
      OBVIOUS
    <3>4. [b EXCEPT !.wv = stack.wv] = c
      OBVIOUS
    <3>5. [c EXCEPT !.av = stack.av] = row
      OBVIOUS
    <3> HIDE DEF a, b, c, row
    <3> QED BY <3>1, <3>2, <3>3, <3>4, <3>5, Zenon
  <2>5. row \in RunRow
    BY <2>3 DEF RunRow, Stack
  <2>6. /\ row.stage = "queued" /\ row.item = s.item /\ row.wv = stack.wv /\ row.av = stack.av
    OBVIOUS
  <2> HIDE DEF row
  <2>7. /\ ver[row.wv].status = "published" /\ ver[row.wv].item = row.item
        /\ row.av = ver[row.wv].content.pin /\ SoundPin(row.av, row.item)
        /\ row.stage = "proposed" => /\ row.workflow = ver[row.wv].content
                                     /\ row.agent = ver[row.av].content
        /\ row.stage = "queued" => /\ AiValid(ver[row.av].content.body)
                                   /\ ver[row.wv].content.body = "erp"
    BY <2>3, <2>6
  <2> QED BY <2>1, <2>2, <2>4, <2>5, <2>7, ReplacedRun
<1>4. ASSUME NEW r \in Run, ProposePrepared(r) PROVE Goal
  <2> DEFINE wrow == ver[run[r].wv]
             arow == ver[run[r].av]
             row == [stage |-> "proposed", item |-> run[r].item, wv |-> run[r].wv, av |-> run[r].av,
                     workflow |-> wrow.content, agent |-> arow.content]
  <2>1. /\ run[r].stage = "queued" /\ wrow.status = "published" /\ arow.status = "published"
        /\ run' = [run EXCEPT ![r].stage = "proposed", ![r].workflow = wrow.content,
                              ![r].agent = arow.content]
        /\ UNCHANGED <<item, ver>>
    BY <1>4 DEF ProposePrepared, PinAvailable
  <2>2. run[r] \in RunRow
    BY <2>1 DEF CatalogInv, CatalogTypeOK, NoRun
  <2>3. CarriesStack(r)
    BY DEF CatalogInv, RunsCarryPublishedStack, CarriesStack
  <2>4. run' = [run EXCEPT ![r] = row]
    <3>1. run[r] = [stage |-> "queued", item |-> run[r].item, wv |-> run[r].wv, av |-> run[r].av,
                    workflow |-> run[r].workflow, agent |-> run[r].agent]
      BY <2>1, <2>2 DEF RunRow
    <3>2. run' = [run EXCEPT ![r] = [[[run[r] EXCEPT !.stage = "proposed"] EXCEPT
                                        !.workflow = wrow.content] EXCEPT !.agent = arow.content]]
      BY <2>1 DEF CatalogInv, CatalogTypeOK
    <3>3. [run[r] EXCEPT !.stage = "proposed"]
          = [stage |-> "proposed", item |-> run[r].item, wv |-> run[r].wv, av |-> run[r].av,
             workflow |-> run[r].workflow, agent |-> run[r].agent]
      BY <3>1
    <3>4. [[stage |-> "proposed", item |-> run[r].item, wv |-> run[r].wv, av |-> run[r].av,
            workflow |-> run[r].workflow, agent |-> run[r].agent] EXCEPT !.workflow = wrow.content]
          = [stage |-> "proposed", item |-> run[r].item, wv |-> run[r].wv, av |-> run[r].av,
             workflow |-> wrow.content, agent |-> run[r].agent]
      OBVIOUS
    <3>5. [[stage |-> "proposed", item |-> run[r].item, wv |-> run[r].wv, av |-> run[r].av,
            workflow |-> wrow.content, agent |-> run[r].agent] EXCEPT !.agent = arow.content]
          = row
      OBVIOUS
    <3> QED BY <3>2, <3>3, <3>4, <3>5, Zenon
  <2>5. run[r].wv \in Version /\ run[r].av \in Version
    BY <2>2 DEF RunRow
  <2>6. wrow.content \in Content /\ arow.content \in Content
    <3>1. ver[run[r].wv] \in Row /\ ver[run[r].av] \in Row
      BY <2>1, <2>5, RowType DEF CatalogInv
    <3> QED BY <3>1 DEF Row
  <2>7. row \in RunRow
    BY <2>2, <2>6 DEF RunRow
  <2>8. /\ row.stage = "proposed" /\ row.item = run[r].item /\ row.wv = run[r].wv
        /\ row.av = run[r].av /\ row.workflow = wrow.content /\ row.agent = arow.content
    OBVIOUS
  <2> HIDE DEF row
  <2>9. /\ ver[row.wv].status = "published" /\ ver[row.wv].item = row.item
        /\ row.av = ver[row.wv].content.pin /\ SoundPin(row.av, row.item)
        /\ row.stage = "proposed" => /\ row.workflow = ver[row.wv].content
                                     /\ row.agent = ver[row.av].content
        /\ row.stage = "queued" => /\ AiValid(ver[row.av].content.body)
                                   /\ ver[row.wv].content.body = "erp"
    BY <2>1, <2>3, <2>8 DEF CarriesStack
  <2> QED BY <2>1, <2>4, <2>7, <2>9, ReplacedRun
<1>5. ASSUME NEW q \in Slot, Begin(q) \/ Create(q) \/ Write(q) \/ Respond(q) PROVE Goal
  <2>1. UNCHANGED run
    BY <1>5 DEF Begin, Respond, Create, Write, CommitItem, SlugTaken, ReadItem, ReadNumber,
                CommitVersion, NumberTaken, ReadVersion, Validate, CommitNothing, CommitUpdate,
                CommitPublish, StaleWrite, Reading
  <2> QED BY <1>1, <2>1
<1>6. ASSUME NEW q \in Slot, ReadStack(q) \/ ReadPinned(q) PROVE Goal
  <2>1. UNCHANGED run
    BY <1>6 DEF ReadStack, ReadPinned, Reading
  <2> QED BY <1>1, <2>1
<1> QED BY <1>1, <1>2, <1>3, <1>4, <1>5, <1>6 DEF Next, Prepare, vars

-------------------------------------------------------------------------------
(* A shelf on which no version appears is the same shelf.                  *)
LEMMA SameShelf ==
    ASSUME CatalogInv, Grows, NEW i \in Item,
           \A v \in Version : ver'[v].status # "absent" /\ ver'[v].item = i => Exists(v)
    PROVE  VersionsOf(i)' = VersionsOf(i) /\ Numbers(i)' = Numbers(i)
<1>1. VersionsOf(i)' = VersionsOf(i)
  BY DEF Grows, VersionsOf, Exists
<1>2. \A v \in VersionsOf(i) : ver'[v].number = ver[v].number
  BY DEF Grows, VersionsOf
<1> QED BY <1>1, <1>2 DEF Numbers

(* A new version takes the next place on the shelf of its item.            *)
LEMMA NewVersionFits ==
    ASSUME CatalogInv, NEW q \in Slot, CommitVersion(q)
    PROVE  LET i == req[q].sub.item IN
           /\ i \in Item /\ Cardinality(VersionsOf(i)) \in Nat
           /\ req[q].mem = Cardinality(VersionsOf(i)) + 1
<1> DEFINE i == req[q].sub.item
           n == Cardinality(VersionsOf(i))
<1>1. i \in Item
  BY HandlerType, RequestType DEF CatalogInv, CommitVersion
<1>2. n \in Nat /\ Numbers(i) = 1..n
  BY <1>1, FS_CardinalityType DEF CatalogInv, Shelves
<1>3. req[q].mem \in 1..(n + 1)
  BY DEF CatalogInv, InHand, CreateInHand, CommitVersion
<1>4. req[q].mem \notin Numbers(i)
  BY DEF CommitVersion, NumberFree, Numbers
<1>5. req[q].mem = n + 1
  BY <1>2, <1>3, <1>4
<1> QED BY <1>1, <1>2, <1>5

LEMMA ShelvesStep ==
    ASSUME CatalogInv, Grows, [Next]_vars
    PROVE  Shelves'
<1>1. ASSUME \A v \in Version : ver'[v].status # "absent" => Exists(v) PROVE Shelves'
  BY <1>1, SameShelf DEF CatalogInv, Shelves
<1>2. CASE UNCHANGED ver
  BY <1>1, <1>2 DEF Exists
<1>3. ASSUME NEW q \in Slot, CommitVersion(q) PROVE Shelves'
  <2>0. PICK i \in Item : /\ i = req[q].sub.item /\ Cardinality(VersionsOf(i)) \in Nat
                          /\ req[q].mem = Cardinality(VersionsOf(i)) + 1
    BY <1>3, NewVersionFits
  <2> DEFINE n == Cardinality(VersionsOf(i))
  <2>1. i \in Item /\ n \in Nat /\ req[q].mem = n + 1
    BY <2>0
  <2>2. IsFiniteSet(VersionsOf(i)) /\ Numbers(i) = 1..n
    BY <2>1 DEF CatalogInv, Shelves
  <2>3. PICK v \in Version :
           /\ ~Exists(v)
           /\ ver' = [ver EXCEPT ![v] = [item |-> i, number |-> req[q].mem, status |-> "draft",
                                         content |-> req[q].sub.content, lock |-> 1]]
    BY <1>3, <2>0 DEF CommitVersion
  <2>4. /\ ver'[v].status = "draft" /\ ver'[v].item = i /\ ver'[v].number = n + 1
        /\ \A w \in Version \ {v} : ver'[w] = ver[w]
    BY <2>1, <2>3 DEF CatalogInv, CatalogTypeOK
  <2>5. ASSUME NEW j \in Item, j # i
        PROVE  IsFiniteSet(VersionsOf(j))' /\ (Numbers(j) = 1..Cardinality(VersionsOf(j)))'
    <3>1. \A w \in Version : ver'[w].status # "absent" /\ ver'[w].item = j => Exists(w)
      BY <2>4, <2>5 DEF Exists
    <3> QED BY <3>1, SameShelf DEF CatalogInv, Shelves
  <2>6. VersionsOf(i)' = VersionsOf(i) \cup {v} /\ v \notin VersionsOf(i)
    BY <2>3, <2>4 DEF VersionsOf, Exists
  <2>7. IsFiniteSet(VersionsOf(i)') /\ Cardinality(VersionsOf(i)') = n + 1
    BY <2>2, <2>6, FS_AddElement
  <2>8. Numbers(i)' = Numbers(i) \cup {n + 1}
    <3>1. \A w \in VersionsOf(i) : ver'[w].number = ver[w].number
      BY <2>4, <2>6 DEF VersionsOf
    <3>2. Numbers(i)' = {ver'[w].number : w \in VersionsOf(i) \cup {v}}
      BY <2>6 DEF Numbers
    <3> QED BY <2>4, <3>1, <3>2 DEF Numbers
  <2>9. Numbers(i)' = 1..(n + 1)
    BY <2>1, <2>2, <2>8
  <2>10. IsFiniteSet(VersionsOf(i))' /\ (Numbers(i) = 1..Cardinality(VersionsOf(i)))'
    BY <2>7, <2>9
  <2> QED BY <2>5, <2>10 DEF Shelves
<1>4. ASSUME NEW q \in Slot, CommitUpdate(q) \/ CommitPublish(q) PROVE Shelves'
  <2> DEFINE v == req[q].sub.version
  <2>1. v \in Version /\ ver[v] \in Row
    BY <1>4, EditFindsDraft DEF CommitUpdate, CommitPublish
  <2>2. \A w \in Version \ {v} : ver'[w] = ver[w]
    BY <1>4, <2>1 DEF CatalogInv, CatalogTypeOK, CommitUpdate, CommitPublish
  <2>3. Exists(v)
    BY <2>1 DEF Exists, Row
  <2> QED BY <1>1, <2>2, <2>3 DEF Exists
<1>5. ASSUME NEW q \in Slot, Begin(q) \/ Prepare(q) \/ Respond(q) PROVE Shelves'
  <2>1. UNCHANGED ver
    BY <1>5 DEF Begin, Respond, Prepare, ReadStack, ReadPinned, CommitRun, CommitPreparation, Reading
  <2> QED BY <1>2, <2>1
<1>6. ASSUME NEW q \in Slot, Create(q) \/ Write(q) PROVE Shelves'
  <2>1. UNCHANGED ver \/ CommitVersion(q) \/ CommitUpdate(q) \/ CommitPublish(q)
    BY <1>6 DEF Create, Write, CommitItem, SlugTaken, ReadItem, ReadNumber, NumberTaken,
                ReadVersion, Validate, CommitNothing, StaleWrite, Reading
  <2> QED BY <1>2, <1>3, <1>4, <2>1
<1>7. ASSUME NEW r \in Run, ProposePrepared(r) PROVE Shelves'
  BY <1>2, <1>7 DEF ProposePrepared
<1> QED BY <1>2, <1>5, <1>6, <1>7 DEF Next, vars

-------------------------------------------------------------------------------
(* One handler moves, and the others keep what they have in hand.          *)
HandlersOK ==
    /\ req = [q \in Slot |-> req[q]]
    /\ \A q \in Slot : HandlerOK(req[q]) /\ InHand(q)

LEMMA OneHandlerMoves ==
    ASSUME CatalogInv, Grows, RowsOK', Shelves', NEW q \in Slot, req' = [z \in Slot |-> req'[z]],
           \A z \in Slot : z # q => req'[z] = req[z], HandlerOK(req'[q]), InHand(q)'
    PROVE  HandlersOK'
<1>1. ASSUME NEW z \in Slot, z # q PROVE HandlerOK(req'[z]) /\ InHand(z)'
  <2>1. req'[z] = req[z]
    BY <1>1
  <2>2. HandlerOK(req[z]) /\ InHand(z) /\ CatalogTypeOK /\ Shelves
    BY DEF CatalogInv, CatalogTypeOK
  <2>3. ver' \in [Version -> Row \cup {NoVersion}]
    BY DEF RowsOK, TablesOK
  <2>4. InHand(z)'
    BY <2>1, <2>2, <2>3, InHandGrows
  <2> QED BY <2>1, <2>2, <2>4
<1> QED BY <1>1 DEF HandlersOK

(* A handler that has answered holds nothing.                              *)
LEMMA AnsweredHandlers ==
    ASSUME CatalogInv, Grows, RowsOK', Shelves', NEW q \in Slot, req[q].pc # "idle",
           NEW code \in Nat, NEW detail \in Detail, Answer(q, code, detail)
    PROVE  HandlersOK'
<1> DEFINE r == [pc |-> "done", sub |-> req[q].sub, mem |-> req[q].mem,
                 reply |-> [code |-> code, detail |-> detail]]
<1>1. /\ req' = [req EXCEPT ![q] = r] /\ req' = [z \in Slot |-> req'[z]]
      /\ \A z \in Slot : z # q => req'[z] = req[z]
  BY AnswerEffect DEF CatalogInv
<1>2. req'[q] = r
  <2>1. req = [z \in Slot |-> req[z]]
    BY DEF CatalogInv, CatalogTypeOK
  <2> QED BY <1>1, <2>1
<1>3. req[q].sub \in Submission
  BY HandlerType DEF CatalogInv
<1>4. [code |-> code, detail |-> detail] \in Reply
  BY DEF Reply
<1>5. HandlerOK(r)
  BY <1>3, <1>4 DEF HandlerOK, Pc
<1>6. r.pc = "done"
  OBVIOUS
<1> HIDE DEF r
<1>7. InHand(q)'
  BY <1>2, <1>6 DEF InHand, CreateInHand, EditInHand, StackInHand
<1> QED BY <1>1, <1>2, <1>5, <1>7, OneHandlerMoves

(* One that moves on must hold what its next step relies on.               *)
LEMMA MovingHandlers ==
    ASSUME CatalogInv, Grows, RowsOK', Shelves', NEW q \in Slot, NEW pc \in Pc, NEW mem,
           Goto(q, pc, mem), req[q].pc # "idle", pc \notin {"idle", "done"},
           pc = "commit" /\ req[q].sub.op = "create_version" => mem \in Nat \ {0},
           pc \in {"validate", "commit"} /\ req[q].sub.op \in {"update", "publish"} => mem \in Row,
           pc \in {"pinned", "commit"} /\ req[q].sub.op \in RunOp => mem \in Stack,
           req'[q] = [pc |-> pc, sub |-> req[q].sub, mem |-> mem, reply |-> req[q].reply]
               => InHand(q)'
    PROVE  HandlersOK'
<1> DEFINE r == [pc |-> pc, sub |-> req[q].sub, mem |-> mem, reply |-> req[q].reply]
<1>1. /\ req' = [req EXCEPT ![q] = r] /\ req' = [z \in Slot |-> req'[z]]
      /\ \A z \in Slot : z # q => req'[z] = req[z]
  BY GotoEffect DEF CatalogInv
<1>2. req'[q] = r
  <2>1. req = [z \in Slot |-> req[z]]
    BY DEF CatalogInv, CatalogTypeOK
  <2> QED BY <1>1, <2>1
<1>3. req[q].sub \in Submission
  BY HandlerType DEF CatalogInv
<1>4. HandlerOK(r)
  BY <1>3 DEF HandlerOK
<1> QED BY <1>1, <1>2, <1>4, OneHandlerMoves

(* What _validate_workflow_version lets through pins what is published.    *)
LEMMA ValidatedPin ==
    ASSUME CatalogInv, NEW s \in Submission, Visible(s.item, TenantOfRequest(s)),
           ContentFault(s) = None
    PROVE  s.item \in Workflow => s.content.pin \in Version /\ SoundPin(s.content.pin, s.item)
<1>1. SUFFICES ASSUME s.item \in Workflow
               PROVE  s.content.pin \in Version /\ SoundPin(s.content.pin, s.item)
  OBVIOUS
<1>2. /\ [code |-> 409, detail |-> "invalid_connector_configuration"] \in Reply
      /\ [code |-> 404, detail |-> "published_agent_version_not_found"] \in Reply
  BY DEF Reply, Detail
<1>3. PinHolds(s)
  BY <1>1, <1>2, NoneAssumption DEF ContentFault
<1>4. s.content.pin \in Version
  BY <1>1, RequestType
<1> QED BY <1>3, <1>4 DEF PinHolds, SoundPin, Visible

(* A refusal is an answer.                                                 *)
LEMMA FaultType ==
    ASSUME NEW s
    PROVE  /\ ContentFault(s) # None =>
                 ContentFault(s).code \in Nat /\ ContentFault(s).detail \in Detail
           /\ VersionFault(s) # None =>
                 VersionFault(s).code \in Nat /\ VersionFault(s).detail \in Detail
BY DEF ContentFault, VersionFault, Detail

(* The handlers that answer.                                               *)
LEMMA AnsweringSteps ==
    ASSUME CatalogInv, Grows, RowsOK', Shelves', NEW q \in Slot,
           \/ CommitItem(q) \/ SlugTaken(q) \/ CommitVersion(q) \/ NumberTaken(q)
           \/ CommitNothing(q) \/ CommitUpdate(q) \/ CommitPublish(q) \/ StaleWrite(q)
           \/ CommitRun(q) \/ CommitPreparation(q)
    PROVE  HandlersOK'
<1>1. PICK code \in Nat, detail \in Detail : Answer(q, code, detail) /\ req[q].pc = "commit"
  <2>1. req[q].pc = "commit"
    BY DEF CommitItem, SlugTaken, CommitVersion, NumberTaken, CommitNothing, CommitUpdate,
           CommitPublish, StaleWrite, CommitRun, CommitPreparation
  <2>2. CASE CommitItem(q) \/ CommitVersion(q) \/ CommitRun(q)
    <3>1. Answer(q, 201, "ok") /\ 201 \in Nat /\ "ok" \in Detail
      BY <2>2 DEF CommitItem, CommitVersion, CommitRun, Detail
    <3> QED BY <2>1, <3>1
  <2>3. CASE CommitNothing(q) \/ CommitUpdate(q) \/ CommitPublish(q)
    <3>1. Answer(q, 200, "ok") /\ 200 \in Nat /\ "ok" \in Detail
      BY <2>3 DEF CommitNothing, CommitUpdate, CommitPublish, Detail
    <3> QED BY <2>1, <3>1
  <2>4. CASE CommitPreparation(q)
    <3>1. Answer(q, 202, "ok") /\ 202 \in Nat /\ "ok" \in Detail
      BY <2>4 DEF CommitPreparation, Detail
    <3> QED BY <2>1, <3>1
  <2>5. CASE SlugTaken(q)
    <3>1. Answer(q, 409, "slug_exists") /\ 409 \in Nat /\ "slug_exists" \in Detail
      BY <2>5 DEF SlugTaken, Detail
    <3> QED BY <2>1, <3>1
  <2>6. CASE NumberTaken(q)
    <3>1. Answer(q, 409, "version_conflict") /\ 409 \in Nat /\ "version_conflict" \in Detail
      BY <2>6 DEF NumberTaken, Detail
    <3> QED BY <2>1, <3>1
  <2>7. CASE StaleWrite(q)
    <3>1. Answer(q, 500, "internal_error") /\ 500 \in Nat /\ "internal_error" \in Detail
      BY <2>7 DEF StaleWrite, Detail
    <3> QED BY <2>1, <3>1
  <2> QED BY <2>2, <2>3, <2>4, <2>5, <2>6, <2>7
<1> QED BY <1>1, AnsweredHandlers

(* The handlers that read.                                                 *)
LEMMA ReadItemStep ==
    ASSUME CatalogInv, Grows, RowsOK', Shelves', NEW q \in Slot, ReadItem(q)
    PROVE  HandlersOK'
<1> DEFINE s == req[q].sub
<1>1. /\ req[q].pc = "read" /\ s.op = "create_version" /\ UNCHANGED <<item, ver>>
      /\ s \in Submission
  BY HandlerType DEF ReadItem, Reading, CatalogInv
<1>2. CASE s.content.body = "bad_ai"
  BY <1>1, <1>2, AnsweredHandlers DEF ReadItem, Detail
<1>3. CASE s.content.body # "bad_ai" /\ ~Visible(s.item, TenantOfRequest(s))
  BY <1>1, <1>3, AnsweredHandlers DEF ReadItem, Detail
<1>4. CASE /\ s.content.body # "bad_ai" /\ Visible(s.item, TenantOfRequest(s))
           /\ ContentFault(s) # None
  BY <1>1, <1>4, FaultType, AnsweredHandlers DEF ReadItem, Refuse
<1>5. CASE /\ s.content.body # "bad_ai" /\ Visible(s.item, TenantOfRequest(s))
           /\ ContentFault(s) = None
  <2>1. Goto(q, "number", None)
    BY <1>5 DEF ReadItem
  <2>2. s.item \in Workflow => s.content.pin \in Version /\ SoundPin(s.content.pin, s.item)
    BY <1>1, <1>5, ValidatedPin
  <2>3. ASSUME req'[q] = [pc |-> "number", sub |-> s, mem |-> None, reply |-> req[q].reply]
        PROVE  InHand(q)'
    <3>1. req'[q].pc = "number" /\ req'[q].sub = s
      BY <2>3
    <3>2. PinInHand(q)'
      BY <1>1, <2>2, <3>1 DEF PinInHand, SoundPin
    <3>3. Visible(req[q].sub.item, TenantOfRequest(req[q].sub))'
      BY <1>1, <1>5, <3>1 DEF Visible, TenantOfRequest
    <3> QED BY <3>1, <3>2, <3>3 DEF InHand, CreateInHand, EditInHand, StackInHand
  <2> QED BY <1>1, <2>1, <2>3, MovingHandlers DEF Pc
<1> QED BY <1>2, <1>3, <1>4, <1>5

LEMMA ReadNumberStep ==
    ASSUME CatalogInv, Grows, RowsOK', Shelves', NEW q \in Slot, ReadNumber(q)
    PROVE  HandlersOK'
<1> DEFINE s == req[q].sub
           n == Cardinality(VersionsOf(s.item))
           mem == NextNumber(s.item)
<1>1. /\ req[q].pc = "number" /\ s.op = "create_version" /\ UNCHANGED <<item, ver>>
      /\ s \in Submission /\ Goto(q, "commit", mem)
  BY HandlerType DEF ReadNumber, Reading, CatalogInv
<1>2. s.item \in Item
  BY <1>1, RequestType
<1>3. IsFiniteSet(VersionsOf(s.item)) /\ n \in Nat /\ Numbers(s.item) = 1..n
  BY <1>2, FS_CardinalityType DEF CatalogInv, Shelves
<1>4. mem = n + 1
  <2>1. CASE VersionsOf(s.item) = {}
    BY <2>1, <1>3, FS_EmptySet DEF NextNumber
  <2>2. CASE VersionsOf(s.item) # {}
    <3>1. n # 0
      BY <2>2, <1>3, FS_EmptySet
    <3> DEFINE Top(m) == m \in Numbers(s.item) /\ \A v \in VersionsOf(s.item) : ver[v].number <= m
    <3>2. \A v \in VersionsOf(s.item) : ver[v].number \in 1..n
      BY <1>3 DEF Numbers
    <3>3. n \in 1..n
      BY <1>3, <3>1
    <3>4. \A v \in VersionsOf(s.item) : ver[v].number <= n
      BY <3>2, <1>3
    <3>5. Top(n)
      BY <1>3, <3>3, <3>4
    <3>6. \A m : Top(m) => m = n
      <4>1. ASSUME NEW m, Top(m) PROVE m = n
        <5>1. m \in 1..n
          BY <1>3, <4>1
        <5>2. PICK v \in VersionsOf(s.item) : ver[v].number = n
          BY <1>3, <3>3 DEF Numbers
        <5>3. n <= m
          BY <4>1, <5>2
        <5> QED BY <1>3, <5>1, <5>3
      <4> QED BY <4>1
    <3>7. (CHOOSE m \in Numbers(s.item) : \A v \in VersionsOf(s.item) : ver[v].number <= m) = n
      BY <3>5, <3>6
    <3>8. NextNumber(s.item) =
            1 + (CHOOSE m \in Numbers(s.item) : \A v \in VersionsOf(s.item) : ver[v].number <= m)
      BY <2>2, Zenon DEF NextNumber, Numbers
    <3>9. NextNumber(s.item) = 1 + n
      <4> HIDE DEF n
      <4> QED BY <3>7, <3>8, Zenon
    <3>10. 1 + n = n + 1
      BY <1>3
    <3> QED BY <3>9, <3>10, Zenon
  <2> QED BY <2>1, <2>2
<1>5. mem \in Nat \ {0} /\ mem \in 1..(n + 1)
  BY <1>3, <1>4
<1>6. ASSUME req'[q] = [pc |-> "commit", sub |-> s, mem |-> mem, reply |-> req[q].reply]
      PROVE  InHand(q)'
  <2>1. req'[q].pc = "commit" /\ req'[q].sub = s /\ req'[q].mem = mem
    BY <1>6
  <2>2. Visible(s.item, TenantOfRequest(s)) /\ PinInHand(q)
    BY <1>1 DEF CatalogInv, InHand, CreateInHand
  <2>3. PinInHand(q)'
    BY <1>1, <2>1, <2>2 DEF PinInHand, SoundPin
  <2>4. Visible(req[q].sub.item, TenantOfRequest(req[q].sub))'
    BY <1>1, <2>1, <2>2 DEF Visible, TenantOfRequest
  <2>5. (req[q].mem \in 1..(Cardinality(VersionsOf(req[q].sub.item)) + 1))'
    BY <1>1, <1>5, <2>1 DEF VersionsOf, Exists
  <2> QED BY <1>1, <2>1, <2>3, <2>4, <2>5 DEF InHand, CreateInHand, EditInHand, StackInHand, RunOp
<1> HIDE DEF mem
<1> QED BY <1>1, <1>5, <1>6, MovingHandlers DEF Pc, RunOp

LEMMA ReadVersionStep ==
    ASSUME CatalogInv, Grows, RowsOK', Shelves', NEW q \in Slot, ReadVersion(q)
    PROVE  HandlersOK'
<1> DEFINE s == req[q].sub
           row == ver[s.version]
           pc == IF s.op = "update" THEN "validate" ELSE "commit"
<1>1. /\ req[q].pc = "read" /\ s.op \in {"update", "publish"} /\ UNCHANGED <<item, ver>>
      /\ s \in Submission
  BY HandlerType DEF ReadVersion, Reading, CatalogInv
<1>2. CASE VersionFault(s) # None
  BY <1>1, <1>2, FaultType, AnsweredHandlers DEF ReadVersion, Refuse
<1>3. CASE VersionFault(s) = None
  <2>1. Goto(q, pc, row)
    BY <1>3 DEF ReadVersion
  <2>2. s.version \in Version
    BY <1>1, RequestType
  <2>3. /\ [code |-> 404, detail |-> "version_not_found"] # None
        /\ [code |-> 409, detail |-> "published_version_immutable"] # None
        /\ [code |-> 409, detail |-> "optimistic_lock_conflict"] # None
    <3>1. /\ [code |-> 404, detail |-> "version_not_found"] \in Reply
          /\ [code |-> 409, detail |-> "published_version_immutable"] \in Reply
          /\ [code |-> 409, detail |-> "optimistic_lock_conflict"] \in Reply
      BY DEF Reply, Detail
    <3> QED BY <3>1, NoneAssumption
  <2>4. /\ Exists(s.version) /\ row.item = s.item /\ Visible(s.item, TenantOfRequest(s))
        /\ row.status = "draft" /\ row.lock = s.lock
    BY <1>3, <2>3 DEF VersionFault
  <2>5. row \in Row /\ row.lock \in Nat
    BY <2>2, <2>4, RowType DEF CatalogInv, Exists
  <2>6. ASSUME req'[q] = [pc |-> pc, sub |-> s, mem |-> row, reply |-> req[q].reply]
        PROVE  InHand(q)'
    <3>1. req'[q].pc = pc /\ req'[q].sub = s /\ req'[q].mem = row
      BY <2>6
    <3>2. s.op \notin RunOp /\ s.op # "create_version"
      BY <1>1 DEF RunOp
    <3>3. Visible(req[q].sub.item, TenantOfRequest(req[q].sub))'
      BY <1>1, <2>4, <3>1 DEF Visible, TenantOfRequest
    <3>4. row.lock <= row.lock
      BY <2>5
    <3>5. EditInHand(q)'
      BY <1>1, <2>4, <3>1, <3>3, <3>4 DEF EditInHand, Exists
    <3>6. pc \in {"validate", "commit"}
      OBVIOUS
    <3> QED BY <3>1, <3>2, <3>5, <3>6 DEF InHand, CreateInHand, StackInHand
  <2>7. pc \in {"validate", "commit"} /\ s.op # "create_version" /\ s.op \notin RunOp
    BY <1>1 DEF RunOp
  <2> HIDE DEF pc, row
  <2> QED BY <1>1, <2>1, <2>5, <2>6, <2>7, MovingHandlers DEF Pc
<1> QED BY <1>2, <1>3

LEMMA ValidateStep ==
    ASSUME CatalogInv, Grows, RowsOK', Shelves', NEW q \in Slot, Validate(q)
    PROVE  HandlersOK'
<1> DEFINE s == req[q].sub
           mem == req[q].mem
<1>1. /\ req[q].pc = "validate" /\ s.op = "update" /\ UNCHANGED <<item, ver>>
      /\ s \in Submission /\ mem \in Row
  BY HandlerType DEF Validate, Reading, CatalogInv
<1>2. CASE ContentFault(s) # None
  BY <1>1, <1>2, FaultType, AnsweredHandlers DEF Validate, Refuse
<1>3. CASE ContentFault(s) = None
  <2>1. Goto(q, "commit", mem)
    BY <1>3 DEF Validate
  <2>2. /\ Visible(s.item, TenantOfRequest(s))
        /\ Exists(s.version) /\ ver[s.version].item = s.item
        /\ mem.status = "draft" /\ mem.lock = s.lock /\ mem.lock <= ver[s.version].lock
        /\ ver[s.version].lock = mem.lock => ver[s.version] = mem
    BY <1>1 DEF CatalogInv, InHand, EditInHand
  <2>3. s.item \in Workflow => s.content.pin \in Version /\ SoundPin(s.content.pin, s.item)
    BY <1>1, <1>3, <2>2, ValidatedPin
  <2>4. ASSUME req'[q] = [pc |-> "commit", sub |-> s, mem |-> mem, reply |-> req[q].reply]
        PROVE  InHand(q)'
    <3>1. req'[q].pc = "commit" /\ req'[q].sub = s /\ req'[q].mem = mem
      BY <2>4
    <3>2. PinInHand(q)'
      BY <1>1, <2>3, <3>1 DEF PinInHand, SoundPin
    <3>3. Visible(req[q].sub.item, TenantOfRequest(req[q].sub))'
      BY <1>1, <2>2, <3>1 DEF Visible, TenantOfRequest
    <3>4. EditInHand(q)'
      BY <1>1, <2>2, <3>1, <3>2, <3>3 DEF EditInHand, Exists
    <3> QED BY <1>1, <3>1, <3>4 DEF InHand, CreateInHand, StackInHand, RunOp
  <2> HIDE DEF mem
  <2> QED BY <1>1, <2>1, <2>4, MovingHandlers DEF Pc, RunOp
<1> QED BY <1>2, <1>3

LEMMA ReadStackStep ==
    ASSUME CatalogInv, Grows, RowsOK', Shelves', NEW q \in Slot, ReadStack(q)
    PROVE  HandlersOK'
<1> DEFINE s == req[q].sub
<1>1. /\ req[q].pc = "read" /\ s.op \in RunOp /\ UNCHANGED <<item, ver>> /\ s \in Submission
  BY HandlerType DEF ReadStack, Reading, CatalogInv
<1>2. CASE Answer(q, 404, "workflow_not_found") \/ Answer(q, 409, "workflow_not_published")
  BY <1>1, <1>2, AnsweredHandlers DEF Detail
<1>3. ASSUME NEW v \in Candidates(s.item),
             Goto(q, "pinned", [wv |-> v, workflow |-> ver[v].content,
                                av |-> ver[v].content.pin, agent |-> None])
      PROVE  HandlersOK'
  <2> DEFINE stack == [wv |-> v, workflow |-> ver[v].content,
                       av |-> ver[v].content.pin, agent |-> None]
  <2>1. v \in Version /\ ver[v].status = "published" /\ ver[v].item = s.item
    BY DEF Candidates, Published, VersionsOf
  <2>2. s.item \in Workflow /\ ver[v] \in Row /\ Exists(v)
    BY <1>1, <2>1, RequestType, RowType DEF CatalogInv, Exists
  <2>3. ver[v].content \in Content /\ ver[v].content.pin \in Version
    BY <2>1, <2>2 DEF Row, CatalogInv, PinsExist
  <2>4. stack \in Stack
    BY <2>1, <2>3 DEF Stack
  <2>5. ASSUME req'[q] = [pc |-> "pinned", sub |-> s, mem |-> stack, reply |-> req[q].reply]
        PROVE  InHand(q)'
    <3>1. req'[q].pc = "pinned" /\ req'[q].sub = s /\ req'[q].mem = stack
      BY <2>5
    <3>2. StackInHand(q)'
      BY <1>1, <2>1, <3>1 DEF StackInHand
    <3> QED BY <3>1, <3>2 DEF InHand, CreateInHand, EditInHand
  <2> HIDE DEF stack
  <2>6. Goto(q, "pinned", stack)
    BY <1>3 DEF stack
  <2> QED BY <1>1, <2>4, <2>5, <2>6, MovingHandlers DEF Pc
<1> QED BY <1>2, <1>3 DEF ReadStack

LEMMA ReadPinnedStep ==
    ASSUME CatalogInv, Grows, RowsOK', Shelves', NEW q \in Slot, ReadPinned(q)
    PROVE  HandlersOK'
<1> DEFINE s == req[q].sub
           stack == req[q].mem
           row == ver[stack.av]
           full == [wv |-> stack.wv, workflow |-> stack.workflow, av |-> stack.av,
                    agent |-> row.content]
<1>1. /\ req[q].pc = "pinned" /\ s.op \in RunOp /\ UNCHANGED <<item, ver>>
      /\ s \in Submission /\ stack \in Stack
  BY HandlerType DEF ReadPinned, Reading, CatalogInv
<1>2. CASE \/ Answer(q, 409, "agent_version_unavailable") \/ Answer(q, 409, "ai_workflow_incompatible")
           \/ Answer(q, 409, "agent_ai_definition_invalid")
  BY <1>1, <1>2, AnsweredHandlers DEF Detail
<1>3. CASE /\ row.status = "published"
           /\ s.op = "prepare" => stack.workflow.body = "erp" /\ AiValid(row.content.body)
           /\ Goto(q, "commit", [stack EXCEPT !.agent = row.content])
  <2>1. [stack EXCEPT !.agent = row.content] = full
    BY <1>1 DEF Stack
  <2>2. row \in Row
    BY <1>1, <1>3, RowType DEF CatalogInv, Stack
  <2>3. full \in Stack
    BY <1>1, <2>2 DEF Stack, Row
  <2>4. /\ ver[stack.wv].status = "published" /\ ver[stack.wv].item = s.item
        /\ stack.workflow = ver[stack.wv].content /\ stack.av = stack.workflow.pin
    BY <1>1 DEF CatalogInv, InHand, StackInHand
  <2>5. ASSUME req'[q] = [pc |-> "commit", sub |-> s, mem |-> full, reply |-> req[q].reply]
        PROVE  InHand(q)'
    <3>1. req'[q].pc = "commit" /\ req'[q].sub = s /\ req'[q].mem = full
      BY <2>5
    <3>2. /\ full.wv = stack.wv /\ full.workflow = stack.workflow /\ full.av = stack.av
          /\ full.agent = row.content
      OBVIOUS
    <3> HIDE DEF full
    <3>3. StackInHand(q)'
      BY <1>1, <1>3, <2>4, <3>1, <3>2 DEF StackInHand, AiValid
    <3> QED BY <1>1, <3>1, <3>3 DEF InHand, CreateInHand, EditInHand, RunOp
  <2> HIDE DEF full
  <2> QED BY <1>1, <1>3, <2>1, <2>3, <2>5, MovingHandlers DEF Pc, RunOp
<1> QED BY <1>2, <1>3 DEF ReadPinned, PinAvailable

LEMMA BeginStep ==
    ASSUME CatalogInv, Grows, RowsOK', Shelves', NEW q \in Slot, Begin(q)
    PROVE  HandlersOK'
<1> DEFINE Refused(s) == [pc |-> "done", sub |-> s, mem |-> None,
                          reply |-> [code |-> 403, detail |-> "insufficient_role"]]
           Started(s) == [pc |-> IF s.op = "create_item" THEN "commit" ELSE "read",
                          sub |-> s, mem |-> None, reply |-> None]
<1>0. req = [z \in Slot |-> req[z]]
  BY DEF CatalogInv, CatalogTypeOK
<1>1. PICK s \in Submission :
         req' = [req EXCEPT ![q] =
             IF ~Authorized(s)
             THEN [Idle EXCEPT !.pc = "done", !.sub = s,
                               !.reply = [code |-> 403, detail |-> "insufficient_role"]]
             ELSE [Idle EXCEPT !.pc = IF s.op = "create_item" THEN "commit" ELSE "read",
                               !.sub = s]]
  BY DEF Begin
<1>2. [Idle EXCEPT !.pc = "done", !.sub = s,
                   !.reply = [code |-> 403, detail |-> "insufficient_role"]] = Refused(s)
  <2> DEFINE answer == [code |-> 403, detail |-> "insufficient_role"]
             a == [pc |-> "done", sub |-> None, mem |-> None, reply |-> None]
             b == [pc |-> "done", sub |-> s, mem |-> None, reply |-> None]
  <2> HIDE DEF answer
  <2>1. [Idle EXCEPT !.pc = "done", !.sub = s, !.reply = answer]
        = [[[Idle EXCEPT !.pc = "done"] EXCEPT !.sub = s] EXCEPT !.reply = answer]
    BY Zenon
  <2>2. [Idle EXCEPT !.pc = "done"] = a
    BY DEF Idle
  <2>3. [a EXCEPT !.sub = s] = b
    OBVIOUS
  <2>4. [b EXCEPT !.reply = answer] = Refused(s)
    BY DEF answer
  <2> HIDE DEF a, b, Refused
  <2>5. [Idle EXCEPT !.pc = "done", !.sub = s, !.reply = answer] = Refused(s)
    BY <2>1, <2>2, <2>3, <2>4, Zenon
  <2> QED BY <2>5, Zenon DEF answer
<1>3. [Idle EXCEPT !.pc = IF s.op = "create_item" THEN "commit" ELSE "read", !.sub = s]
      = Started(s)
  <2> DEFINE pc == IF s.op = "create_item" THEN "commit" ELSE "read"
  <2> HIDE DEF pc
  <2>1. [Idle EXCEPT !.pc = pc, !.sub = s] = [pc |-> pc, sub |-> s, mem |-> None, reply |-> None]
    <3>1. [Idle EXCEPT !.pc = pc, !.sub = s] = [[Idle EXCEPT !.pc = pc] EXCEPT !.sub = s]
      BY Zenon
    <3>2. [Idle EXCEPT !.pc = pc] = [pc |-> pc, sub |-> None, mem |-> None, reply |-> None]
      BY DEF Idle
    <3>3. [[pc |-> pc, sub |-> None, mem |-> None, reply |-> None] EXCEPT !.sub = s]
          = [pc |-> pc, sub |-> s, mem |-> None, reply |-> None]
      OBVIOUS
    <3> QED BY <3>1, <3>2, <3>3, Zenon
  <2> QED BY <2>1, Zenon DEF pc
<1>4. req' = [req EXCEPT ![q] = IF ~Authorized(s) THEN Refused(s) ELSE Started(s)]
  BY <1>1, <1>2, <1>3, Zenon
<1>5. /\ req'[q] = Refused(s) \/ req'[q] = Started(s)
      /\ req' = [z \in Slot |-> req'[z]] /\ \A z \in Slot : z # q => req'[z] = req[z]
  <2> HIDE DEF Refused, Started
  <2> QED BY <1>0, <1>4
<1>6. HandlerOK(Refused(s)) /\ Refused(s).pc = "done"
  BY DEF HandlerOK, Pc, Reply, Detail
<1>7. HandlerOK(Started(s)) /\ Started(s).sub = s
      /\ Started(s).pc = IF s.op = "create_item" THEN "commit" ELSE "read"
  BY DEF HandlerOK, Pc, RunOp
<1> HIDE DEF Refused, Started
<1>8. InHand(q)'
  <2>1. CASE req'[q] = Refused(s)
    BY <1>6, <2>1 DEF InHand, CreateInHand, EditInHand, StackInHand
  <2>2. CASE req'[q] = Started(s) /\ s.op = "create_item"
    BY <1>7, <2>2 DEF InHand, CreateInHand, EditInHand, StackInHand, RunOp
  <2>3. CASE req'[q] = Started(s) /\ s.op # "create_item"
    BY <1>7, <2>3 DEF InHand, CreateInHand, EditInHand, StackInHand
  <2> QED BY <1>5, <2>1, <2>2, <2>3
<1> QED BY <1>5, <1>6, <1>7, <1>8, OneHandlerMoves

LEMMA RespondStep ==
    ASSUME CatalogInv, Grows, RowsOK', Shelves', NEW q \in Slot, Respond(q)
    PROVE  HandlersOK'
<1>1. /\ req'[q] = Idle /\ req' = [z \in Slot |-> req'[z]]
      /\ \A z \in Slot : z # q => req'[z] = req[z]
  BY DEF Respond, CatalogInv, CatalogTypeOK
<1>2. HandlerOK(Idle) /\ Idle.pc = "idle"
  BY DEF HandlerOK, Idle, Pc
<1>3. InHand(q)'
  BY <1>1, <1>2 DEF InHand, CreateInHand, EditInHand, StackInHand
<1> QED BY <1>1, <1>2, <1>3, OneHandlerMoves

(* Every step leaves the handlers right.                                   *)
LEMMA HandlersStep ==
    ASSUME CatalogInv, Grows, RowsOK', Shelves', [Next]_vars
    PROVE  HandlersOK'
<1>1. CASE UNCHANGED req
  <2>1. \A q \in Slot : HandlerOK(req[q]) /\ InHand(q) /\ CatalogTypeOK /\ Shelves
    BY DEF CatalogInv, CatalogTypeOK
  <2>2. ver' \in [Version -> Row \cup {NoVersion}]
    BY DEF RowsOK, TablesOK
  <2>3. \A q \in Slot : InHand(q)'
    BY <1>1, <2>1, <2>2, InHandGrows
  <2>4. req = [q \in Slot |-> req[q]]
    BY DEF CatalogInv, CatalogTypeOK
  <2> QED BY <1>1, <2>1, <2>3, <2>4 DEF HandlersOK
<1>2. ASSUME NEW r \in Run, ProposePrepared(r) PROVE HandlersOK'
  BY <1>1, <1>2 DEF ProposePrepared
<1>3. ASSUME NEW q \in Slot, Create(q) PROVE HandlersOK'
  BY <1>3, AnsweringSteps, ReadItemStep, ReadNumberStep DEF Create
<1>4. ASSUME NEW q \in Slot, Write(q) PROVE HandlersOK'
  BY <1>4, AnsweringSteps, ReadVersionStep, ValidateStep DEF Write
<1>5. ASSUME NEW q \in Slot, Prepare(q) PROVE HandlersOK'
  BY <1>5, AnsweringSteps, ReadStackStep, ReadPinnedStep DEF Prepare
<1> QED BY <1>1, <1>2, <1>3, <1>4, <1>5, BeginStep, RespondStep DEF Next, vars

(* CatalogInv is inductive.                                                *)
LEMMA CatalogInvariant == Spec => []CatalogInv
<1>1. Init => CatalogInv
  <2> SUFFICES ASSUME Init PROVE CatalogInv
    OBVIOUS
  <2>1. /\ \A v \in Version : ver[v] = NoVersion /\ ~Exists(v) /\ log[v] = <<>> /\ signed[v] = 0
        /\ \A r \in Run : run[r] = NoRun /\ run[r].stage = "absent"
        /\ \A q \in Slot : req[q] = Idle /\ req[q].pc = "idle"
    BY DEF Init, NoVersion, NoRun, Idle, Exists
  <2>2. CatalogTypeOK
    <3>1. HandlerOK(Idle)
      BY DEF HandlerOK, Idle, Pc
    <3>2. <<>> \in Seq([content : Content, base : Nat])
      OBVIOUS
    <3> QED BY <2>1, <3>1, <3>2 DEF Init, CatalogTypeOK
  <2>3. Shelves
    <3>1. \A i \in Item : VersionsOf(i) = {}
      BY <2>1 DEF VersionsOf
    <3>2. \A i \in Item : Numbers(i) = {}
      BY <3>1 DEF Numbers
    <3> QED BY <3>1, <3>2, FS_EmptySet DEF Shelves
  <2>4. EditsAreSerial
    <3>1. \A v \in Version : ver[v].lock = 0 /\ ver[v].status = "absent" /\ Len(log[v]) = 0
      BY <2>1 DEF NoVersion
    <3> QED BY <2>1, <3>1 DEF EditsAreSerial
  <2>5. PinsExist /\ PinsArePublished /\ RunsCarryPublishedStack
    BY <2>1 DEF PinsExist, PinsArePublished, RunsCarryPublishedStack
  <2>6. \A q \in Slot : InHand(q)
    BY <2>1 DEF InHand, CreateInHand, EditInHand, StackInHand
  <2> QED BY <2>2, <2>3, <2>4, <2>5, <2>6 DEF CatalogInv
<1>2. CatalogInv /\ [Next]_vars => CatalogInv'
  <2> SUFFICES ASSUME CatalogInv, [Next]_vars PROVE CatalogInv'
    OBVIOUS
  <2>1. RowsOK' /\ Grows
    BY RowsStep
  <2>2. run' \in [Run -> RunRow \cup {NoRun}] /\ RunsCarryPublishedStack'
    BY <2>1, RunsStep
  <2>3. Shelves'
    BY <2>1, ShelvesStep
  <2>4. HandlersOK'
    BY <2>1, <2>3, HandlersStep
  <2> QED BY <2>1, <2>2, <2>3, <2>4
        DEF CatalogInv, CatalogTypeOK, RowsOK, TablesOK, HandlersOK
<1> QED BY <1>1, <1>2, PTL DEF Spec

-------------------------------------------------------------------------------
(* The tables and the handlers keep their shape, whatever is requested.    *)
THEOREM CatalogTypeCorrect == Spec => []CatalogTypeOK
<1>1. CatalogInv => CatalogTypeOK
  BY DEF CatalogInv
<1> QED BY <1>1, CatalogInvariant, PTL

(* The versions of an item are numbered 1 to n, each number once, however  *)
(* many handlers read the same maximum before they insert.                 *)
THEOREM NumbersStayDense == Spec => []NumbersAreDense
<1>1. CatalogInv => NumbersAreDense
  BY DEF CatalogInv, Shelves, Numbers, NumbersAreDense
<1> QED BY <1>1, CatalogInvariant, PTL

(* No edit is lost or made blindly, and what is published is the text its  *)
(* publisher named, however edits and publications race.                   *)
THEOREM EditsStaySerial == Spec => []EditsAreSerial
<1>1. CatalogInv => EditsAreSerial
  BY DEF CatalogInv
<1> QED BY <1>1, CatalogInvariant, PTL

(* Every version of a workflow pins a published version of an agent of its *)
(* own tenant, although the pin is read before the row is written.         *)
THEOREM PinsStayPublished == Spec => []PinsArePublished
<1>1. CatalogInv => PinsArePublished
  BY DEF CatalogInv
<1> QED BY <1>1, CatalogInvariant, PTL

(* What a run or an AI preparation carries is for ever the published text  *)
(* of one workflow version and of the agent version it pins.               *)
THEOREM RunsStayPublished == Spec => []RunsCarryPublishedStack
<1>1. CatalogInv => RunsCarryPublishedStack
  BY DEF CatalogInv
<1> QED BY <1>1, CatalogInvariant, PTL

-------------------------------------------------------------------------------
(* Numbers that fill 1 to the number of versions tell the versions apart.  *)
LEMMA NumbersTellApart ==
    ASSUME NEW S, NEW number, IsFiniteSet(S), {number[v] : v \in S} = 1..Cardinality(S),
           NEW v \in S, NEW w \in S, number[v] = number[w]
    PROVE  v = w
<1> DEFINE f == [x \in S |-> number[x]]
           n == Cardinality(S)
<1>1. n \in Nat
  BY FS_CardinalityType
<1>2. IsFiniteSet(1..n) /\ Cardinality(1..n) = n
  BY <1>1, FS_Interval
<1>3. f \in Surjection(S, 1..n)
  BY DEF Surjection
<1>4. f \in Injection(S, 1..n)
  BY <1>2, <1>3, FS_SurjSameCardinalityImpliesInj
<1> QED BY <1>4 DEF Injection, IsInjective

(* A place on a shelf holds one version, before a step and after it.       *)
LEMMA OneVersionPerNumber ==
    ASSUME Shelves, NEW i \in Item, NEW v \in VersionsOf(i), NEW w \in VersionsOf(i),
           ver[v].number = ver[w].number
    PROVE  v = w
<1> DEFINE number == [x \in Version |-> ver[x].number]
<1>1. VersionsOf(i) \subseteq Version
  BY DEF VersionsOf
<1>2. {number[x] : x \in VersionsOf(i)} = Numbers(i)
  BY <1>1 DEF Numbers
<1>3. IsFiniteSet(VersionsOf(i)) /\ Numbers(i) = 1..Cardinality(VersionsOf(i))
  BY DEF Shelves
<1>4. number[v] = number[w]
  BY <1>1
<1> HIDE DEF number
<1> QED BY <1>2, <1>3, <1>4, NumbersTellApart

LEMMA OneVersionPerNumberNext ==
    ASSUME Shelves', NEW i \in Item, NEW v \in VersionsOf(i)', NEW w \in VersionsOf(i)',
           ver'[v].number = ver'[w].number
    PROVE  v = w
<1> DEFINE number == [x \in Version |-> ver'[x].number]
<1>1. VersionsOf(i)' \subseteq Version
  BY DEF VersionsOf
<1>2. {number[x] : x \in VersionsOf(i)'} = Numbers(i)'
  BY <1>1 DEF Numbers
<1>3. IsFiniteSet(VersionsOf(i)') /\ Numbers(i)' = 1..Cardinality(VersionsOf(i)')
  BY DEF Shelves
<1>4. number[v] = number[w]
  BY <1>1
<1> HIDE DEF number
<1> QED BY <1>2, <1>3, <1>4, NumbersTellApart

(* The version at a place, and the place of a version.                     *)
LEMMA NumberedVersion ==
    ASSUME Shelves, NEW i \in Item
    PROVE  /\ \A n \in 1..Cardinality(VersionsOf(i)) :
                 Numbered(i, n) \in VersionsOf(i) /\ ver[Numbered(i, n)].number = n
           /\ \A v \in VersionsOf(i) :
                 /\ ver[v].number \in 1..Cardinality(VersionsOf(i))
                 /\ Numbered(i, ver[v].number) = v
<1>1. Numbers(i) = 1..Cardinality(VersionsOf(i))
  BY DEF Shelves
<1>2. ASSUME NEW n \in 1..Cardinality(VersionsOf(i))
      PROVE  Numbered(i, n) \in VersionsOf(i) /\ ver[Numbered(i, n)].number = n
  <2>1. \E v \in VersionsOf(i) : ver[v].number = n
    BY <1>1 DEF Numbers
  <2> QED BY <2>1 DEF Numbered
<1>3. ASSUME NEW v \in VersionsOf(i)
      PROVE  /\ ver[v].number \in 1..Cardinality(VersionsOf(i))
             /\ Numbered(i, ver[v].number) = v
  <2>1. ver[v].number \in 1..Cardinality(VersionsOf(i))
    BY <1>1 DEF Numbers
  <2> QED BY <1>2, <2>1, OneVersionPerNumber
<1> QED BY <1>2, <1>3

(* Versions keep their places.                                             *)
LEMMA NumberedStays ==
    ASSUME Shelves, Shelves', Grows, NEW i \in Item, NEW n \in 1..Cardinality(VersionsOf(i))
    PROVE  Numbered(i, n)' = Numbered(i, n)
<1> DEFINE w == Numbered(i, n)
<1>1. w \in VersionsOf(i) /\ ver[w].number = n
  BY NumberedVersion
<1> HIDE DEF w
<1>2. w \in VersionsOf(i)' /\ ver'[w].number = n
  BY <1>1 DEF Grows, VersionsOf, Exists
<1>3. /\ Numbered(i, n)' \in VersionsOf(i)'
      /\ ver'[Numbered(i, n)'].number = n
  BY <1>2 DEF Numbered
<1>4. Numbered(i, n)' = w
  BY <1>2, <1>3, OneVersionPerNumberNext
<1> QED BY <1>4 DEF w

(* What stands on the shelf for a version.                                 *)
Entry(v) == [status |-> ver[v].status, content |-> ver[v].content]

(* A shelf none of whose versions changes is the same.                     *)
LEMMA SameShelfOf ==
    ASSUME Shelves, Shelves', Grows, NEW i \in Item, VersionsOf(i)' = VersionsOf(i),
           \A v \in VersionsOf(i) : ver'[v] = ver[v]
    PROVE  ShelfOf(i)' = ShelfOf(i)
<1> DEFINE n == Cardinality(VersionsOf(i))
<1>1. ASSUME NEW m \in 1..n
      PROVE  Numbered(i, m)' = Numbered(i, m) /\ ver'[Numbered(i, m)] = ver[Numbered(i, m)]
  BY NumberedStays, NumberedVersion
<1>2. Cardinality(VersionsOf(i)') = n
  OBVIOUS
<1>3. ShelfOf(i)' = [m \in 1..n |-> [status |-> ver'[Numbered(i, m)'].status,
                                     content |-> ver'[Numbered(i, m)'].content]]
  BY <1>2 DEF ShelfOf
<1>4. ShelfOf(i) = [m \in 1..n |-> [status |-> ver[Numbered(i, m)].status,
                                    content |-> ver[Numbered(i, m)].content]]
  BY DEF ShelfOf
<1> HIDE DEF n
<1> QED BY <1>1, <1>3, <1>4

(* A table of 1..n is a sequence, and a sequence is one.                   *)
LEMMA TableIsSequence ==
    ASSUME NEW T, NEW n \in Nat, NEW f \in [1..n -> T]
    PROVE  f \in Seq(T) /\ DOMAIN f = 1..n /\ Len(f) = n
OBVIOUS

LEMMA SequenceIsTable ==
    ASSUME NEW T, NEW s \in Seq(T)
    PROVE  s = [m \in 1..Len(s) |-> s[m]]
OBVIOUS

(* A shelf seen as a sequence.                                             *)
LEMMA ShelfIsSequence ==
    ASSUME CatalogInv, NEW i \in Item
    PROVE  LET n == Cardinality(VersionsOf(i)) IN
           /\ n \in Nat /\ Len(ShelfOf(i)) = n /\ DOMAIN ShelfOf(i) = 1..n
           /\ ShelfOf(i) \in Seq([status : {"draft", "published"}, content : Content])
           /\ \A m \in 1..n : ShelfOf(i)[m] = Entry(Numbered(i, m))
<1> DEFINE n == Cardinality(VersionsOf(i))
<1>1. n \in Nat /\ Shelves
  BY FS_CardinalityType DEF CatalogInv, Shelves
<1>2. ShelfOf(i) = [m \in 1..n |-> Entry(Numbered(i, m))]
  BY DEF ShelfOf, Entry
<1>3. ASSUME NEW m \in 1..n
      PROVE  Entry(Numbered(i, m)) \in [status : {"draft", "published"}, content : Content]
  <2>1. Numbered(i, m) \in VersionsOf(i)
    BY <1>1, NumberedVersion
  <2>2. ver[Numbered(i, m)] \in Row
    BY <2>1, RowType DEF CatalogInv, VersionsOf, Exists
  <2> QED BY <2>2 DEF Entry, Row
<1>4. ShelfOf(i) \in [1..n -> [status : {"draft", "published"}, content : Content]]
  BY <1>2, <1>3
<1>5. \A m \in 1..n : ShelfOf(i)[m] = Entry(Numbered(i, m))
  BY <1>2
<1>6. DOMAIN ShelfOf(i) = 1..n /\ Len(ShelfOf(i)) = n
      /\ ShelfOf(i) \in Seq([status : {"draft", "published"}, content : Content])
  <2> HIDE DEF n
  <2> QED BY <1>1, <1>4, TableIsSequence
<1> QED BY <1>1, <1>5, <1>6

(* A new version is appended to the shelf of its item.                     *)
LEMMA ShelfAdds ==
    ASSUME CatalogInv, CatalogInv', Grows, NEW q \in Slot, CommitVersion(q)
    PROVE  Shelf!Next
<1> DEFINE shelf == [j \in Item |-> ShelfOf(j)]
<1>0. PICK i \in Item : /\ i = req[q].sub.item /\ Cardinality(VersionsOf(i)) \in Nat
                        /\ req[q].mem = Cardinality(VersionsOf(i)) + 1
  BY NewVersionFits
<1>r. req[q].sub \in Submission /\ req[q].sub.content \in Content
  BY HandlerType, RequestType DEF CatalogInv, CommitVersion
<1>1. PICK n \in Nat, content \in Content :
         n = Cardinality(VersionsOf(i)) /\ content = req[q].sub.content
  BY <1>0, <1>r
<1>2. content \in {s.content : s \in Submission} /\ content \in Content
  BY <1>1, <1>r
<1>3. PICK v \in Version :
         /\ ~Exists(v)
         /\ ver' = [ver EXCEPT ![v] = [item |-> i, number |-> n + 1, status |-> "draft",
                                       content |-> content, lock |-> 1]]
  BY <1>0, <1>1 DEF CommitVersion
<1>4. /\ ver'[v].status = "draft" /\ ver'[v].item = i /\ ver'[v].number = n + 1
      /\ ver'[v].content = content /\ \A w \in Version \ {v} : ver'[w] = ver[w]
  BY <1>3 DEF CatalogInv, CatalogTypeOK
<1>5. Shelves /\ Shelves'
  BY DEF CatalogInv
<1>6. ASSUME NEW j \in Item, j # i PROVE ShelfOf(j)' = ShelfOf(j)
  <2>1. \A w \in Version : ver'[w].status # "absent" /\ ver'[w].item = j => Exists(w)
    BY <1>4, <1>6 DEF Exists
  <2>2. VersionsOf(j)' = VersionsOf(j)
    BY <2>1, SameShelf
  <2>3. \A w \in VersionsOf(j) : ver'[w] = ver[w]
    BY <1>3, <1>4 DEF VersionsOf
  <2> QED BY <1>5, <2>2, <2>3, SameShelfOf
<1>7. VersionsOf(i)' = VersionsOf(i) \cup {v} /\ v \notin VersionsOf(i)
  BY <1>3, <1>4 DEF VersionsOf, Exists
<1>8. Cardinality(VersionsOf(i)') = n + 1
  BY <1>1, <1>5, <1>7, FS_AddElement DEF Shelves
<1>9. Numbered(i, n + 1)' = v
  <2>1. v \in VersionsOf(i)' /\ ver'[v].number = n + 1
    BY <1>4, <1>7
  <2>2. Numbered(i, n + 1)' \in VersionsOf(i)' /\ ver'[Numbered(i, n + 1)'].number = n + 1
    BY <2>1 DEF Numbered
  <2> QED BY <1>5, <2>1, <2>2, OneVersionPerNumberNext
<1> DEFINE entry == [status |-> "draft", content |-> content]
<1>10. Entry(v)' = entry
  BY <1>4 DEF Entry
<1>11. ASSUME NEW m \in 1..n
       PROVE  Numbered(i, m)' = Numbered(i, m) /\ ver'[Numbered(i, m)] = ver[Numbered(i, m)]
  <2>1. Numbered(i, m)' = Numbered(i, m) /\ Numbered(i, m) \in VersionsOf(i)
    BY <1>1, <1>5, NumberedStays, NumberedVersion
  <2> QED BY <1>4, <1>7, <2>1 DEF VersionsOf
<1>12. /\ Len(ShelfOf(i)) = n /\ DOMAIN ShelfOf(i) = 1..n
       /\ ShelfOf(i) \in Seq([status : {"draft", "published"}, content : Content])
       /\ \A m \in 1..n : ShelfOf(i)[m] = [status |-> ver[Numbered(i, m)].status,
                                           content |-> ver[Numbered(i, m)].content]
  BY <1>1, ShelfIsSequence DEF Entry
<1>13. ShelfOf(i)' = [m \in 1..(n + 1) |-> [status |-> ver'[Numbered(i, m)'].status,
                                            content |-> ver'[Numbered(i, m)'].content]]
  BY <1>8 DEF ShelfOf
<1>14. ShelfOf(i)' = Append(ShelfOf(i), entry)
  <2>1. entry \in [status : {"draft", "published"}, content : Content]
    BY <1>2
  <2>2. \A m \in 1..n : ShelfOf(i)'[m] = ShelfOf(i)[m]
    BY <1>11, <1>12, <1>13
  <2>3. ShelfOf(i)'[n + 1] = entry
    BY <1>4, <1>9, <1>13
  <2>4. /\ Append(ShelfOf(i), entry) \in Seq([status : {"draft", "published"}, content : Content])
        /\ Len(Append(ShelfOf(i), entry)) = n + 1
        /\ Append(ShelfOf(i), entry)[n + 1] = entry
        /\ \A m \in 1..n : Append(ShelfOf(i), entry)[m] = ShelfOf(i)[m]
    <3> HIDE DEF entry
    <3> QED BY <1>12, <2>1
  <2>5. DOMAIN Append(ShelfOf(i), entry) = 1..(n + 1)
    BY <2>4
  <2> HIDE DEF entry
  <2>6. \A m \in 1..(n + 1) : ShelfOf(i)'[m] = Append(ShelfOf(i), entry)[m]
    <3>1. \A m \in 1..(n + 1) : m \in 1..n \/ m = n + 1
      OBVIOUS
    <3> QED BY <2>2, <2>3, <2>4, <3>1
  <2>7. Append(ShelfOf(i), entry) = [m \in 1..(n + 1) |-> Append(ShelfOf(i), entry)[m]]
    <3> DEFINE s == Append(ShelfOf(i), entry)
    <3>1. s \in Seq([status : {"draft", "published"}, content : Content]) /\ Len(s) = n + 1
      BY <2>4
    <3> HIDE DEF s
    <3>2. s = [m \in 1..(n + 1) |-> s[m]]
      BY <3>1, SequenceIsTable
    <3> QED BY <3>2 DEF s
  <2>8. ShelfOf(i)' = [m \in 1..(n + 1) |-> ShelfOf(i)'[m]]
    BY <1>13
  <2> QED BY <2>6, <2>7, <2>8
<1>15. shelf[i] = ShelfOf(i) /\ shelf'[i] = ShelfOf(i)' /\ \A j \in Item : j # i => shelf'[j] = shelf[j]
  BY <1>6
<1>16. shelf' = [shelf EXCEPT ![i] = Append(ShelfOf(i), entry)]
  BY <1>14, <1>15
<1>17. shelf'[i] # shelf[i]
  <2>1. Len(Append(ShelfOf(i), entry)) = n + 1
    BY <1>12
  <2> HIDE DEF entry
  <2> QED BY <1>12, <1>14, <1>15, <2>1
<1>18. Shelf!AddDraft(i, content)
  BY <1>15, <1>16 DEF Shelf!AddDraft
<1> QED BY <1>2, <1>17, <1>18 DEF Shelf!Next

(* An edit changes what stands at one place of one shelf.                  *)
LEMMA EditedShelf ==
    ASSUME CatalogInv, CatalogInv', Grows, NEW v \in Version, Exists(v),
           NEW i \in Item, ver[v].item = i, \A w \in Version \ {v} : ver'[w] = ver[w]
    PROVE  /\ ver[v].number \in DOMAIN ShelfOf(i) /\ ShelfOf(i)[ver[v].number] = Entry(v)
           /\ ShelfOf(i)' = [ShelfOf(i) EXCEPT ![ver[v].number] = Entry(v)']
           /\ \A j \in Item \ {i} : ShelfOf(j)' = ShelfOf(j)
<1> DEFINE n == Cardinality(VersionsOf(i))
<1>1. Shelves /\ Shelves'
  BY DEF CatalogInv
<1>2. \A w \in Version : ver'[w].status # "absent" => Exists(w)
  BY DEF Exists
<1>3. \A j \in Item : VersionsOf(j)' = VersionsOf(j)
  BY <1>2, SameShelf
<1>4. v \in VersionsOf(i)
  BY DEF VersionsOf
<1>5. PICK k : k = ver[v].number
  OBVIOUS
<1>6. k \in 1..n /\ Numbered(i, k) = v
  BY <1>1, <1>4, <1>5, NumberedVersion
<1>7. /\ DOMAIN ShelfOf(i) = 1..n
      /\ \A m \in 1..n : ShelfOf(i)[m] = Entry(Numbered(i, m))
  BY ShelfIsSequence
<1>8. ShelfOf(i)' = [m \in 1..n |-> [status |-> ver'[Numbered(i, m)'].status,
                                     content |-> ver'[Numbered(i, m)'].content]]
  BY <1>3 DEF ShelfOf
<1>9. \A m \in 1..n : Numbered(i, m)' = Numbered(i, m)
  BY <1>1, NumberedStays
<1>10. ASSUME NEW m \in 1..n, m # k
       PROVE  Numbered(i, m) \in Version /\ Numbered(i, m) # v
  <2>1. Numbered(i, m) \in VersionsOf(i) /\ ver[Numbered(i, m)].number = m
    BY <1>1, NumberedVersion
  <2> QED BY <1>5, <1>10, <2>1 DEF VersionsOf
<1>11. ShelfOf(i)'[k] = Entry(v)'
  BY <1>6, <1>8, <1>9 DEF Entry
<1>12. ASSUME NEW m \in 1..n, m # k
       PROVE  ShelfOf(i)'[m] = ShelfOf(i)[m]
  <2>1. ver'[Numbered(i, m)] = ver[Numbered(i, m)]
    BY <1>10, <1>12
  <2> QED BY <1>7, <1>8, <1>9, <2>1 DEF Entry
<1>13. ShelfOf(i) = [m \in 1..n |-> ShelfOf(i)[m]]
  BY DEF ShelfOf
<1>14. ShelfOf(i)' = [m \in 1..n |-> ShelfOf(i)'[m]]
  BY <1>8
<1>15. ShelfOf(i)' = [ShelfOf(i) EXCEPT ![k] = Entry(v)']
  <2> DEFINE f == ShelfOf(i)
             g == ShelfOf(i)'
             e == Entry(v)'
  <2>1. /\ f = [m \in 1..n |-> f[m]] /\ g = [m \in 1..n |-> g[m]] /\ g[k] = e /\ k \in 1..n
        /\ \A m \in 1..n : m # k => g[m] = f[m]
    BY <1>6, <1>11, <1>12, <1>13, <1>14
  <2> HIDE DEF f, g, e, n
  <2>2. g = [f EXCEPT ![k] = e]
    BY <2>1
  <2> QED BY <2>2 DEF f, g, e
<1>16. ASSUME NEW j \in Item \ {i} PROVE ShelfOf(j)' = ShelfOf(j)
  <2>1. \A w \in VersionsOf(j) : ver'[w] = ver[w]
    BY DEF VersionsOf
  <2> QED BY <1>1, <1>3, <2>1, SameShelfOf
<1> QED BY <1>5, <1>6, <1>7, <1>15, <1>16

(* One field of one entry changes in one of several sequences.             *)
LEMMA ChangedContent ==
    ASSUME NEW S, NEW f, NEW g, NEW i \in S, NEW n \in DOMAIN f[i], NEW c,
           f = [j \in S |-> f[j]], g = [j \in S |-> g[j]],
           \A j \in S \ {i} : g[j] = f[j],
           f[i][n] = [status |-> f[i][n].status, content |-> f[i][n].content],
           g[i] = [f[i] EXCEPT ![n] = [status |-> f[i][n].status, content |-> c]]
    PROVE  g = [f EXCEPT ![i][n].content = c]
<1>1. [f[i][n] EXCEPT !.content = c] = [status |-> f[i][n].status, content |-> c]
  OBVIOUS
<1>2. g = [f EXCEPT ![i] = g[i]]
  OBVIOUS
<1>3. [f EXCEPT ![i][n].content = c]
         = [f EXCEPT ![i] = [f[i] EXCEPT ![n] = [f[i][n] EXCEPT !.content = c]]]
  OBVIOUS
<1> QED BY <1>1, <1>2, <1>3, Zenon

LEMMA ChangedStatus ==
    ASSUME NEW S, NEW f, NEW g, NEW i \in S, NEW n \in DOMAIN f[i], NEW c,
           f = [j \in S |-> f[j]], g = [j \in S |-> g[j]],
           \A j \in S \ {i} : g[j] = f[j],
           f[i][n] = [status |-> f[i][n].status, content |-> f[i][n].content],
           g[i] = [f[i] EXCEPT ![n] = [status |-> c, content |-> f[i][n].content]]
    PROVE  g = [f EXCEPT ![i][n].status = c]
<1>1. [f[i][n] EXCEPT !.status = c] = [status |-> c, content |-> f[i][n].content]
  OBVIOUS
<1>2. g = [f EXCEPT ![i] = g[i]]
  OBVIOUS
<1>3. [f EXCEPT ![i][n].status = c]
         = [f EXCEPT ![i] = [f[i] EXCEPT ![n] = [f[i][n] EXCEPT !.status = c]]]
  OBVIOUS
<1> QED BY <1>1, <1>2, <1>3, Zenon

(* An edit rewrites or publishes a draft on a shelf.                       *)
LEMMA ShelfEdits ==
    ASSUME CatalogInv, CatalogInv', Grows, NEW q \in Slot, CommitUpdate(q) \/ CommitPublish(q)
    PROVE  Shelf!Next
<1> DEFINE shelf == [j \in Item |-> ShelfOf(j)]
<1>0. req[q].sub.version \in Version /\ req[q].sub.item \in Item /\ req[q].sub.content \in Content
  BY EditFindsDraft, RequestType DEF CommitUpdate, CommitPublish
<1>1. PICK v \in Version, i \in Item, content \in Content :
         v = req[q].sub.version /\ i = req[q].sub.item /\ content = req[q].sub.content
  BY <1>0
<1>2. /\ ver[v] \in Row /\ ver[v] = req[q].mem /\ ver[v].status = "draft" /\ ver[v].item = i
      /\ req[q].sub \in Submission
  BY <1>1, EditFindsDraft DEF CommitUpdate, CommitPublish
<1>3. Exists(v)
  BY <1>2 DEF Exists
<1>4. /\ \A w \in Version \ {v} : ver'[w] = ver[w]
      /\ CommitUpdate(q) => ver'[v].status = "draft" /\ ver'[v].content = content
      /\ CommitPublish(q) => ver'[v].status = "published" /\ ver'[v].content = ver[v].content
  <2>1. /\ ver \in [Version -> Row \cup {NoVersion}] /\ ver[v] \in Row
        /\ ver[v].status = "draft" /\ ver[v].lock \in Nat
        /\ ver[v] = [item |-> ver[v].item, number |-> ver[v].number, status |-> ver[v].status,
                     content |-> ver[v].content, lock |-> ver[v].lock]
    BY <1>2 DEF CatalogInv, CatalogTypeOK, Row
  <2>2. CASE CommitUpdate(q)
    <3>1. ver' = [ver EXCEPT ![v].content = content, ![v].lock = req[q].mem.lock + 1]
      BY <1>1, <2>2 DEF CommitUpdate
    <3>2. ~CommitPublish(q)
      BY <2>2 DEF CommitUpdate, CommitPublish
    <3> QED BY <2>1, <2>2, <3>1, <3>2
  <2>3. CASE CommitPublish(q)
    <3>1. ver' = [ver EXCEPT ![v].status = "published", ![v].lock = req[q].mem.lock + 1]
      BY <1>1, <2>3 DEF CommitPublish
    <3>2. ~CommitUpdate(q)
      BY <2>3 DEF CommitUpdate, CommitPublish
    <3> QED BY <2>1, <2>3, <3>1, <3>2
  <2> QED BY <2>2, <2>3
<1>5. PICK n : n = ver[v].number
  OBVIOUS
<1>6. /\ n \in DOMAIN shelf[i] /\ shelf[i][n] = Entry(v)
      /\ shelf'[i] = [shelf[i] EXCEPT ![n] = Entry(v)']
      /\ \A j \in Item \ {i} : shelf'[j] = shelf[j]
  BY <1>2, <1>3, <1>4, <1>5, EditedShelf
<1>7. /\ shelf = [j \in Item |-> shelf[j]] /\ shelf' = [j \in Item |-> shelf'[j]]
  OBVIOUS
<1>8. /\ Entry(v) = [status |-> "draft", content |-> ver[v].content]
      /\ CommitUpdate(q) => Entry(v)' = [status |-> "draft", content |-> content]
      /\ CommitPublish(q) => Entry(v)' = [status |-> "published", content |-> ver[v].content]
  BY <1>2, <1>4 DEF Entry
<1>9. shelf[i][n].status = "draft" /\ shelf[i][n].content = ver[v].content
  BY <1>6, <1>8
<1>10. Entry(v)' # Entry(v)
  <2>1. CommitUpdate(q) => content # ver[v].content
    BY <1>1, <1>2 DEF CommitUpdate, NoChange
  <2>2. CASE CommitUpdate(q)
    <3>1. Entry(v)'.content # Entry(v).content
      BY <1>8, <2>1, <2>2
    <3> QED BY <3>1
  <2>3. CASE CommitPublish(q)
    <3>1. Entry(v)'.status # Entry(v).status
      BY <1>8, <2>3
    <3> QED BY <3>1
  <2> QED BY <2>2, <2>3
<1>11. shelf'[i] # shelf[i]
  <2>1. shelf'[i][n] = Entry(v)'
    BY <1>6
  <2> QED BY <1>6, <1>10, <2>1
<1>12. shelf[i][n] = [status |-> shelf[i][n].status, content |-> shelf[i][n].content]
  BY <1>6, <1>8
<1> HIDE DEF shelf
<1>13. ASSUME CommitUpdate(q)
       PROVE  shelf' = [shelf EXCEPT ![i][n].content = content] /\ content \in {s.content : s \in Submission}
  <2>1. shelf'[i] = [shelf[i] EXCEPT ![n] = [status |-> shelf[i][n].status, content |-> content]]
    BY <1>6, <1>8, <1>9, <1>13
  <2>2. shelf' = [shelf EXCEPT ![i][n].content = content]
    BY <1>6, <1>7, <1>12, <2>1, ChangedContent
  <2> QED BY <1>1, <1>2, <2>2
<1>14. ASSUME CommitPublish(q)
       PROVE  shelf' = [shelf EXCEPT ![i][n].status = "published"]
  <2>1. shelf'[i] = [shelf[i] EXCEPT ![n] = [status |-> "published", content |-> shelf[i][n].content]]
    BY <1>6, <1>8, <1>9, <1>14
  <2> QED BY <1>6, <1>7, <1>12, <2>1, ChangedStatus
<1>15. CASE CommitUpdate(q)
  <2>1. Shelf!Rewrite(i, n, content)
    BY <1>9, <1>13, <1>15 DEF Shelf!Rewrite, shelf
  <2> QED BY <1>6, <1>11, <1>13, <1>15, <2>1 DEF Shelf!Next, shelf
<1>16. CASE CommitPublish(q)
  <2>1. Shelf!Publish(i, n)
    BY <1>9, <1>14, <1>16 DEF Shelf!Publish, shelf
  <2> QED BY <1>6, <1>11, <2>1 DEF Shelf!Next, shelf
<1> QED BY <1>15, <1>16

(* A step that leaves the versions as they are leaves the shelves.         *)
LEMMA ShelfStays ==
    ASSUME UNCHANGED ver
    PROVE  [i \in Item |-> ShelfOf(i)]' = [i \in Item |-> ShelfOf(i)]
BY DEF ShelfOf, Numbered, VersionsOf, Exists

(* The catalog keeps the promise of VersionShelf whatever is requested:    *)
(* an item's versions are a sequence that grows at its end, and only a     *)
(* draft is rewritten or published.                                        *)
THEOREM CatalogRefinesShelf == Spec => ImplementsVersionShelf
<1>1. Init => Shelf!Init
  <2> SUFFICES ASSUME Init PROVE Shelf!Init
    OBVIOUS
  <2>1. \A v \in Version : ~Exists(v)
    BY DEF Init, NoVersion, Exists
  <2>2. \A i \in Item : VersionsOf(i) = {}
    BY <2>1 DEF VersionsOf
  <2>3. ASSUME NEW i \in Item PROVE ShelfOf(i) = <<>>
    <3>1. Cardinality(VersionsOf(i)) = 0
      BY <2>2, FS_EmptySet
    <3>2. 1..Cardinality(VersionsOf(i)) = {}
      BY <3>1
    <3> QED BY <3>2 DEF ShelfOf
  <2> QED BY <2>3 DEF Shelf!Init
<1>2. ASSUME CatalogInv, CatalogInv', [Next]_vars
      PROVE  Shelf!Next \/ UNCHANGED [i \in Item |-> ShelfOf(i)]
  <2>1. Grows
    BY <1>2, RowsStep
  <2>2. CASE UNCHANGED ver
    BY <2>2, ShelfStays
  <2>3. ASSUME NEW q \in Slot, Begin(q) \/ Prepare(q) \/ Respond(q) PROVE UNCHANGED ver
    BY <2>3 DEF Begin, Respond, Prepare, ReadStack, ReadPinned, CommitRun, CommitPreparation, Reading
  <2>4. ASSUME NEW q \in Slot, Create(q) \/ Write(q)
        PROVE  UNCHANGED ver \/ CommitVersion(q) \/ CommitUpdate(q) \/ CommitPublish(q)
    BY <2>4 DEF Create, Write, CommitItem, SlugTaken, ReadItem, ReadNumber, NumberTaken,
                ReadVersion, Validate, CommitNothing, StaleWrite, Reading
  <2>5. ASSUME NEW q \in Slot, CommitVersion(q) PROVE Shelf!Next
    BY <1>2, <2>1, <2>5, ShelfAdds
  <2>6. ASSUME NEW q \in Slot, CommitUpdate(q) \/ CommitPublish(q) PROVE Shelf!Next
    BY <1>2, <2>1, <2>6, ShelfEdits
  <2>7. ASSUME NEW r \in Run, ProposePrepared(r) PROVE UNCHANGED ver
    BY <2>7 DEF ProposePrepared
  <2> QED BY <1>2, <2>2, <2>3, <2>4, <2>5, <2>6, <2>7 DEF Next, vars
<1>3. CatalogInv /\ CatalogInv' /\ [Next]_vars => [Shelf!Next]_[i \in Item |-> ShelfOf(i)]
  BY <1>2
<1>4. Spec => [][Shelf!Next]_[i \in Item |-> ShelfOf(i)]
  BY <1>3, CatalogInvariant, PTL DEF Spec
<1>5. Spec => Shelf!Init
  BY <1>1 DEF Spec
<1> QED BY <1>4, <1>5, PTL DEF ImplementsVersionShelf, Shelf!Spec
===============================================================================
