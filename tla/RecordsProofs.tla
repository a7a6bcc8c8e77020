----------------------------- MODULE RecordsProofs -----------------------------
(***************************************************************************)
(* What TLAPS proves of TenantRecords, for any handlers, names, patches    *)
(* and requests, whatever the schema goes through below them.              *)
(***************************************************************************)
EXTENDS TenantRecords, SequenceTheorems, FiniteSetTheorems, TLAPS

(***************************************************************************)
(* Type correctness, with what a request carries at each step of its way.  *)
(***************************************************************************)
Operations == {"none", "insert", "edit", "simulate", "upload"}
Phases == {"idle", "checked", "begun", "read", "scanned", "partial", "stored", "written"}
Scans == {"clean", "scan_unavailable"}
Places == Keyed \cup Unkeyed \cup Edited \cup Scans \cup {"none", "wallet"}

Values == {0, 1} \cup UNION {{p[f] : f \in DOMAIN p} : p \in Patches}
Rows == [Fields -> Values]
Entry == [row : Edited, before : Rows, after : Rows]
NamedRow == [kind : Keyed \cup Unkeyed, name : Names \cup {"none"}, by : Nat]
File == [name : Nat, complete : BOOLEAN]
DocumentRows == [file : Nat, scan : Scans]

Request == [op : Operations, phase : Phases, id : Nat, on : Places,
            name : Names \cup {"none"}, row : SUBSET NamedRow,
            before : Rows \cup {<<>>}, patch : Patches \cup {<<>>}, seen : SUBSET Nat]

FormedInsert(r) ==
    /\ r.phase \in {"checked", "written"} /\ r.on \in Keyed \cup Unkeyed
    /\ r.on \in Keyed => r.name \in Names
    /\ r.row # {} => r.on = "role"

FormedEdit(r) ==
    /\ r.phase \in {"begun", "read", "written"} /\ r.on \in Edited
    /\ r.patch \in Patches
    /\ r.phase # "begun" => r.before \in Rows

FormedUpload(r) ==
    r.phase \in {"scanned", "partial", "stored", "written"} /\ r.on \in Scans

Formed(r) ==
    /\ r.op = "none" => r = Idle
    /\ r.op = "insert" => FormedInsert(r)
    /\ r.op = "edit" => FormedEdit(r)
    /\ r.op = "simulate" => r.phase = "written" /\ r.on = "wallet"
    /\ r.op = "upload" => FormedUpload(r)

TypeOK ==
    /\ named \in SUBSET NamedRow
    /\ record \in [Edited -> Rows]
    /\ audit \in Seq(Entry)
    /\ wallet \in SUBSET Nat
    /\ documents \in SUBSET DocumentRows
    /\ files \in SUBSET File
    /\ request \in [Handlers -> Request]
    /\ asked \in Nat

TypeInvariant ==
    /\ TypeOK
    /\ \A h \in Handlers : Formed(request[h])
    /\ \A r \in named : r.kind \in Keyed => r.name \in Names

LEMMA Vocabulary ==
  /\ "insert" \in Operations /\ "edit" \in Operations /\ "simulate" \in Operations
  /\ "upload" \in Operations
  /\ "checked" \in Phases /\ "begun" \in Phases /\ "read" \in Phases /\ "scanned" \in Phases
  /\ "partial" \in Phases /\ "stored" \in Phases /\ "written" \in Phases
  /\ "wallet" \in Places /\ Keyed \subseteq Places /\ Unkeyed \subseteq Places
  /\ Edited \subseteq Places /\ Scans \subseteq Places
  /\ "branch" \in Keyed /\ "product" \in Keyed /\ "role" \in Keyed /\ "user" \in Keyed
  /\ "applicant" \in Unkeyed /\ "organization" \in Unkeyed /\ "api_key" \in Unkeyed
  /\ "profile" \in Edited /\ "product" \in Edited /\ "branch" \in Edited /\ "role" \in Edited
  /\ "settings" \in Edited /\ "status" \in Edited
BY DEF Operations, Phases, Places, Keyed, Unkeyed, Edited, Scans

LEMMA IdleTyped ==
  /\ Idle \in Request /\ Formed(Idle)
  /\ Idle.op = "none" /\ Idle.on = "none" /\ Idle.id = 0 /\ Idle.row = {}
BY DEF Idle, Request, Operations, Phases, Places, Formed

LEMMA UneditedTyped ==
  Unedited \in Rows
BY DEF Unedited, Rows, Fields, Values

(***************************************************************************)
(* How a request begins: what the thirteen handlers that begin one have in *)
(* common.                                                                 *)
(***************************************************************************)
Opening(r) ==
    /\ r \in Request /\ Formed(r) /\ r.op # "none"
    /\ r.op = "insert" => r.phase = "checked"
    /\ r.op = "edit" => r.phase = "begun"
    /\ r.op = "simulate" => r.seen = wallet
    /\ r.op = "upload" => r.phase = "scanned"

\* A name that is looked for is normalised, and no system role's but where a
\* row that has it already is renamed.
Looked(r) ==
    r.op = "insert" =>
        /\ r.on \in {"branch", "product"} => Upper[r.name] = r.name
        /\ r.on = "role" => \/ Upper[r.name] \notin Reserved
                            \/ \E row \in named : row.kind = "role" /\ Upper[row.name] = Upper[r.name]

Arrival(h, r) ==
    /\ Opening(r) /\ Looked(r)
    /\ Begin(h, r)
    /\ UNCHANGED <<schemaVars, named, record, audit, wallet, documents, files>>

LEMMA InsertionArrives ==
  ASSUME TypeOK, NEW h \in Handlers, NEW kind \in Keyed \cup Unkeyed,
         NEW n \in Names \cup {"none"}, kind \in Keyed => n \in Names,
         kind = "role" => Upper[n] \notin Reserved,
         Insertion(h, kind, n)
  PROVE  \E r : Arrival(h, r)
<1> DEFINE r == [Idle EXCEPT !.op = "insert", !.phase = "checked", !.on = kind,
                             !.name = Stored(kind, n)]
<1>1. Stored(kind, n) \in Names \cup {"none"} /\ (kind \in Keyed => Stored(kind, n) \in Names)
  BY RecordsAssumption DEF Stored, Keyed
<1>2. kind \in {"branch", "product"} => Upper[Stored(kind, n)] = Stored(kind, n)
  BY RecordsAssumption DEF Stored, Keyed
<1>3. kind = "role" => Upper[Stored(kind, n)] \notin Reserved
  BY DEF Stored
<1>4. r \in Request
  BY IdleTyped, Vocabulary, <1>1 DEF Request
<1>5. /\ r.op = "insert" /\ r.phase = "checked" /\ r.on = kind /\ r.row = {}
      /\ r.name = Stored(kind, n)
  BY IdleTyped DEF Request
<1>6. Formed(r)
  BY <1>5, <1>1 DEF Formed, FormedInsert
<1>7. Opening(r) /\ Looked(r)
  BY <1>4, <1>5, <1>6, <1>2, <1>3 DEF Opening, Looked
<1>8. Begin(h, r) /\ UNCHANGED <<schemaVars, named, record, audit, wallet, documents, files>>
  BY DEF Insertion
<1> HIDE DEF r
<1> QED BY <1>7, <1>8 DEF Arrival

LEMMA RenameArrives ==
  ASSUME TypeInvariant, NEW h \in Handlers, NEW row \in named, NEW n \in Names,
         RenameRole(h, row, n)
  PROVE  \E r : Arrival(h, r)
<1> DEFINE r == [Idle EXCEPT !.op = "insert", !.phase = "checked", !.on = "role", !.name = n,
                             !.row = {row}]
<1>1. r \in Request
  BY IdleTyped, Vocabulary DEF Request, TypeInvariant, TypeOK
<1>2. r.op = "insert" /\ r.phase = "checked" /\ r.on = "role" /\ r.name = n
  BY IdleTyped DEF Request
<1>3. Formed(r)
  BY <1>2, Vocabulary DEF Formed, FormedInsert
<1>4. Upper[n] \notin Reserved \/ (row.kind = "role" /\ Upper[row.name] = Upper[n])
  BY DEF RenameRole, Available
<1>5. Opening(r) /\ Looked(r)
  BY <1>1, <1>2, <1>3, <1>4 DEF Opening, Looked
<1>6. Begin(h, r) /\ UNCHANGED <<schemaVars, named, record, audit, wallet, documents, files>>
  BY DEF RenameRole
<1> HIDE DEF r
<1> QED BY <1>5, <1>6 DEF Arrival

LEMMA EditArrives ==
  ASSUME TypeOK, NEW h \in Handlers, NEW e \in Edited, NEW patch \in Patches, Edit(h, e, patch)
  PROVE  \E r : Arrival(h, r)
<1> DEFINE r == [Idle EXCEPT !.op = "edit", !.phase = "begun", !.on = e, !.patch = patch]
<1>1. r \in Request
  BY IdleTyped, Vocabulary DEF Request
<1>2. r.op = "edit" /\ r.phase = "begun" /\ r.on = e /\ r.patch = patch
  BY IdleTyped DEF Request
<1>3. Opening(r) /\ Looked(r)
  BY <1>1, <1>2 DEF Opening, Looked, Formed, FormedEdit
<1>4. Begin(h, r) /\ UNCHANGED <<schemaVars, named, record, audit, wallet, documents, files>>
  BY DEF Edit
<1> HIDE DEF r
<1> QED BY <1>3, <1>4 DEF Arrival

LEMMA SimulationArrives ==
  ASSUME TypeOK, NEW h \in Handlers, Simulate(h)
  PROVE  \E r : Arrival(h, r)
<1> DEFINE r == [Idle EXCEPT !.op = "simulate", !.phase = "written", !.on = "wallet",
                             !.seen = wallet]
<1>1. r \in Request
  BY IdleTyped, Vocabulary DEF Request, TypeOK
<1>2. r.op = "simulate" /\ r.phase = "written" /\ r.on = "wallet" /\ r.seen = wallet
  BY IdleTyped DEF Request
<1>3. Opening(r) /\ Looked(r)
  BY <1>1, <1>2 DEF Opening, Looked, Formed
<1>4. Begin(h, r) /\ UNCHANGED <<schemaVars, named, record, audit, wallet, documents, files>>
  BY DEF Simulate
<1> HIDE DEF r
<1> QED BY <1>3, <1>4 DEF Arrival

LEMMA UploadArrives ==
  ASSUME TypeOK, NEW h \in Handlers, NEW scan \in Scans, Upload(h, scan)
  PROVE  \E r : Arrival(h, r)
<1> DEFINE r == [Idle EXCEPT !.op = "upload", !.phase = "scanned", !.on = scan]
<1>1. r \in Request
  BY IdleTyped, Vocabulary DEF Request
<1>2. r.op = "upload" /\ r.phase = "scanned" /\ r.on = scan
  BY IdleTyped DEF Request
<1>3. Opening(r) /\ Looked(r)
  BY <1>1, <1>2 DEF Opening, Looked, Formed, FormedUpload
<1>4. Begin(h, r) /\ UNCHANGED <<schemaVars, named, record, audit, wallet, documents, files>>
  BY DEF Upload
<1> HIDE DEF r
<1> QED BY <1>3, <1>4 DEF Arrival

\* The other steps of a request.
Proceeding(h) ==
    \/ Fail(h) \/ Write(h) \/ Commit(h)
    \/ Read(h) \/ WriteEdit(h) \/ CommitEdit(h) \/ CommitSimulate(h)
    \/ Store(h) \/ Flush(h) \/ CommitDocument(h)

LEMMA InsertArrives ==
  ASSUME TypeInvariant, NEW h \in Handlers, Insert(h)
  PROVE  (\E r : Arrival(h, r)) \/ Write(h) \/ Commit(h)
<1>1. CASE \E n \in Names : CreateBranch(h, n) \/ CreateProduct(h, n)
  BY <1>1, InsertionArrives, Vocabulary DEF CreateBranch, CreateProduct, TypeInvariant
<1>2. CASE \E n \in Names : CreateRole(h, n) \/ CreateUser(h, n)
  BY <1>2, InsertionArrives, Vocabulary DEF CreateRole, CreateUser, Available, TypeInvariant
<1>3. CASE \E n \in Names : \E row \in named : RenameRole(h, row, n)
  BY <1>3, RenameArrives
<1>4. CASE CreateApplicant(h) \/ OnboardOrganization(h) \/ CreateApiKey(h)
  BY <1>4, InsertionArrives, Vocabulary
     DEF CreateApplicant, OnboardOrganization, CreateApiKey, Keyed, TypeInvariant
<1> QED BY <1>1, <1>2, <1>3, <1>4 DEF Insert

LEMMA ChangeArrives ==
  ASSUME TypeInvariant, NEW h \in Handlers, Change(h)
  PROVE  \/ \E r : Arrival(h, r)
         \/ Read(h) \/ WriteEdit(h) \/ CommitEdit(h) \/ CommitSimulate(h)
<1>1. CASE \E p \in Patches :
             \/ UpdateProfile(h, p) \/ UpdateProduct(h, p) \/ UpdateRole(h, p)
             \/ UpdateBranch(h, p) \/ UpdateSettings(h, p) \/ UpdateOrganizationStatus(h, p)
  <2> PICK p \in Patches : \E e \in Edited : Edit(h, e, p)
    BY <1>1, Vocabulary DEF UpdateProfile, UpdateProduct, UpdateRole, UpdateBranch,
       UpdateSettings, UpdateOrganizationStatus
  <2> QED BY EditArrives DEF TypeInvariant
<1>2. CASE Simulate(h)
  BY <1>2, SimulationArrives DEF TypeInvariant
<1> QED BY <1>1, <1>2 DEF Change

LEMMA DocumentArrives ==
  ASSUME TypeInvariant, NEW h \in Handlers, Document(h)
  PROVE  (\E r : Arrival(h, r)) \/ Store(h) \/ Flush(h) \/ CommitDocument(h)
BY UploadArrives DEF Document, Scans, TypeInvariant

\* Every step: the schema moves, a request begins, or one proceeds.
LEMMA StepCases ==
  ASSUME TypeInvariant, [Next]_vars
  PROVE  \/ UNCHANGED recordVars
         \/ \E h \in Handlers : \/ \E r : Arrival(h, r)
                                \/ Proceeding(h)
<1>1. CASE UNCHANGED vars
  BY <1>1 DEF vars, recordVars
<1>2. CASE \E h \in Handlers : Insert(h) \/ Change(h) \/ Document(h) \/ Fail(h)
  BY <1>2, InsertArrives, ChangeArrives, DocumentArrives DEF Proceeding
<1> QED BY <1>1, <1>2 DEF Next

\* What a request that begins leaves: itself, numbered, in a handler that was idle.
Begun(h, q) ==
    /\ Opening(q) /\ Looked(q) /\ q.id = asked + 1
    /\ request[h] = Idle
    /\ q.on \in Alone => \A g \in Handlers : request[g].on # q.on
    /\ request' = [request EXCEPT ![h] = q]
    /\ asked' = asked + 1
    /\ UNCHANGED <<named, record, audit, wallet, documents, files>>

LEMMA ArrivalBegins ==
  ASSUME TypeOK, NEW h \in Handlers, NEW r, Arrival(h, r)
  PROVE  \E q : Begun(h, q)
<1> DEFINE q == [r EXCEPT !.id = asked + 1]
<1>1. r \in Request
  BY DEF Arrival, Opening
<1>2. asked + 1 \in Nat
  BY DEF TypeOK
<1>3. q \in Request
  BY <1>1, <1>2 DEF Request
<1>4. /\ q.op = r.op /\ q.phase = r.phase /\ q.on = r.on /\ q.name = r.name /\ q.row = r.row
      /\ q.before = r.before /\ q.patch = r.patch /\ q.seen = r.seen /\ q.id = asked + 1
  BY <1>1 DEF Request
<1>5. request' = [request EXCEPT ![h] = q] /\ asked' = asked + 1 /\ request[h] = Idle
      /\ (r.on \in Alone => \A g \in Handlers : request[g].on # r.on)
      /\ UNCHANGED <<named, record, audit, wallet, documents, files>>
  BY DEF Arrival, Begin
<1> HIDE DEF q
<1>6. Formed(q)
  BY <1>4 DEF Arrival, Opening, Formed, FormedInsert, FormedEdit, FormedUpload
<1>7. Opening(q)
  BY <1>3, <1>4, <1>6 DEF Arrival, Opening
<1>8. Looked(q)
  BY <1>4 DEF Arrival, Looked
<1>9. Begun(h, q)
  BY <1>4, <1>5, <1>7, <1>8 DEF Begun
<1> QED BY <1>9

LEMMA ARequestIsTyped ==
  ASSUME TypeInvariant, NEW h \in Handlers
  PROVE  request[h] \in Request /\ Formed(request[h])
BY DEF TypeInvariant, TypeOK

LEMMA PatchTyped ==
  ASSUME NEW p \in Patches, NEW f \in DOMAIN p
  PROVE  p[f] \in Values /\ f \in Fields
BY RecordsAssumption DEF Values

LEMMA AfterTyped ==
  ASSUME NEW r, r.patch \in Patches, r.before \in Rows
  PROVE  After(r) \in Rows
BY PatchTyped DEF After, Rows

\* A step that only sets one handler's request.
LEMMA OneRequestTyped ==
  ASSUME TypeInvariant, NEW h \in Handlers, NEW q \in Request, Formed(q),
         request' = [request EXCEPT ![h] = q], asked' \in Nat,
         UNCHANGED <<named, record, audit, wallet, documents, files>>
  PROVE  TypeInvariant'
BY DEF TypeInvariant, TypeOK

\* What a request keeps on its way.
Keeps(q, r) ==
    /\ q.op = r.op /\ q.on = r.on /\ q.id = r.id
    /\ q.name = r.name /\ q.row = r.row /\ q.patch = r.patch /\ q.seen = r.seen

LEMMA PhaseMoves ==
  ASSUME TypeInvariant, NEW h \in Handlers, NEW p \in {"partial", "stored", "written"},
         request' = [request EXCEPT ![h].phase = p],
         \/ request[h].op = "upload"
         \/ p = "written" /\ request[h].op = "insert"
         \/ p = "written" /\ request[h].op = "edit" /\ request[h].phase = "read"
  PROVE  \E q \in Request : /\ Formed(q) /\ Keeps(q, request[h])
                            /\ q.phase = p /\ q.before = request[h].before
                            /\ request' = [request EXCEPT ![h] = q]
<1> DEFINE q == [request[h] EXCEPT !.phase = p]
<1>1. q \in Request
  BY ARequestIsTyped, Vocabulary DEF Request
<1>2. request' = [request EXCEPT ![h] = q]
  OBVIOUS
<1>3. Keeps(q, request[h]) /\ q.phase = p /\ q.before = request[h].before
  BY ARequestIsTyped DEF Request, Keeps
<1> HIDE DEF q
<1>4. Formed(q)
  BY <1>3, ARequestIsTyped DEF Keeps, Formed, FormedInsert, FormedEdit, FormedUpload
<1> QED BY <1>1, <1>2, <1>3, <1>4

LEMMA ReadSets ==
  ASSUME TypeInvariant, NEW h \in Handlers, Read(h)
  PROVE  \E q \in Request : /\ Formed(q) /\ Keeps(q, request[h])
                            /\ request[h].on \in Edited
                            /\ q.phase = "read" /\ q.before = record[request[h].on]
                            /\ Valid(q.on, q)
                            /\ request' = [request EXCEPT ![h] = q]
<1> DEFINE q == [request[h] EXCEPT !.before = record[request[h].on], !.phase = "read"]
<1>1. request[h].on \in Edited /\ request[h].patch \in Patches
  BY ARequestIsTyped DEF Read, Formed, FormedEdit
<1>2. record[request[h].on] \in Rows
  BY <1>1 DEF TypeInvariant, TypeOK
<1>3. q \in Request
  BY ARequestIsTyped, Vocabulary, <1>2 DEF Request
<1>4. request' = [request EXCEPT ![h] = q] /\ Valid(q.on, q) /\ request[h].op = "edit"
  BY DEF Read
<1>5. Keeps(q, request[h]) /\ q.phase = "read" /\ q.before = record[request[h].on]
  BY ARequestIsTyped DEF Request, Keeps
<1> HIDE DEF q
<1>6. Formed(q)
  BY <1>1, <1>2, <1>4, <1>5 DEF Keeps, Formed, FormedEdit
<1> QED BY <1>1, <1>3, <1>4, <1>5, <1>6

\* A step that ends a request and leaves rows of the right kind.
LEMMA EndedTyped ==
  ASSUME TypeInvariant, NEW h \in Handlers, request' = [request EXCEPT ![h] = Idle],
         asked' = asked,
         named' \in SUBSET NamedRow, \A r \in named' : r.kind \in Keyed => r.name \in Names,
         record' \in [Edited -> Rows], audit' \in Seq(Entry), wallet' \in SUBSET Nat,
         documents' \in SUBSET DocumentRows, files' \in SUBSET File
  PROVE  TypeInvariant'
BY IdleTyped DEF TypeInvariant, TypeOK

\* The row an insertion leaves.
RowOf(r) == [kind |-> r.on, name |-> r.name,
             by |-> IF r.row = {} THEN r.id ELSE (CHOOSE x \in r.row : TRUE).by]

LEMMA RowTyped ==
  ASSUME NEW r \in Request, FormedInsert(r)
  PROVE  /\ RowOf(r) \in NamedRow /\ (r.on \in Keyed => RowOf(r).name \in Names)
         /\ RowOf(r).kind = r.on /\ RowOf(r).name = r.name
<1>1. (IF r.row = {} THEN r.id ELSE (CHOOSE x \in r.row : TRUE).by) \in Nat
  <2>1. CASE r.row = {}
    BY <2>1 DEF Request
  <2>2. CASE r.row # {}
    <3> DEFINE x == CHOOSE x \in r.row : TRUE
    <3>1. x \in r.row
      BY <2>2
    <3>2. x \in NamedRow
      BY <3>1 DEF Request
    <3> QED BY <3>2, <2>2 DEF NamedRow
  <2> QED BY <2>1, <2>2
<1> QED BY <1>1 DEF RowOf, NamedRow, FormedInsert, Request

\* The values an edit leaves.
Edits(e, r) == [f \in Fields |-> IF f \in Changed(r) THEN r.patch[f] ELSE record[e][f]]

LEMMA EditsTyped ==
  ASSUME TypeOK, NEW e \in Edited, NEW r, r.patch \in Patches
  PROVE  Edits(e, r) \in Rows
BY PatchTyped DEF Edits, Changed, Rows, TypeOK

LEMMA CommitEditMeans ==
  ASSUME TypeInvariant, NEW h \in Handlers, CommitEdit(h)
  PROVE  LET r == request[h] IN
         /\ r.op = "edit" /\ r.phase = "written" /\ r.on \in Edited
         /\ r.patch \in Patches /\ r.before \in Rows
         /\ record' = [record EXCEPT ![r.on] = Edits(r.on, r)]
         /\ audit' = Append(audit, AuditEntry(r)) /\ AuditEntry(r) \in Entry
         /\ request' = [request EXCEPT ![h] = Idle]
         /\ UNCHANGED <<named, wallet, documents, files, asked>>
<1> DEFINE r == request[h]
<1>1. /\ r.op = "edit" /\ r.phase = "written" /\ r.on \in Edited
      /\ r.patch \in Patches /\ r.before \in Rows
  BY ARequestIsTyped DEF CommitEdit, Formed, FormedEdit
<1>2. record' = [record EXCEPT ![r.on] = Edits(r.on, r)]
  BY DEF CommitEdit, Edits
<1>3. AuditEntry(r) \in Entry
  BY <1>1, AfterTyped DEF AuditEntry, Entry
<1> QED BY <1>1, <1>2, <1>3 DEF CommitEdit

LEMMA TypesHold ==
  ASSUME TypeInvariant, [Next]_vars
  PROVE  TypeInvariant'
<1>1. CASE UNCHANGED recordVars
  BY <1>1 DEF recordVars, TypeInvariant, TypeOK
<1>2. ASSUME NEW h \in Handlers, \E r : Arrival(h, r)
      PROVE  TypeInvariant'
  <2>1. PICK q : Begun(h, q)
    BY <1>2, ArrivalBegins DEF TypeInvariant
  <2>2. q \in Request /\ Formed(q) /\ asked' \in Nat
    BY <2>1 DEF Begun, Opening, TypeInvariant, TypeOK
  <2> QED BY <2>1, <2>2, OneRequestTyped DEF Begun
<1>3. ASSUME NEW h \in Handlers, Proceeding(h)
      PROVE  TypeInvariant'
  <2>0. asked \in Nat
    BY DEF TypeInvariant, TypeOK
  <2>1. CASE Fail(h)
    BY <2>1, <2>0, IdleTyped, OneRequestTyped DEF Fail
  <2>2. CASE Write(h)
    BY <2>2, <2>0, PhaseMoves, OneRequestTyped DEF Write
  <2>3. CASE Commit(h)
    <3>1. FormedInsert(request[h]) /\ request[h] \in Request
      BY <2>3, ARequestIsTyped DEF Commit, Formed
    <3>2. named' = (named \ request[h].row) \cup {RowOf(request[h])}
      BY <2>3 DEF Commit, RowOf
    <3>3. \A r \in named' : r \in NamedRow /\ (r.kind \in Keyed => r.name \in Names)
      BY <3>1, <3>2, RowTyped DEF TypeInvariant, TypeOK
    <3> QED BY <2>3, <3>3, EndedTyped DEF Commit, TypeInvariant, TypeOK
  <2>4. CASE Read(h)
    BY <2>4, <2>0, ReadSets, OneRequestTyped DEF Read
  <2>5. CASE WriteEdit(h)
    BY <2>5, <2>0, PhaseMoves, OneRequestTyped DEF WriteEdit
  <2>6. CASE CommitEdit(h)
    <3>1. record' \in [Edited -> Rows]
      BY <2>6, CommitEditMeans, EditsTyped DEF TypeInvariant, TypeOK
    <3>2. audit' \in Seq(Entry)
      <4>1. audit' = Append(audit, AuditEntry(request[h])) /\ AuditEntry(request[h]) \in Entry
        BY <2>6, CommitEditMeans
      <4> QED BY <4>1 DEF TypeInvariant, TypeOK
    <3> QED BY <2>6, <3>1, <3>2, CommitEditMeans, EndedTyped DEF TypeInvariant, TypeOK
  <2>7. CASE CommitSimulate(h)
    <3>1. request[h].id \in Nat
      BY ARequestIsTyped DEF Request
    <3> QED BY <2>7, <3>1, EndedTyped DEF CommitSimulate, TypeInvariant, TypeOK
  <2>8. CASE Store(h)
    <3>1. request[h].id \in Nat
      BY ARequestIsTyped DEF Request
    <3>2. files' \in SUBSET File
      <4> DEFINE whole == [name |-> request[h].id, complete |-> TRUE]
                 part == [name |-> request[h].id, complete |-> FALSE]
      <4>1. whole \in File /\ part \in File
        BY <3>1 DEF File
      <4>2. files' = files \cup {part} \/ files' = (files \ {part}) \cup {whole}
        BY <2>8 DEF Store, FileOf
      <4> HIDE DEF whole, part
      <4> QED BY <4>1, <4>2 DEF TypeInvariant, TypeOK
    <3>3. \E q \in Request : Formed(q) /\ request' = [request EXCEPT ![h] = q]
      BY <2>8, PhaseMoves DEF Store
    <3> QED BY <2>8, <3>2, <3>3 DEF Store, TypeInvariant, TypeOK
  <2>9. CASE Flush(h)
    <3>1. files' \in SUBSET File
      BY <2>9 DEF Flush, TypeInvariant, TypeOK
    <3>2. \E q \in Request : Formed(q) /\ request' = [request EXCEPT ![h] = q]
      BY <2>9, PhaseMoves, IdleTyped DEF Flush
    <3> QED BY <2>9, <3>1, <3>2 DEF Flush, TypeInvariant, TypeOK
  <2>10. CASE CommitDocument(h)
    <3>1. request[h].id \in Nat /\ request[h].on \in Scans
      BY <2>10, ARequestIsTyped DEF CommitDocument, Request, Formed, FormedUpload
    <3>2. documents' \in SUBSET DocumentRows
      BY <2>10, <3>1 DEF CommitDocument, DocumentRow, FileOf, DocumentRows, TypeInvariant, TypeOK
    <3> QED BY <2>10, <3>2, EndedTyped DEF CommitDocument, TypeInvariant, TypeOK
  <2> QED BY <1>3, <2>1, <2>2, <2>3, <2>4, <2>5, <2>6, <2>7, <2>8, <2>9, <2>10 DEF Proceeding
<1> QED BY <1>1, <1>2, <1>3, StepCases

LEMMA TypesInit ==
  ASSUME Init
  PROVE  TypeInvariant
<1>1. \A h \in Handlers : request[h] = Idle
  BY DEF Init
<1>2. audit \in Seq(Entry)
  BY DEF Init
<1> QED BY <1>1, <1>2, IdleTyped, UneditedTyped DEF Init, TypeInvariant, TypeOK

\* Type correctness: every variable has its type in every behaviour, and a
\* request carries what the handler it stands for has computed by then
\* (every handler of the applicant, organization, product and role modules).
THEOREM RecordsTypeCorrect == Spec => []TypeInvariant
BY TypesInit, TypesHold, PTL DEF Spec

(***************************************************************************)
(* Names.  The look before the write is not locked, so what it found may   *)
(* be gone by the write: the argument is about keys that are written and   *)
(* not yet committed.                                                      *)
(***************************************************************************)
Holding(r) == r.op = "insert" /\ r.phase = "written" /\ r.on \in Keyed

\* Rows of a kind differ in their key, codes are normalised, and so they will
\* be when the requests under way are through.
KeysDistinct ==
    \A r, s \in named :
        r.kind \in Keyed /\ r.kind = s.kind /\ r # s =>
            IndexKey(r.kind, r.name) # IndexKey(s.kind, s.name)

Normal(kind, n) ==
    /\ kind \in {"branch", "product"} => Upper[n] = n
    /\ kind = "role" => Upper[n] \notin Reserved

NamesNormal ==
    /\ \A r \in named : Normal(r.kind, r.name)
    /\ \A h \in Handlers : request[h].op = "insert" => Normal(request[h].on, request[h].name)

KeysHeld ==
    /\ \A h \in Handlers :
           Holding(request[h]) => ~Taken(request[h].on, request[h].name, request[h].row)
    /\ \A g, h \in Handlers :
           /\ Holding(request[g]) /\ Holding(request[h]) /\ request[g].on = request[h].on
           /\ IndexKey(request[g].on, request[g].name) = IndexKey(request[h].on, request[h].name)
           => g = h

NamesInvariant == KeysDistinct /\ NamesNormal /\ KeysHeld

\* A step that sets one request and no row, to one that holds no key.
LEMMA NoKeyTaken ==
  ASSUME TypeInvariant, NamesInvariant, NEW h \in Handlers, NEW q,
         q.op = "insert" => Normal(q.on, q.name), ~Holding(q),
         request' = [request EXCEPT ![h] = q], named' = named
  PROVE  NamesInvariant'
<1>1. \A g \in Handlers : request'[g] = IF g = h THEN q ELSE request[g]
  BY DEF TypeInvariant, TypeOK
<1>2. KeysDistinct'
  BY DEF NamesInvariant, KeysDistinct
<1>3. NamesNormal'
  BY <1>1 DEF NamesInvariant, NamesNormal
<1>4. KeysHeld'
  BY <1>1 DEF NamesInvariant, KeysHeld, Taken
<1> QED BY <1>2, <1>3, <1>4 DEF NamesInvariant

LEMMA WriteTakesAKey ==
  ASSUME TypeInvariant, NamesInvariant, NEW h \in Handlers, Write(h)
  PROVE  NamesInvariant'
<1>1. PICK q \in Request : /\ Keeps(q, request[h]) /\ q.phase = "written"
                           /\ request' = [request EXCEPT ![h] = q]
  BY PhaseMoves DEF Write
<1>2. /\ q.op = request[h].op /\ q.phase = "written" /\ q.on = request[h].on
      /\ q.name = request[h].name /\ q.row = request[h].row
  BY <1>1 DEF Keeps
<1>3. \A g \in Handlers : request'[g] = IF g = h THEN q ELSE request[g]
  BY <1>1 DEF TypeInvariant, TypeOK
<1>4. named' = named /\ request[h].op = "insert"
  BY DEF Write
<1>5. KeysDistinct'
  BY <1>4 DEF NamesInvariant, KeysDistinct
<1>6. NamesNormal'
  BY <1>2, <1>3, <1>4 DEF NamesInvariant, NamesNormal
<1>7. Holding(q) => /\ ~Taken(q.on, q.name, q.row)
                    /\ \A g \in Handlers :
                          Holding(request[g]) /\ request[g].on = q.on =>
                              IndexKey(q.on, request[g].name) # IndexKey(q.on, q.name)
  BY <1>2 DEF Write, Holding
<1>8. KeysHeld'
  <2>1. ASSUME NEW g \in Handlers, Holding(request'[g]),
               NEW s \in named' \ request'[g].row, s.kind = request'[g].on,
               IndexKey(request'[g].on, s.name) = IndexKey(request'[g].on, request'[g].name)
        PROVE  FALSE
    BY <2>1, <1>3, <1>4, <1>7 DEF NamesInvariant, KeysHeld, Taken
  <2>2. ASSUME NEW g \in Handlers, NEW k \in Handlers,
               Holding(request'[g]), Holding(request'[k]), request'[g].on = request'[k].on,
               IndexKey(request'[g].on, request'[g].name) = IndexKey(request'[k].on, request'[k].name)
        PROVE  g = k
    BY <2>2, <1>3, <1>7 DEF NamesInvariant, KeysHeld
  <2> QED BY <2>1, <2>2 DEF KeysHeld, Holding, Taken
<1> QED BY <1>5, <1>6, <1>8 DEF NamesInvariant

LEMMA CommitKeepsKeys ==
  ASSUME TypeInvariant, NamesInvariant, NEW h \in Handlers, Commit(h)
  PROVE  NamesInvariant'
<1> DEFINE r == request[h]
           new == RowOf(r)
<1>1. r \in Request /\ FormedInsert(r) /\ r.op = "insert" /\ r.phase = "written"
  BY ARequestIsTyped DEF Commit, Formed
<1>2. new.kind = r.on /\ new.name = r.name
  BY <1>1, RowTyped
<1>3. named' = (named \ r.row) \cup {new}
  BY DEF Commit, RowOf
<1>4. \A g \in Handlers : request'[g] = IF g = h THEN Idle ELSE request[g]
  BY DEF Commit, TypeInvariant, TypeOK
<1>5. r.on \in Keyed =>
          \A s \in named \ r.row : s.kind = r.on => IndexKey(r.on, s.name) # IndexKey(r.on, r.name)
  BY <1>1 DEF NamesInvariant, KeysHeld, Holding, Taken
<1> HIDE DEF new, r
<1>6. KeysDistinct'
  BY <1>2, <1>3, <1>5 DEF NamesInvariant, KeysDistinct
<1>7. Normal(r.on, r.name)
  BY <1>1 DEF NamesInvariant, NamesNormal, r
<1>8. NamesNormal'
  BY <1>2, <1>3, <1>4, <1>7, IdleTyped DEF NamesInvariant, NamesNormal
<1>9. KeysHeld'
  <2>1. ASSUME NEW g \in Handlers, Holding(request'[g]),
               NEW s \in named' \ request'[g].row, s.kind = request'[g].on,
               IndexKey(request'[g].on, s.name) = IndexKey(request'[g].on, request'[g].name)
        PROVE  FALSE
    <3>1. g # h /\ request'[g] = request[g] /\ Holding(request[g])
      BY <2>1, <1>4, IdleTyped DEF Holding
    <3>2. CASE s \in named
      BY <3>1, <3>2, <2>1 DEF NamesInvariant, KeysHeld, Taken
    <3>3. CASE s = new
      <4>1. r.on = request[g].on /\ Holding(r)
        BY <3>1, <3>3, <2>1, <1>1, <1>2 DEF Holding
      <4> QED BY <4>1, <3>1, <3>3, <2>1, <1>2 DEF NamesInvariant, KeysHeld, r
    <3> QED BY <3>2, <3>3, <1>3
  <2>2. ASSUME NEW g \in Handlers, NEW k \in Handlers,
               Holding(request'[g]), Holding(request'[k]), request'[g].on = request'[k].on,
               IndexKey(request'[g].on, request'[g].name) = IndexKey(request'[k].on, request'[k].name)
        PROVE  g = k
    BY <2>2, <1>4, IdleTyped DEF NamesInvariant, KeysHeld, Holding
  <2> QED BY <2>1, <2>2 DEF KeysHeld, Holding, Taken
<1> QED BY <1>6, <1>8, <1>9 DEF NamesInvariant

LEMMA NamesHold ==
  ASSUME TypeInvariant, NamesInvariant, [Next]_vars
  PROVE  NamesInvariant'
<1>1. CASE UNCHANGED recordVars
  BY <1>1 DEF recordVars, NamesInvariant, KeysDistinct, NamesNormal, KeysHeld, Taken
<1>2. ASSUME NEW h \in Handlers, \E r : Arrival(h, r)
      PROVE  NamesInvariant'
  <2>1. PICK q : Begun(h, q)
    BY <1>2, ArrivalBegins DEF TypeInvariant
  <2>2. q.op = "insert" => Normal(q.on, q.name)
    BY <2>1 DEF Begun, Looked, Normal, NamesInvariant, NamesNormal
  <2> QED BY <2>1, <2>2, NoKeyTaken DEF Begun, Opening, Holding
<1>3. ASSUME NEW h \in Handlers, Proceeding(h)
      PROVE  NamesInvariant'
  <2>0. ~Holding(Idle) /\ Idle.op # "insert"
    BY IdleTyped DEF Holding
  <2>1. CASE Fail(h)
    BY <2>1, <2>0, NoKeyTaken DEF Fail
  <2>2. CASE Write(h)
    BY <2>2, WriteTakesAKey
  <2>3. CASE Commit(h)
    BY <2>3, CommitKeepsKeys
  <2>4. CASE Read(h) \/ WriteEdit(h)
    <3>1. PICK q \in Request : /\ q.op = request[h].op
                               /\ request' = [request EXCEPT ![h] = q]
      <4>1. CASE Read(h)
        BY <4>1, ReadSets DEF Keeps
      <4>2. CASE WriteEdit(h)
        BY <4>2, PhaseMoves DEF Keeps, WriteEdit
      <4> QED BY <4>1, <4>2, <2>4
    <3>2. request[h].op = "edit" /\ named' = named
      BY <2>4 DEF Read, WriteEdit
    <3> QED BY <3>1, <3>2, NoKeyTaken DEF Holding
  <2>5. CASE CommitEdit(h) \/ CommitSimulate(h) \/ CommitDocument(h)
    BY <2>5, <2>0, NoKeyTaken DEF CommitEdit, CommitSimulate, CommitDocument
  <2>6. CASE Store(h) \/ Flush(h)
    <3>1. PICK q \in Request : /\ q.op # "insert"
                               /\ request' = [request EXCEPT ![h] = q]
      <4>1. request[h].op = "upload"
        BY <2>6 DEF Store, Flush
      <4>2. \/ request' = [request EXCEPT ![h] = Idle]
            \/ \E p \in {"partial", "stored", "written"} : request' = [request EXCEPT ![h].phase = p]
        BY <2>6 DEF Store, Flush
      <4>3. CASE request' = [request EXCEPT ![h] = Idle]
        BY <4>3, IdleTyped
      <4>4. ASSUME NEW p \in {"partial", "stored", "written"},
                   request' = [request EXCEPT ![h].phase = p]
            PROVE  \E q \in Request : q.op # "insert" /\ request' = [request EXCEPT ![h] = q]
        BY <4>1, <4>4, PhaseMoves, ZenonT(60) DEF Keeps
      <4> QED BY <4>2, <4>3, <4>4
    <3>2. named' = named
      BY <2>6 DEF Store, Flush
    <3> QED BY <3>1, <3>2, NoKeyTaken DEF Holding
  <2> QED BY <1>3, <2>1, <2>2, <2>3, <2>4, <2>5, <2>6 DEF Proceeding
<1> QED BY <1>1, <1>2, <1>3, StepCases

LEMMA NamesInit ==
  ASSUME Init
  PROVE  NamesInvariant
BY IdleTyped DEF Init, NamesInvariant, KeysDistinct, NamesNormal, KeysHeld, Holding, Taken

LEMMA DistinctNames ==
  ASSUME TypeInvariant, NamesInvariant
  PROVE  NamesDistinct
<1>1. ASSUME NEW r \in named, NEW s \in named, r.kind \in Keyed, r.kind = s.kind, r # s
      PROVE  r.name # s.name /\ (r.kind # "user" => Upper[r.name] # Upper[s.name])
  <2>1. IndexKey(r.kind, r.name) # IndexKey(r.kind, s.name)
    BY <1>1 DEF NamesInvariant, KeysDistinct
  <2>2. Normal(r.kind, r.name) /\ Normal(r.kind, s.name)
    BY <1>1 DEF NamesInvariant, NamesNormal
  <2> QED BY <1>1, <2>1, <2>2 DEF IndexKey, Normal, Keyed
<1>2. \A r \in named : r.kind = "role" => Upper[r.name] \notin Reserved
  BY DEF NamesInvariant, NamesNormal, Normal
<1> QED BY <1>1, <1>2 DEF NamesDistinct

\* No two rows of a kind go by one name, codes and role names whatever their
\* case, and no role by a system role's, however creations and renames overlap
\* (create_branch, create_product, create_role, update_role, create_user).
THEOREM NamesStayDistinct == Spec => []NamesDistinct
<1>1. Init => TypeInvariant /\ NamesInvariant
  BY TypesInit, NamesInit
<1>2. TypeInvariant /\ NamesInvariant /\ [Next]_vars => TypeInvariant' /\ NamesInvariant'
  BY TypesHold, NamesHold
<1>3. TypeInvariant /\ NamesInvariant => NamesDistinct
  BY DistinctNames
<1> QED BY <1>1, <1>2, <1>3, PTL DEF Spec

(***************************************************************************)
(* Audits.  What an edit will report is what it read, so the chain holds   *)
(* as long as nobody else commits between a read and its commit: the row   *)
(* lock for profiles, the absence of overlap for the rest.                 *)
(***************************************************************************)
Committing(r) == r.op = "edit" /\ r.phase \in {"read", "written"}
Chained == Alone \cup {"profile"}

OneAlone ==
    \A g, h \in Handlers :
        request[g].on \in Alone /\ request[g].on = request[h].on => g = h

OneProfile ==
    \A g, h \in Handlers :
        /\ Committing(request[g]) /\ request[g].on = "profile"
        /\ Committing(request[h]) /\ request[h].on = "profile"
        => g = h

SnapshotsFresh ==
    \A h \in Handlers :
        Committing(request[h]) /\ request[h].on \in Chained =>
            request[h].before = record[request[h].on]

EditInvariant == OneAlone /\ OneProfile /\ SnapshotsFresh

LEMMA OneCommitting ==
  ASSUME EditInvariant, NEW g \in Handlers, NEW h \in Handlers, g # h,
         Committing(request[g]), Committing(request[h]), request[g].on = request[h].on
  PROVE  request[h].on \notin Chained
BY DEF EditInvariant, OneAlone, OneProfile, Chained

\* A step that sets one request and no record, where the request stays with
\* its row and reads nothing.
LEMMA NothingRead ==
  ASSUME TypeInvariant, EditInvariant, NEW h \in Handlers, NEW q,
         q.on = request[h].on \/ q.on \notin Alone,
         Committing(q) => /\ Committing(request[h])
                          /\ q.on = request[h].on /\ q.before = request[h].before,
         request' = [request EXCEPT ![h] = q], record' = record
  PROVE  EditInvariant'
<1>1. \A g \in Handlers : request'[g] = IF g = h THEN q ELSE request[g]
  BY DEF TypeInvariant, TypeOK
<1>2. OneAlone'
  BY <1>1 DEF EditInvariant, OneAlone
<1>3. OneProfile'
  BY <1>1 DEF EditInvariant, OneProfile
<1>4. SnapshotsFresh'
  BY <1>1 DEF EditInvariant, SnapshotsFresh
<1> QED BY <1>2, <1>3, <1>4 DEF EditInvariant

LEMMA IdleReadsNothing ==
  ~Committing(Idle) /\ Idle.on \notin Alone
BY IdleTyped, RecordsAssumption DEF Committing, Edited

LEMMA ArrivalReadsNothing ==
  ASSUME TypeInvariant, EditInvariant, NEW h \in Handlers, NEW q, Begun(h, q)
  PROVE  EditInvariant'
<1>1. \A g \in Handlers : request'[g] = IF g = h THEN q ELSE request[g]
  BY DEF Begun, TypeInvariant, TypeOK
<1>2. ~Committing(q)
  BY DEF Begun, Opening, Committing
<1>3. OneAlone'
  BY <1>1 DEF Begun, EditInvariant, OneAlone
<1>4. OneProfile'
  BY <1>1, <1>2 DEF EditInvariant, OneProfile
<1>5. SnapshotsFresh'
  BY <1>1, <1>2 DEF Begun, EditInvariant, SnapshotsFresh
<1> QED BY <1>3, <1>4, <1>5 DEF EditInvariant

LEMMA ReadIsFresh ==
  ASSUME TypeInvariant, EditInvariant, NEW h \in Handlers, Read(h)
  PROVE  EditInvariant'
<1>1. PICK q \in Request : /\ Keeps(q, request[h]) /\ q.phase = "read"
                           /\ q.before = record[request[h].on]
                           /\ request' = [request EXCEPT ![h] = q]
  BY ReadSets
<1>2. \A g \in Handlers : request'[g] = IF g = h THEN q ELSE request[g]
  BY <1>1 DEF TypeInvariant, TypeOK
<1>3. record' = record
  BY DEF Read
<1>4. OneAlone'
  BY <1>1, <1>2 DEF Keeps, EditInvariant, OneAlone
<1>5. OneProfile'
  <2>1. request[h].on = "profile" =>
            \A g \in Handlers \ {h} : ~(Committing(request[g]) /\ request[g].on = "profile")
    BY DEF Read, RowFree, Holds, Committing
  <2> QED BY <2>1, <1>1, <1>2 DEF Keeps, EditInvariant, OneProfile
<1>6. SnapshotsFresh'
  BY <1>1, <1>2, <1>3 DEF Keeps, EditInvariant, SnapshotsFresh
<1> QED BY <1>4, <1>5, <1>6 DEF EditInvariant

\* What is committed of an edit whose snapshot is still the row's.
LEMMA EditsOfASnapshot ==
  ASSUME TypeOK, NEW e \in Edited, NEW r, r.patch \in Patches, r.before = record[e]
  PROVE  Edits(e, r) = After(r)
BY RecordsAssumption DEF Edits, After, Changed

LEMMA CommitKeepsFresh ==
  ASSUME TypeInvariant, EditInvariant, NEW h \in Handlers, CommitEdit(h)
  PROVE  EditInvariant'
<1> DEFINE e == request[h].on
<1>1. /\ request[h].op = "edit" /\ request[h].phase = "written" /\ e \in Edited
      /\ record' = [record EXCEPT ![e] = Edits(e, request[h])]
      /\ request' = [request EXCEPT ![h] = Idle]
  BY CommitEditMeans
<1>2. \A g \in Handlers : request'[g] = IF g = h THEN Idle ELSE request[g]
  BY <1>1 DEF TypeInvariant, TypeOK
<1>3. \A x : x # e => record'[x] = record[x]
  BY <1>1 DEF TypeInvariant, TypeOK
<1>4. Committing(request[h])
  BY <1>1 DEF Committing
<1>5. OneAlone' /\ OneProfile'
  BY <1>2, IdleReadsNothing DEF EditInvariant, OneAlone, OneProfile
<1>6. SnapshotsFresh'
  <2>1. ASSUME NEW g \in Handlers, Committing(request'[g]), request'[g].on \in Chained
        PROVE  request'[g].before = record'[request'[g].on]
    <3>1. g # h /\ request'[g] = request[g]
      BY <2>1, <1>2, IdleReadsNothing
    <3>2. request[g].on # e
      BY <3>1, <2>1, <1>4, OneCommitting
    <3> QED BY <3>1, <3>2, <2>1, <1>3 DEF EditInvariant, SnapshotsFresh
  <2> QED BY <2>1 DEF SnapshotsFresh, Committing
<1> QED BY <1>5, <1>6 DEF EditInvariant

LEMMA StoringReadsNothing ==
  ASSUME TypeInvariant, EditInvariant, NEW h \in Handlers, Store(h) \/ Flush(h)
  PROVE  EditInvariant'
<1>1. request[h].op = "upload" /\ record' = record
  BY DEF Store, Flush
<1>2. CASE request' = [request EXCEPT ![h] = Idle]
  BY <1>1, <1>2, IdleReadsNothing, NothingRead
<1>3. ASSUME NEW p \in {"partial", "stored", "written"},
             request' = [request EXCEPT ![h].phase = p]
      PROVE  EditInvariant'
  <2>1. PICK q \in Request : Keeps(q, request[h]) /\ request' = [request EXCEPT ![h] = q]
    BY <1>1, <1>3, PhaseMoves
  <2> QED BY <1>1, <2>1, NothingRead DEF Keeps, Committing
<1>4. \/ request' = [request EXCEPT ![h] = Idle]
      \/ \E p \in {"partial", "stored", "written"} : request' = [request EXCEPT ![h].phase = p]
  BY DEF Store, Flush
<1> QED BY <1>2, <1>3, <1>4

LEMMA EditsHold ==
  ASSUME TypeInvariant, EditInvariant, [Next]_vars
  PROVE  EditInvariant'
<1>1. CASE UNCHANGED recordVars
  BY <1>1 DEF recordVars, EditInvariant, OneAlone, OneProfile, SnapshotsFresh
<1>2. ASSUME NEW h \in Handlers, \E r : Arrival(h, r)
      PROVE  EditInvariant'
  BY <1>2, ArrivalBegins, ArrivalReadsNothing DEF TypeInvariant
<1>3. ASSUME NEW h \in Handlers, Proceeding(h)
      PROVE  EditInvariant'
  <2>1. CASE Fail(h) \/ Commit(h) \/ CommitSimulate(h) \/ CommitDocument(h)
    BY <2>1, IdleReadsNothing, NothingRead DEF Fail, Commit, CommitSimulate, CommitDocument
  <2>2. CASE Write(h)
    <3>1. request[h].op = "insert" /\ record' = record
      BY <2>2 DEF Write
    <3>2. PICK q \in Request : Keeps(q, request[h]) /\ request' = [request EXCEPT ![h] = q]
      BY <2>2, PhaseMoves DEF Write
    <3> QED BY <3>1, <3>2, NothingRead DEF Keeps, Committing
  <2>3. CASE WriteEdit(h)
    <3>1. Committing(request[h]) /\ record' = record
      BY <2>3 DEF WriteEdit, Committing
    <3>2. PICK q \in Request : /\ Keeps(q, request[h]) /\ q.before = request[h].before
                               /\ request' = [request EXCEPT ![h] = q]
      BY <2>3, PhaseMoves DEF WriteEdit
    <3> QED BY <3>1, <3>2, NothingRead DEF Keeps
  <2>4. CASE Read(h)
    BY <2>4, ReadIsFresh
  <2>5. CASE CommitEdit(h)
    BY <2>5, CommitKeepsFresh
  <2>6. CASE Store(h) \/ Flush(h)
    BY <2>6, StoringReadsNothing
  <2> QED BY <1>3, <2>1, <2>2, <2>3, <2>4, <2>5, <2>6 DEF Proceeding
<1> QED BY <1>1, <1>2, <1>3, StepCases

LEMMA EditsInit ==
  ASSUME Init
  PROVE  EditInvariant
BY IdleReadsNothing DEF Init, EditInvariant, OneAlone, OneProfile, SnapshotsFresh

(***************************************************************************)
(* The chain of a row's changes, of a log.                                 *)
(***************************************************************************)
StartsIn(log, e, i, value) ==
    \/ value = Unedited /\ \A j \in 1..(i - 1) : log[j].row # e
    \/ \E j \in 1..(i - 1) :
           /\ log[j].row = e /\ log[j].after = value
           /\ \A k \in (j + 1)..(i - 1) : log[k].row # e

Chain(log, e, value) ==
    /\ \A i \in 1..Len(log) : log[i].row = e => StartsIn(log, e, i, log[i].before)
    /\ StartsIn(log, e, Len(log) + 1, value)

\* A change that starts from the row's value, or is of another row, keeps the
\* chain.
LEMMA ChainGrows ==
  ASSUME NEW log \in Seq(Entry), NEW en \in Entry, NEW e, NEW value, NEW next,
         Chain(log, e, value),
         en.row = e => en.before = value /\ next = en.after,
         en.row # e => next = value
  PROVE  Chain(Append(log, en), e, next)
<1> DEFINE n == Len(log)
           l == Append(log, en)
<1>1. n \in Nat /\ Len(l) = n + 1 /\ l[n + 1] = en /\ \A i \in 1..n : l[i] = log[i]
  OBVIOUS
<1> HIDE DEF l, n
<1>2. ASSUME NEW i \in 1..(n + 1), NEW v, StartsIn(log, e, i, v)
      PROVE  StartsIn(l, e, i, v)
  <2>1. CASE v = Unedited /\ \A j \in 1..(i - 1) : log[j].row # e
    BY <2>1, <1>1 DEF StartsIn
  <2>2. CASE \E j \in 1..(i - 1) : /\ log[j].row = e /\ log[j].after = v
                                   /\ \A k \in (j + 1)..(i - 1) : log[k].row # e
    <3>1. PICK j \in 1..(i - 1) : /\ log[j].row = e /\ log[j].after = v
                                  /\ \A k \in (j + 1)..(i - 1) : log[k].row # e
      BY <2>2
    <3>2. j \in 1..n /\ \A k \in (j + 1)..(i - 1) : k \in 1..n
      BY <1>1
    <3>3. l[j].row = e /\ l[j].after = v /\ \A k \in (j + 1)..(i - 1) : l[k].row # e
      BY <3>1, <3>2, <1>1
    <3> QED BY <3>3 DEF StartsIn
  <2> QED BY <1>2, <2>1, <2>2 DEF StartsIn
<1>3. ASSUME NEW i \in 1..(n + 1), l[i].row = e
      PROVE  StartsIn(l, e, i, l[i].before)
  <2>1. CASE i \in 1..n
    BY <2>1, <1>3, <1>2, <1>1 DEF Chain, n
  <2>2. CASE i = n + 1
    BY <2>2, <1>3, <1>2, <1>1 DEF Chain, n
  <2> QED BY <2>1, <2>2, <1>1
<1>4. StartsIn(l, e, n + 2, next)
  <2>1. CASE en.row = e
    <3>1. n + 1 \in 1..((n + 2) - 1) /\ \A k \in ((n + 1) + 1)..((n + 2) - 1) : l[k].row # e
      BY <1>1
    <3> QED BY <3>1, <2>1, <1>1 DEF StartsIn
  <2>2. CASE en.row # e
    <3>1. StartsIn(l, e, n + 1, value)
      BY <1>1, <1>2 DEF Chain, n
    <3>2. l[n + 1].row # e /\ next = value /\ (n + 1) - 1 = n /\ (n + 2) - 1 = n + 1
      BY <2>2, <1>1
    <3>3. CASE value = Unedited /\ \A j \in 1..((n + 1) - 1) : l[j].row # e
      BY <3>2, <3>3, <1>1 DEF StartsIn
    <3>4. CASE \E j \in 1..((n + 1) - 1) : /\ l[j].row = e /\ l[j].after = value
                                           /\ \A k \in (j + 1)..((n + 1) - 1) : l[k].row # e
      <4>1. PICK j \in 1..n : /\ l[j].row = e /\ l[j].after = value
                              /\ \A k \in (j + 1)..n : l[k].row # e
        BY <3>2, <3>4
      <4>2. j \in 1..((n + 2) - 1) /\ \A k \in (j + 1)..((n + 2) - 1) : l[k].row # e
        BY <4>1, <3>2, <1>1
      <4> QED BY <4>1, <4>2, <3>2 DEF StartsIn
    <3> QED BY <3>1, <3>3, <3>4 DEF StartsIn
  <2> QED BY <2>1, <2>2
<1> QED BY <1>1, <1>3, <1>4 DEF Chain, l

ChainInvariant == \A e \in Edited : e \in Chained => Chain(audit, e, record[e])

LEMMA ChainsOfTheAudit ==
  ASSUME TypeInvariant
  PROVE  ChainInvariant <=> AuditChains
<1>1. DOMAIN audit = 1..Len(audit)
  BY DEF TypeInvariant, TypeOK
<1> QED BY <1>1 DEF ChainInvariant, AuditChains, Chained, Chain, StartsIn, StartsFrom

LEMMA CommitChains ==
  ASSUME TypeInvariant, EditInvariant, ChainInvariant, NEW h \in Handlers, CommitEdit(h)
  PROVE  ChainInvariant'
<1> DEFINE r == request[h]
<1>1. /\ r.op = "edit" /\ r.phase = "written" /\ r.on \in Edited
      /\ r.patch \in Patches /\ r.before \in Rows
      /\ record' = [record EXCEPT ![r.on] = Edits(r.on, r)]
      /\ audit' = Append(audit, AuditEntry(r)) /\ AuditEntry(r) \in Entry
  BY CommitEditMeans
<1>2. AuditEntry(r).row = r.on /\ AuditEntry(r).before = r.before
      /\ AuditEntry(r).after = After(r)
  BY DEF AuditEntry
<1>3. ASSUME NEW e \in Edited, e \in Chained
      PROVE  Chain(audit', e, record'[e])
  <2>1. audit \in Seq(Entry) /\ Chain(audit, e, record[e])
    BY <1>3 DEF TypeInvariant, TypeOK, ChainInvariant
  <2>2. CASE r.on = e
    <3>1. r.before = record[e]
      BY <1>1, <1>3, <2>2 DEF EditInvariant, SnapshotsFresh, Committing
    <3>2. record'[e] = After(r)
      BY <1>1, <2>2, <3>1, EditsOfASnapshot DEF TypeInvariant, TypeOK
    <3> HIDE DEF r
    <3> QED BY <1>1, <1>2, <2>1, <2>2, <3>1, <3>2, ChainGrows
  <2>3. CASE r.on # e
    <3>1. record'[e] = record[e]
      BY <1>1, <2>3 DEF TypeInvariant, TypeOK
    <3> HIDE DEF r
    <3> QED BY <1>1, <1>2, <2>1, <2>3, <3>1, ChainGrows
  <2> QED BY <2>2, <2>3
<1> QED BY <1>3 DEF ChainInvariant

\* The steps that leave the edited rows and their audit alone.
LEMMA NoEditCommitted ==
  ASSUME TypeInvariant, [Next]_vars, ~\E h \in Handlers : CommitEdit(h)
  PROVE  record' = record /\ audit' = audit
<1>1. CASE UNCHANGED recordVars
  BY <1>1 DEF recordVars
<1>2. CASE \E h \in Handlers : \E r : Arrival(h, r)
  BY <1>2 DEF Arrival
<1>3. CASE \E h \in Handlers : Proceeding(h)
  BY <1>3 DEF Proceeding, Fail, Write, Commit, Read, WriteEdit, CommitSimulate, Store,
     Flush, CommitDocument
<1> QED BY <1>1, <1>2, <1>3, StepCases

LEMMA ChainsHold ==
  ASSUME TypeInvariant, EditInvariant, ChainInvariant, [Next]_vars
  PROVE  ChainInvariant'
<1>1. CASE \E h \in Handlers : CommitEdit(h)
  BY <1>1, CommitChains
<1>2. CASE ~\E h \in Handlers : CommitEdit(h)
  BY <1>2, NoEditCommitted DEF ChainInvariant
<1> QED BY <1>1, <1>2

LEMMA ChainsInit ==
  ASSUME Init
  PROVE  ChainInvariant
BY DEF Init, ChainInvariant, Chain, StartsIn

\* Audited changes of a profile make a chain, whatever overlaps: each starts
\* from where the one before ended and the last is what is stored; other rows'
\* changes do as long as they do not overlap (update_profile, _audit_profile).
THEOREM AuditsChain == Spec => []AuditChains
<1>1. Init => TypeInvariant /\ EditInvariant /\ ChainInvariant
  BY TypesInit, EditsInit, ChainsInit
<1>2. TypeInvariant /\ EditInvariant /\ ChainInvariant /\ [Next]_vars
      => TypeInvariant' /\ EditInvariant' /\ ChainInvariant'
  BY TypesHold, EditsHold, ChainsHold
<1>3. TypeInvariant /\ ChainInvariant => AuditChains
  BY ChainsOfTheAudit
<1> QED BY <1>1, <1>2, <1>3, PTL DEF Spec

(***************************************************************************)
(* Limits in order and one batch of transactions, without overlap.         *)
(***************************************************************************)

\* What a request will leave of a product is in order ...
LimitsInvariant ==
    /\ \A h \in Handlers : Committing(request[h]) => Valid(request[h].on, request[h])
    /\ "product" \in Alone => record["product"].low <= record["product"].high

\* ... and a simulation has seen every batch.
WalletInvariant ==
    "wallet" \in Alone =>
        /\ \A h \in Handlers : request[h].op = "simulate" => request[h].seen = wallet
        /\ wallet = {} \/ \E i : wallet = {i}

LEMMA ValidIsKept ==
  ASSUME NEW q, NEW r, Valid(r.on, r), Keeps(q, r), q.before = r.before
  PROVE  Valid(q.on, q)
BY DEF Valid, Keeps, After

\* A step that sets one request, which commits no product limits but in order.
LEMMA LimitsKept ==
  ASSUME TypeInvariant, LimitsInvariant, NEW h \in Handlers, NEW q,
         Committing(q) => Valid(q.on, q),
         request' = [request EXCEPT ![h] = q], record' = record
  PROVE  LimitsInvariant'
<1>1. \A g \in Handlers : request'[g] = IF g = h THEN q ELSE request[g]
  BY DEF TypeInvariant, TypeOK
<1> QED BY <1>1 DEF LimitsInvariant

LEMMA CommitLeavesLimits ==
  ASSUME TypeInvariant, EditInvariant, LimitsInvariant, NEW h \in Handlers, CommitEdit(h)
  PROVE  LimitsInvariant'
<1> DEFINE r == request[h]
<1>1. /\ r.op = "edit" /\ r.phase = "written" /\ r.on \in Edited
      /\ r.patch \in Patches /\ r.before \in Rows
      /\ record' = [record EXCEPT ![r.on] = Edits(r.on, r)]
      /\ request' = [request EXCEPT ![h] = Idle]
  BY CommitEditMeans
<1>2. \A g \in Handlers : request'[g] = IF g = h THEN Idle ELSE request[g]
  BY <1>1 DEF TypeInvariant, TypeOK
<1>3. \A g \in Handlers : Committing(request'[g]) => Valid(request'[g].on, request'[g])
  BY <1>2, IdleReadsNothing DEF LimitsInvariant
<1>4. ASSUME "product" \in Alone
      PROVE  record'["product"].low <= record'["product"].high
  <2>1. CASE r.on = "product"
    <3>1. Committing(r) /\ r.on \in Chained
      BY <1>1, <1>4, <2>1 DEF Committing, Chained
    <3>2. r.before = record[r.on] /\ Valid(r.on, r)
      BY <3>1 DEF EditInvariant, SnapshotsFresh, LimitsInvariant
    <3>3. record'["product"] = After(r)
      BY <1>1, <2>1, <3>2, EditsOfASnapshot DEF TypeInvariant, TypeOK
    <3> HIDE DEF r
    <3> QED BY <2>1, <3>2, <3>3 DEF Valid
  <2>2. CASE r.on # "product"
    <3>1. record'["product"] = record["product"]
      BY <1>1, <2>2 DEF TypeInvariant, TypeOK
    <3> QED BY <3>1, <1>4 DEF LimitsInvariant
  <2> QED BY <2>1, <2>2
<1> QED BY <1>3, <1>4 DEF LimitsInvariant, Committing, Valid, After

LEMMA LimitsHold ==
  ASSUME TypeInvariant, EditInvariant, LimitsInvariant, [Next]_vars
  PROVE  LimitsInvariant'
<1>1. CASE UNCHANGED recordVars
  BY <1>1 DEF recordVars, LimitsInvariant, Committing, Valid, After
<1>2. ASSUME NEW h \in Handlers, \E r : Arrival(h, r)
      PROVE  LimitsInvariant'
  <2>1. PICK q : Begun(h, q)
    BY <1>2, ArrivalBegins DEF TypeInvariant
  <2>2. ~Committing(q)
    BY <2>1 DEF Begun, Opening, Committing
  <2> QED BY <2>1, <2>2, LimitsKept DEF Begun
<1>3. ASSUME NEW h \in Handlers, Proceeding(h)
      PROVE  LimitsInvariant'
  <2>1. CASE Fail(h) \/ Commit(h) \/ CommitSimulate(h) \/ CommitDocument(h)
    BY <2>1, IdleReadsNothing, LimitsKept DEF Fail, Commit, CommitSimulate, CommitDocument
  <2>2. CASE Write(h)
    <3>1. request[h].op = "insert" /\ record' = record
      BY <2>2 DEF Write
    <3>2. PICK q \in Request : Keeps(q, request[h]) /\ request' = [request EXCEPT ![h] = q]
      BY <2>2, PhaseMoves DEF Write
    <3> QED BY <3>1, <3>2, LimitsKept DEF Keeps, Committing
  <2>3. CASE WriteEdit(h)
    <3>1. Committing(request[h]) /\ record' = record
      BY <2>3 DEF WriteEdit, Committing
    <3>2. PICK q \in Request : /\ Keeps(q, request[h]) /\ q.before = request[h].before
                               /\ request' = [request EXCEPT ![h] = q]
      BY <2>3, PhaseMoves DEF WriteEdit
    <3>3. Valid(q.on, q)
      BY <3>1, <3>2, ValidIsKept DEF LimitsInvariant
    <3> QED BY <3>1, <3>2, <3>3, LimitsKept
  <2>4. CASE Read(h)
    BY <2>4, ReadSets, LimitsKept DEF Read
  <2>5. CASE CommitEdit(h)
    BY <2>5, CommitLeavesLimits
  <2>6. CASE Store(h) \/ Flush(h)
    <3>1. request[h].op = "upload" /\ record' = record
      BY <2>6 DEF Store, Flush
    <3>2. CASE request' = [request EXCEPT ![h] = Idle]
      BY <3>1, <3>2, IdleReadsNothing, LimitsKept
    <3>3. ASSUME NEW p \in {"partial", "stored", "written"},
                 request' = [request EXCEPT ![h].phase = p]
          PROVE  LimitsInvariant'
      <4>1. PICK q \in Request : Keeps(q, request[h]) /\ request' = [request EXCEPT ![h] = q]
        BY <3>1, <3>3, PhaseMoves
      <4> QED BY <3>1, <4>1, LimitsKept DEF Keeps, Committing
    <3>4. \/ request' = [request EXCEPT ![h] = Idle]
          \/ \E p \in {"partial", "stored", "written"} : request' = [request EXCEPT ![h].phase = p]
      BY <2>6 DEF Store, Flush
    <3> QED BY <3>2, <3>3, <3>4
  <2> QED BY <1>3, <2>1, <2>2, <2>3, <2>4, <2>5, <2>6 DEF Proceeding
<1> QED BY <1>1, <1>2, <1>3, StepCases

\* A step that sets one request and leaves the batches.
LEMMA WalletKept ==
  ASSUME TypeInvariant, WalletInvariant, NEW h \in Handlers, NEW q,
         q.op = "simulate" => q.seen = wallet,
         request' = [request EXCEPT ![h] = q], wallet' = wallet
  PROVE  WalletInvariant'
<1>1. \A g \in Handlers : request'[g] = IF g = h THEN q ELSE request[g]
  BY DEF TypeInvariant, TypeOK
<1> QED BY <1>1 DEF WalletInvariant

LEMMA WalletHolds ==
  ASSUME TypeInvariant, EditInvariant, WalletInvariant, [Next]_vars
  PROVE  WalletInvariant'
<1>0. Idle.op # "simulate"
  BY IdleTyped
<1>1. CASE UNCHANGED recordVars
  BY <1>1 DEF recordVars, WalletInvariant
<1>2. ASSUME NEW h \in Handlers, \E r : Arrival(h, r)
      PROVE  WalletInvariant'
  BY <1>2, ArrivalBegins, WalletKept DEF Begun, Opening, TypeInvariant
<1>3. ASSUME NEW h \in Handlers, Proceeding(h)
      PROVE  WalletInvariant'
  <2>1. CASE CommitSimulate(h)
    <3>1. /\ wallet' = (wallet \ request[h].seen) \cup {request[h].id}
          /\ request[h].op = "simulate" /\ request[h].on = "wallet"
      BY <2>1, ARequestIsTyped DEF CommitSimulate, Formed
    <3>2. \A g \in Handlers : request'[g] = IF g = h THEN Idle ELSE request[g]
      BY <2>1 DEF CommitSimulate, TypeInvariant, TypeOK
    <3>3. ASSUME "wallet" \in Alone
          PROVE  /\ wallet' = {request[h].id}
                 /\ \A g \in Handlers : request'[g].op # "simulate"
      <4>1. request[h].seen = wallet
        BY <3>1, <3>3 DEF WalletInvariant
      <4>2. ASSUME NEW g \in Handlers, request'[g].op = "simulate"
            PROVE  FALSE
        <5>1. g # h /\ request[g].op = "simulate"
          BY <4>2, <3>2, <1>0
        <5>2. request[g].on = "wallet"
          BY <5>1, ARequestIsTyped DEF Formed
        <5> QED BY <5>1, <5>2, <3>1, <3>3 DEF EditInvariant, OneAlone
      <4> QED BY <4>1, <4>2, <3>1
    <3> QED BY <3>3 DEF WalletInvariant
  <2>2. CASE Fail(h) \/ Commit(h) \/ CommitEdit(h) \/ CommitDocument(h)
    BY <2>2, <1>0, WalletKept DEF Fail, Commit, CommitEdit, CommitDocument
  <2>3. CASE Read(h)
    BY <2>3, ReadSets, WalletKept, ZenonT(60) DEF Read, Keeps
  <2>4. CASE Write(h) \/ WriteEdit(h)
    <3>1. request[h].op \in {"insert", "edit"} /\ wallet' = wallet
      BY <2>4 DEF Write, WriteEdit
    <3>2. PICK q \in Request : Keeps(q, request[h]) /\ request' = [request EXCEPT ![h] = q]
      BY <2>4, PhaseMoves DEF Write, WriteEdit
    <3> QED BY <3>1, <3>2, WalletKept DEF Keeps
  <2>5. CASE Store(h) \/ Flush(h)
    <3>1. request[h].op = "upload" /\ wallet' = wallet
      BY <2>5 DEF Store, Flush
    <3>2. CASE request' = [request EXCEPT ![h] = Idle]
      BY <3>1, <3>2, <1>0, WalletKept
    <3>3. ASSUME NEW p \in {"partial", "stored", "written"},
                 request' = [request EXCEPT ![h].phase = p]
          PROVE  WalletInvariant'
      <4>1. PICK q \in Request : Keeps(q, request[h]) /\ request' = [request EXCEPT ![h] = q]
        BY <3>1, <3>3, PhaseMoves
      <4> QED BY <3>1, <4>1, WalletKept DEF Keeps
    <3>4. \/ request' = [request EXCEPT ![h] = Idle]
          \/ \E p \in {"partial", "stored", "written"} : request' = [request EXCEPT ![h].phase = p]
      BY <2>5 DEF Store, Flush
    <3> QED BY <3>2, <3>3, <3>4
  <2> QED BY <1>3, <2>1, <2>2, <2>3, <2>4, <2>5 DEF Proceeding
<1> QED BY <1>1, <1>2, <1>3, StepCases

LEMMA LimitsAndWalletInit ==
  ASSUME Init
  PROVE  LimitsInvariant /\ WalletInvariant
<1>1. record["product"] = Unedited
  BY Vocabulary DEF Init
<1>2. Unedited.low <= Unedited.high
  BY DEF Unedited
<1> QED BY <1>1, <1>2, IdleTyped, IdleReadsNothing DEF Init, LimitsInvariant, WalletInvariant

LEMMA OneAtATimeFollows ==
  ASSUME LimitsInvariant, WalletInvariant
  PROVE  OneAtATime
<1>1. ASSUME "wallet" \in Alone
      PROVE  Cardinality(wallet) <= 1
  <2>1. CASE wallet = {}
    BY <2>1, FS_EmptySet
  <2>2. CASE \E i : wallet = {i}
    <3>1. PICK i : wallet = {i}
      BY <2>2
    <3>2. Cardinality({i}) = 1
      BY FS_Singleton
    <3> QED BY <3>1, <3>2
  <2> QED BY <1>1, <2>1, <2>2 DEF WalletInvariant
<1> QED BY <1>1 DEF OneAtATime, LimitsInvariant

\* A product's limits stay in order whatever fields its requests name, and a
\* simulation replaces the one before, as long as no two such requests overlap
\* (products.update_product, simulate_transactions).
THEOREM OneAtATimeIsSafe == Spec => []OneAtATime
<1>1. Init => TypeInvariant /\ EditInvariant /\ LimitsInvariant /\ WalletInvariant
  BY TypesInit, EditsInit, LimitsAndWalletInit
<1>2. TypeInvariant /\ EditInvariant /\ LimitsInvariant /\ WalletInvariant /\ [Next]_vars
      => TypeInvariant' /\ EditInvariant' /\ LimitsInvariant' /\ WalletInvariant'
  BY TypesHold, EditsHold, LimitsHold, WalletHolds
<1>3. LimitsInvariant /\ WalletInvariant => OneAtATime
  BY OneAtATimeFollows
<1> QED BY <1>1, <1>2, <1>3, PTL DEF Spec

(***************************************************************************)
(* Stored documents.                                                       *)
(***************************************************************************)
WholeFile(n) == [name |-> n, complete |-> TRUE]

\* No two requests under way have one number, and none has a document's.
NumbersDistinct ==
    /\ \A g, h \in Handlers :
           /\ request[g].op # "none" /\ request[h].op # "none" /\ request[g].id = request[h].id
           => g = h
    /\ \A h \in Handlers : request[h].id <= asked
    /\ \A d \in documents : d.file <= asked
    /\ \A h \in Handlers : request[h].op = "upload" =>
           \A d \in documents : d.file # request[h].id

\* A request that has stored its file still has it.
FilesStored ==
    \A h \in Handlers :
        request[h].op = "upload" /\ request[h].phase \in {"stored", "written"} =>
            WholeFile(request[h].id) \in files

DocumentInvariant == NumbersDistinct /\ FilesStored /\ RowHasFile

\* A step of a request that is under way: its own file may come or go.
LEMMA OwnFileMoves ==
  ASSUME TypeInvariant, DocumentInvariant, NEW h \in Handlers, NEW q,
         q = Idle \/ (q.op = request[h].op /\ q.id = request[h].id),
         q.op = "upload" /\ q.phase \in {"stored", "written"} => WholeFile(q.id) \in files',
         request[h].op # "upload" => files' = files,
         \A n : WholeFile(n) \in files /\ n # request[h].id => WholeFile(n) \in files',
         request' = [request EXCEPT ![h] = q], documents' = documents, asked' = asked
  PROVE  DocumentInvariant'
<1>1. \A g \in Handlers : request'[g] = IF g = h THEN q ELSE request[g]
  BY DEF TypeInvariant, TypeOK
<1>2. asked \in Nat /\ 0 <= asked
  BY DEF TypeInvariant, TypeOK
<1>3. NumbersDistinct'
  <2>1. CASE q = Idle
    BY <2>1, <1>1, <1>2, IdleTyped DEF DocumentInvariant, NumbersDistinct
  <2>2. CASE q.op = request[h].op /\ q.id = request[h].id
    <3>1. \A g \in Handlers : request'[g].op = request[g].op /\ request'[g].id = request[g].id
      BY <2>2, <1>1
    <3> QED BY <3>1 DEF DocumentInvariant, NumbersDistinct
  <2> QED BY <2>1, <2>2
<1>4. FilesStored'
  <2>1. ASSUME NEW g \in Handlers, request'[g].op = "upload",
               request'[g].phase \in {"stored", "written"}
        PROVE  WholeFile(request'[g].id) \in files'
    <3>1. CASE g = h
      BY <3>1, <2>1, <1>1
    <3>2. CASE g # h
      <4>1. request'[g] = request[g] /\ WholeFile(request[g].id) \in files
        BY <3>2, <2>1, <1>1 DEF DocumentInvariant, FilesStored
      <4>2. CASE request[h].op # "upload"
        BY <4>1, <4>2
      <4>3. CASE request[h].op = "upload"
        <5>1. request[g].id # request[h].id
          BY <3>2, <4>1, <4>3, <2>1 DEF DocumentInvariant, NumbersDistinct
        <5> QED BY <4>1, <5>1
      <4> QED BY <4>2, <4>3
    <3> QED BY <3>1, <3>2
  <2> QED BY <2>1 DEF FilesStored, WholeFile
<1>5. RowHasFile'
  <2>1. \A d \in documents : WholeFile(d.file) \in files
    BY DEF DocumentInvariant, RowHasFile, WholeFile
  <2>2. request[h].op = "upload" => \A d \in documents : d.file # request[h].id
    BY DEF DocumentInvariant, NumbersDistinct
  <2>3. \A d \in documents : WholeFile(d.file) \in files'
    BY <2>1, <2>2
  <2> QED BY <2>3 DEF RowHasFile, WholeFile
<1> QED BY <1>3, <1>4, <1>5 DEF DocumentInvariant

LEMMA ArrivalIsNew ==
  ASSUME TypeInvariant, DocumentInvariant, NEW h \in Handlers, NEW q, Begun(h, q)
  PROVE  DocumentInvariant'
<1>1. \A g \in Handlers : request'[g] = IF g = h THEN q ELSE request[g]
  BY DEF Begun, TypeInvariant, TypeOK
<1>2. asked \in Nat /\ asked' = asked + 1 /\ q.id = asked + 1
      /\ documents' = documents /\ files' = files
  BY DEF Begun, TypeInvariant, TypeOK
<1>3. \A g \in Handlers : request[g].id \in Nat /\ request[g].id <= asked
  BY ARequestIsTyped DEF Request, DocumentInvariant, NumbersDistinct
<1>4. \A d \in documents : d.file \in Nat /\ d.file <= asked
  BY DEF TypeInvariant, TypeOK, DocumentRows, DocumentInvariant, NumbersDistinct
<1>5. NumbersDistinct'
  <2>1. ASSUME NEW g \in Handlers, NEW k \in Handlers, request'[g].op # "none",
               request'[k].op # "none", request'[g].id = request'[k].id
        PROVE  g = k
    BY <2>1, <1>1, <1>2, <1>3 DEF DocumentInvariant, NumbersDistinct
  <2>2. \A g \in Handlers : request'[g].id <= asked'
    BY <1>1, <1>2, <1>3
  <2>3. \A d \in documents' : d.file <= asked'
    BY <1>2, <1>4
  <2>4. ASSUME NEW g \in Handlers, request'[g].op = "upload", NEW d \in documents'
        PROVE  d.file # request'[g].id
    BY <2>4, <1>1, <1>2, <1>4 DEF DocumentInvariant, NumbersDistinct
  <2> QED BY <2>1, <2>2, <2>3, <2>4 DEF NumbersDistinct
<1>6. FilesStored'
  <2>1. ~(q.op = "upload" /\ q.phase \in {"stored", "written"})
    BY DEF Begun, Opening
  <2> QED BY <2>1, <1>1, <1>2 DEF DocumentInvariant, FilesStored, WholeFile
<1>7. RowHasFile'
  BY <1>2 DEF DocumentInvariant, RowHasFile
<1> QED BY <1>5, <1>6, <1>7 DEF DocumentInvariant

LEMMA StoreKeepsFiles ==
  ASSUME TypeInvariant, DocumentInvariant, NEW h \in Handlers, Store(h)
  PROVE  DocumentInvariant'
<1> DEFINE r == request[h]
           part == [name |-> r.id, complete |-> FALSE]
<1>1. r.op = "upload" /\ documents' = documents /\ asked' = asked
  BY DEF Store
<1>2. \A n : WholeFile(n) # part
  BY DEF WholeFile
<1>3. CASE r.phase = "scanned"
  <2>1. files' = files \cup {part} /\ request' = [request EXCEPT ![h].phase = "partial"]
    BY <1>3 DEF Store, FileOf
  <2>2. PICK q \in Request : /\ Keeps(q, r) /\ q.phase = "partial"
                             /\ request' = [request EXCEPT ![h] = q]
    BY <1>1, <2>1, PhaseMoves
  <2> HIDE DEF part
  <2> QED BY <1>1, <2>1, <2>2, OwnFileMoves DEF Keeps
<1>4. CASE r.phase # "scanned"
  <2>1. files' = (files \ {part}) \cup {WholeFile(r.id)}
        /\ request' = [request EXCEPT ![h].phase = "stored"]
    BY <1>4 DEF Store, FileOf, WholeFile
  <2>2. PICK q \in Request : /\ Keeps(q, r) /\ q.phase = "stored"
                             /\ request' = [request EXCEPT ![h] = q]
    BY <1>1, <2>1, PhaseMoves
  <2> HIDE DEF part
  <2> QED BY <1>1, <1>2, <2>1, <2>2, OwnFileMoves, ZenonT(60) DEF Keeps
<1> QED BY <1>3, <1>4

LEMMA FlushKeepsFiles ==
  ASSUME TypeInvariant, DocumentInvariant, NEW h \in Handlers, Flush(h)
  PROVE  DocumentInvariant'
<1>1. /\ request[h].op = "upload" /\ request[h].phase = "stored"
      /\ documents' = documents /\ asked' = asked
  BY DEF Flush
<1>2. WholeFile(request[h].id) \in files
  BY <1>1 DEF DocumentInvariant, FilesStored
<1>3. CASE request' = [request EXCEPT ![h].phase = "written"] /\ files' = files
  <2>1. PICK q \in Request : /\ Keeps(q, request[h])
                             /\ request' = [request EXCEPT ![h] = q]
    BY <1>1, <1>3, PhaseMoves
  <2> QED BY <1>1, <1>2, <1>3, <2>1, OwnFileMoves DEF Keeps
<1>4. CASE /\ files' = {f \in files : ~(f.complete /\ f.name = request[h].id)}
           /\ request' = [request EXCEPT ![h] = Idle]
  <2>1. \A n : WholeFile(n) \in files /\ n # request[h].id => WholeFile(n) \in files'
    BY <1>4 DEF WholeFile
  <2> QED BY <1>1, <1>4, <2>1, IdleTyped, OwnFileMoves
<1> QED BY <1>3, <1>4 DEF Flush, FileOf

LEMMA CommitHasFile ==
  ASSUME TypeInvariant, DocumentInvariant, NEW h \in Handlers, CommitDocument(h)
  PROVE  DocumentInvariant'
<1> DEFINE r == request[h]
           row == [file |-> r.id, scan |-> r.on]
<1>1. /\ r.op = "upload" /\ r.phase = "written"
      /\ documents' = documents \cup {row}
      /\ files' = files /\ asked' = asked
  BY DEF CommitDocument, DocumentRow, FileOf
<1>2. \A g \in Handlers : request'[g] = IF g = h THEN Idle ELSE request[g]
  BY DEF CommitDocument, TypeInvariant, TypeOK
<1>3. row.file = r.id
  OBVIOUS
<1>4. r.id <= asked /\ 0 <= asked /\ asked \in Nat
  BY DEF DocumentInvariant, NumbersDistinct, TypeInvariant, TypeOK
<1> HIDE DEF row
<1>5. NumbersDistinct'
  <2>1. ASSUME NEW g \in Handlers, NEW k \in Handlers, request'[g].op # "none",
               request'[k].op # "none", request'[g].id = request'[k].id
        PROVE  g = k
    BY <2>1, <1>2, IdleTyped DEF DocumentInvariant, NumbersDistinct
  <2>2. \A g \in Handlers : request'[g].id <= asked'
    BY <1>1, <1>2, <1>4, IdleTyped DEF DocumentInvariant, NumbersDistinct
  <2>3. \A d \in documents' : d.file <= asked'
    BY <1>1, <1>3, <1>4 DEF DocumentInvariant, NumbersDistinct
  <2>4. ASSUME NEW g \in Handlers, request'[g].op = "upload", NEW d \in documents'
        PROVE  d.file # request'[g].id
    <3>1. g # h /\ request'[g] = request[g]
      BY <2>4, <1>2, IdleTyped
    <3>2. request[g].id # r.id
      BY <3>1, <2>4, <1>1 DEF DocumentInvariant, NumbersDistinct
    <3> QED BY <3>1, <3>2, <2>4, <1>1, <1>3 DEF DocumentInvariant, NumbersDistinct
  <2> QED BY <2>1, <2>2, <2>3, <2>4 DEF NumbersDistinct
<1>6. FilesStored'
  BY <1>1, <1>2, IdleTyped DEF DocumentInvariant, FilesStored, WholeFile
<1>7. RowHasFile'
  <2>1. WholeFile(r.id) \in files
    BY <1>1 DEF DocumentInvariant, FilesStored
  <2> QED BY <2>1, <1>1, <1>3 DEF DocumentInvariant, RowHasFile, WholeFile
<1> QED BY <1>5, <1>6, <1>7 DEF DocumentInvariant

LEMMA DocumentsHold ==
  ASSUME TypeInvariant, DocumentInvariant, [Next]_vars
  PROVE  DocumentInvariant'
<1>1. CASE UNCHANGED recordVars
  BY <1>1 DEF recordVars, DocumentInvariant, NumbersDistinct, FilesStored, RowHasFile
<1>2. ASSUME NEW h \in Handlers, \E r : Arrival(h, r)
      PROVE  DocumentInvariant'
  BY <1>2, ArrivalBegins, ArrivalIsNew DEF TypeInvariant
<1>3. ASSUME NEW h \in Handlers, Proceeding(h)
      PROVE  DocumentInvariant'
  <2>1. CASE Fail(h) \/ Commit(h) \/ CommitEdit(h) \/ CommitSimulate(h)
    BY <2>1, IdleTyped, OwnFileMoves DEF Fail, Commit, CommitEdit, CommitSimulate
  <2>2. CASE Write(h) \/ WriteEdit(h)
    <3>1. /\ request[h].op \in {"insert", "edit"}
          /\ files' = files /\ documents' = documents /\ asked' = asked
      BY <2>2 DEF Write, WriteEdit
    <3>2. PICK q \in Request : Keeps(q, request[h]) /\ request' = [request EXCEPT ![h] = q]
      BY <2>2, PhaseMoves DEF Write, WriteEdit
    <3> QED BY <3>1, <3>2, OwnFileMoves DEF Keeps
  <2>3. CASE Read(h)
    <3>1. /\ request[h].op = "edit"
          /\ files' = files /\ documents' = documents /\ asked' = asked
      BY <2>3 DEF Read
    <3>2. PICK q \in Request : Keeps(q, request[h]) /\ request' = [request EXCEPT ![h] = q]
      BY <2>3, ReadSets
    <3> QED BY <3>1, <3>2, OwnFileMoves DEF Keeps
  <2> QED BY <1>3, <2>1, <2>2, <2>3, StoreKeepsFiles, FlushKeepsFiles, CommitHasFile DEF Proceeding
<1> QED BY <1>1, <1>2, <1>3, StepCases

LEMMA DocumentsInit ==
  ASSUME Init
  PROVE  DocumentInvariant
BY IdleTyped DEF Init, DocumentInvariant, NumbersDistinct, FilesStored, RowHasFile

\* A document row names a complete file, whatever fails or overlaps on the way
\* (create_document, LocalDocumentStore.write).
THEOREM RowsHaveFiles == Spec => []RowHasFile
<1>1. Init => TypeInvariant /\ DocumentInvariant
  BY TypesInit, DocumentsInit
<1>2. TypeInvariant /\ DocumentInvariant /\ [Next]_vars => TypeInvariant' /\ DocumentInvariant'
  BY TypesHold, DocumentsHold
<1>3. DocumentInvariant => RowHasFile
  BY DEF DocumentInvariant
<1> QED BY <1>1, <1>2, <1>3, PTL DEF Spec
===============================================================================
