---------------------------- MODULE TenantRecords -----------------------------
(***************************************************************************)
(* The records of one tenant: names that are unique, rows that are edited  *)
(* and audited, a simulated ledger and stored documents.                   *)
(*                                                                         *)
(* A handler is one transaction at READ COMMITTED on a schema at the head: *)
(* its unlocked reads, the statement that takes its locks and the commit   *)
(* are steps of their own.                                                 *)
(***************************************************************************)
EXTENDS TenantSchema

CONSTANTS
    Handlers,
    Names,          \* codes, names, addresses
    Upper,          \* [Names -> Names], without regard to case
    Reserved,       \* names of system roles
    Patches,        \* the changes asked for, functions from some fields to values
    ScanRequired,   \* settings.document_scan_required
    Alone,          \* what is edited by one request at a time
    MaxRequests,    \* bound on the requests of a behaviour ...
    MaxInsertions   \* ... and on those up to the last that inserts or renames a row

Fields == {"low", "high"}
Keyed == {"branch", "product", "role", "user"}
Unkeyed == {"applicant", "organization", "api_key"}
Edited == {"profile", "product", "branch", "role", "settings", "status"}

ASSUME RecordsAssumption ==
    /\ Upper \in [Names -> Names] /\ \A n \in Names : Upper[Upper[n]] = Upper[n]
    /\ Reserved \subseteq Names /\ ScanRequired \in BOOLEAN
    /\ \A p \in Patches : DOMAIN p \subseteq Fields
    /\ Alone \subseteq Edited \cup {"wallet"} /\ MaxRequests \in Nat /\ MaxInsertions \in Nat

VARIABLES
    named,      \* committed rows that have a name: kind, name, request that made it
    record,     \* committed values of the rows that are edited
    audit,      \* committed changes: row, before, after
    wallet,     \* the batches of simulated transactions, by request
    documents,  \* committed document rows: file, scan status
    files,      \* the store's files: name, whether complete
    request,    \* what each handler is doing
    asked       \* requests so far

recordVars == <<named, record, audit, wallet, documents, files, request, asked>>
vars == <<schemaVars, recordVars>>

\* A row as it was made: its columns are two.
Unedited == [low |-> 0, high |-> 1]

Idle == [op |-> "none", phase |-> "idle", id |-> 0, on |-> "none", name |-> "none",
         row |-> {}, before |-> <<>>, patch |-> <<>>, seen |-> {}]

Init ==
    /\ SchemaInit
    /\ named = {} /\ audit = <<>> /\ wallet = {} /\ documents = {} /\ files = {}
    /\ record = [e \in Edited |-> Unedited]
    /\ request = [h \in Handlers |-> Idle] /\ asked = 0

Begin(h, r) ==
    /\ serving /\ running = Resting /\ revision = Latest /\ request[h] = Idle
    /\ asked < IF r.op = "insert" THEN MaxInsertions ELSE MaxRequests
    /\ r.on \in Alone => \A g \in Handlers : request[g].on # r.on
    /\ request' = [request EXCEPT ![h] = [r EXCEPT !.id = asked + 1]]
    /\ asked' = asked + 1

Fail(h) ==
    /\ request[h] # Idle
    /\ request' = [request EXCEPT ![h] = Idle]
    /\ UNCHANGED <<schemaVars, named, record, audit, wallet, documents, files, asked>>

(***************************************************************************)
(* Rows with a name.                                                       *)
(***************************************************************************)

\* what is stored of a name: codes are normalised
Stored(kind, n) == IF kind \in {"branch", "product"} THEN Upper[n] ELSE n

\* the unique constraints; roles have an index on the lower name
IndexKey(kind, n) == IF kind = "role" THEN Upper[n] ELSE n

Taken(kind, n, but) ==
    \E r \in named \ but : r.kind = kind /\ IndexKey(kind, r.name) = IndexKey(kind, n)

\* Mutant: no system role stands in the way, nor a role that differs in case.
AvailableAsTyped(kind, n) == ~\E r \in named : r.kind = kind /\ r.name = n
\* the handlers look first
Available(kind, n) == ~Taken(kind, n, {}) /\ (kind = "role" => Upper[n] \notin Reserved)

Insertion(h, kind, n) ==
    /\ Begin(h, [Idle EXCEPT !.op = "insert", !.phase = "checked", !.on = kind, !.name = Stored(kind, n)])
    /\ UNCHANGED <<schemaVars, named, record, audit, wallet, documents, files>>

CreateBranch(h, n) == Available("branch", Stored("branch", n)) /\ Insertion(h, "branch", n)
CreateProduct(h, n) == Available("product", Stored("product", n)) /\ Insertion(h, "product", n)
CreateRole(h, n) == Available("role", n) /\ Insertion(h, "role", n)
CreateUser(h, n) == Available("user", n) /\ Insertion(h, "user", n)
CreateApplicant(h) == Insertion(h, "applicant", "none")
OnboardOrganization(h) == Insertion(h, "organization", "none")
CreateApiKey(h) == Writable("api_keys") /\ Insertion(h, "api_key", "none")

\* update_role locks its row and looks for the name unless only the case changes.
RenameRole(h, row, n) ==
    /\ row \in named /\ row.kind = "role"
    /\ \A g \in Handlers : row \notin request[g].row
    /\ Upper[n] # Upper[row.name] => Available("role", n)
    /\ Begin(h, [Idle EXCEPT !.op = "insert", !.phase = "checked", !.on = "role", !.name = n,
                             !.row = {row}])
    /\ UNCHANGED <<schemaVars, named, record, audit, wallet, documents, files>>

\* The statement waits for a transaction that has written the same key, and the
\* constraint decides.
Write(h) ==
    LET r == request[h] IN
    /\ r.op = "insert" /\ r.phase = "checked"
    /\ r.on \in Keyed =>
         /\ \A g \in Handlers :
                ~(request[g].phase = "written" /\ request[g].op = "insert" /\ request[g].on = r.on
                  /\ IndexKey(r.on, request[g].name) = IndexKey(r.on, r.name))
         /\ ~Taken(r.on, r.name, r.row)
    /\ request' = [request EXCEPT ![h].phase = "written"]
    /\ UNCHANGED <<schemaVars, named, record, audit, wallet, documents, files, asked>>

Commit(h) ==
    LET r == request[h] IN
    /\ r.op = "insert" /\ r.phase = "written"
    /\ named' = (named \ r.row) \cup
           {[kind |-> r.on, name |-> r.name, by |-> IF r.row = {} THEN r.id ELSE (CHOOSE x \in r.row : TRUE).by]}
    /\ request' = [request EXCEPT ![h] = Idle]
    /\ UNCHANGED <<schemaVars, record, audit, wallet, documents, files, asked>>

(***************************************************************************)
(* Rows that are edited, with an audit of what they were and became.       *)
(***************************************************************************)

Edit(h, e, patch) ==
    /\ Begin(h, [Idle EXCEPT !.op = "edit", !.phase = "begun", !.on = e, !.patch = patch])
    /\ UNCHANGED <<schemaVars, named, record, audit, wallet, documents, files>>

Whole(patch) == DOMAIN patch = Fields
UpdateProfile(h, patch) == Edit(h, "profile", patch)
UpdateProduct(h, patch) == Edit(h, "product", patch)
UpdateRole(h, patch) == Edit(h, "role", patch)
UpdateBranch(h, patch) == Whole(patch) /\ Edit(h, "branch", patch)
UpdateSettings(h, patch) == Whole(patch) /\ Edit(h, "settings", patch)
UpdateOrganizationStatus(h, patch) == Whole(patch) /\ Edit(h, "status", patch)

After(r) == [f \in Fields |-> IF f \in DOMAIN r.patch THEN r.patch[f] ELSE r.before[f]]
Changed(r) == {f \in DOMAIN r.patch : r.patch[f] # r.before[f]}
Holds(h, e) ==
    /\ request[h].op = "edit" /\ request[h].on = e
    /\ \/ e = "profile" /\ request[h].phase \in {"read", "written"}
       \/ request[h].phase = "written" /\ Changed(request[h]) # {}
RowFree(h, e) == \A g \in Handlers \ {h} : ~Holds(g, e)

\* Mutant: what is asked for is validated, not what comes of it.
ValidAsAsked(e, r) ==
    e = "product" => (Whole(r.patch) => r.patch.low <= r.patch.high)
\* _validate_policy of the product's snapshot with the values asked for
Valid(e, r) == e = "product" => After(r).low <= After(r).high

\* Mutant: the profile is read as everything else is.
ReadUnlocked(h) ==
    LET r == [request[h] EXCEPT !.before = record[request[h].on], !.phase = "read"] IN
    /\ request[h].op = "edit" /\ request[h].phase = "begun"
    /\ Valid(r.on, r)
    /\ request' = [request EXCEPT ![h] = r]
    /\ UNCHANGED <<schemaVars, named, record, audit, wallet, documents, files, asked>>

\* The snapshot for the audit; a profile is read with its row locked.
Read(h) ==
    LET r == [request[h] EXCEPT !.before = record[request[h].on], !.phase = "read"] IN
    /\ request[h].op = "edit" /\ request[h].phase = "begun"
    /\ r.on = "profile" => RowFree(h, "profile")
    /\ Valid(r.on, r)
    /\ request' = [request EXCEPT ![h] = r]
    /\ UNCHANGED <<schemaVars, named, record, audit, wallet, documents, files, asked>>

WriteEdit(h) ==
    /\ request[h].op = "edit" /\ request[h].phase = "read"
    /\ Changed(request[h]) # {} => RowFree(h, request[h].on)
    /\ request' = [request EXCEPT ![h].phase = "written"]
    /\ UNCHANGED <<schemaVars, named, record, audit, wallet, documents, files, asked>>

AuditEntry(r) == [row |-> r.on, before |-> r.before, after |-> After(r)]

\* Only the columns that differ from what was read are written.
CommitEdit(h) ==
    LET r == request[h] IN
    /\ r.op = "edit" /\ r.phase = "written"
    /\ record' = [record EXCEPT ![r.on] =
           [f \in Fields |-> IF f \in Changed(r) THEN r.patch[f] ELSE @[f]]]
    /\ audit' = Append(audit, AuditEntry(r))
    /\ request' = [request EXCEPT ![h] = Idle]
    /\ UNCHANGED <<schemaVars, named, wallet, documents, files, asked>>

\* simulate_transactions counts and deletes the batches it sees ...
Simulate(h) ==
    /\ Begin(h, [Idle EXCEPT !.op = "simulate", !.phase = "written", !.on = "wallet", !.seen = wallet])
    /\ UNCHANGED <<schemaVars, named, record, audit, wallet, documents, files>>

\* ... and adds its own.
CommitSimulate(h) ==
    LET r == request[h] IN
    /\ r.op = "simulate"
    /\ wallet' = (wallet \ r.seen) \cup {r.id}
    /\ request' = [request EXCEPT ![h] = Idle]
    /\ UNCHANGED <<schemaVars, named, record, audit, documents, files, asked>>

(***************************************************************************)
(* Stored documents.                                                       *)
(***************************************************************************)

\* validate_document_content and ClamAVScanner.scan
Upload(h, scan) ==
    /\ ScanRequired => scan = "clean"
    /\ Begin(h, [Idle EXCEPT !.op = "upload", !.phase = "scanned", !.on = scan])
    /\ UNCHANGED <<schemaVars, named, record, audit, wallet, documents, files>>

\* Mutant: one content, one file.
FileOfContent(r) == 1
\* LocalDocumentStore.write: a name of its own
FileOf(r) == r.id

\* the content under a temporary name, then the rename
Store(h) ==
    LET r == request[h]
        whole == [name |-> FileOf(r), complete |-> TRUE]
        part == [name |-> FileOf(r), complete |-> FALSE]
    IN
    /\ r.op = "upload" /\ r.phase \in {"scanned", "partial"}
    /\ IF r.phase = "scanned"
       THEN /\ files' = files \cup {part}
            /\ request' = [request EXCEPT ![h].phase = "partial"]
       ELSE /\ files' = (files \ {part}) \cup {whole}
            /\ request' = [request EXCEPT ![h].phase = "stored"]
    /\ UNCHANGED <<schemaVars, named, record, audit, wallet, documents, asked>>

\* The flush of the row succeeds, or fails and takes the file with it.
Flush(h) ==
    LET r == request[h] IN
    /\ r.op = "upload" /\ r.phase = "stored"
    /\ \/ request' = [request EXCEPT ![h].phase = "written"] /\ UNCHANGED files
       \/ /\ files' = {f \in files : ~(f.complete /\ f.name = FileOf(r))}
          /\ request' = [request EXCEPT ![h] = Idle]
    /\ UNCHANGED <<schemaVars, named, record, audit, wallet, documents, asked>>

DocumentRow(r) == [file |-> FileOf(r), scan |-> r.on]

CommitDocument(h) ==
    LET r == request[h] IN
    /\ r.op = "upload" /\ r.phase = "written"
    /\ documents' = documents \cup {DocumentRow(r)}
    /\ request' = [request EXCEPT ![h] = Idle]
    /\ UNCHANGED <<schemaVars, named, record, audit, wallet, files, asked>>

Insert(h) ==
    \/ \E n \in Names :
         \/ CreateBranch(h, n) \/ CreateProduct(h, n) \/ CreateRole(h, n) \/ CreateUser(h, n)
         \/ \E row \in named : RenameRole(h, row, n)
    \/ CreateApplicant(h) \/ OnboardOrganization(h) \/ CreateApiKey(h)
    \/ Write(h) \/ Commit(h)

Change(h) ==
    \/ \E p \in Patches :
         \/ UpdateProfile(h, p) \/ UpdateProduct(h, p) \/ UpdateRole(h, p)
         \/ UpdateBranch(h, p) \/ UpdateSettings(h, p) \/ UpdateOrganizationStatus(h, p)
    \/ Read(h) \/ WriteEdit(h) \/ CommitEdit(h)
    \/ Simulate(h) \/ CommitSimulate(h)

Document(h) ==
    \/ \E scan \in {"clean", "scan_unavailable"} : Upload(h, scan)
    \/ Store(h) \/ Flush(h) \/ CommitDocument(h)

\* Commands of Alembic run before the first request: what they do to rows is left out.
Next ==
    \/ asked = 0 /\ Migration /\ UNCHANGED recordVars
    \/ \E h \in Handlers : Insert(h) \/ Change(h) \/ Document(h) \/ Fail(h)

Spec == Init /\ [][Next]_vars

(***************************************************************************)
(* Properties.                                                             *)
(***************************************************************************)

\* No two rows of a kind go by one name, codes and role names whatever their
\* case, and no role by a system role's: the unlocked look before the write,
\* the normalisation and the constraint together (create_branch,
\* create_product, create_role, update_role, create_user).
NamesDistinct ==
    /\ \A r, s \in named :
           r.kind \in Keyed /\ r.kind = s.kind /\ r # s =>
               /\ r.name # s.name
               /\ r.kind # "user" => Upper[r.name] # Upper[s.name]
    /\ \A r \in named : r.kind = "role" => Upper[r.name] \notin Reserved

\* value is what the last change of row e before the i-th of all left.
StartsFrom(e, i, value) ==
    \/ value = Unedited /\ \A j \in 1..(i - 1) : audit[j].row # e
    \/ \E j \in 1..(i - 1) :
           /\ audit[j].row = e /\ audit[j].after = value
           /\ \A k \in (j + 1)..(i - 1) : audit[k].row # e

\* Audited changes of a profile make a chain, whatever overlaps: each starts
\* from where the one before ended and the last is what is stored
\* (update_profile); other rows' changes do as long as they do not overlap.
AuditChains ==
    \A e \in Edited : e \in Alone \cup {"profile"} =>
        /\ \A i \in DOMAIN audit : audit[i].row = e => StartsFrom(e, i, audit[i].before)
        /\ StartsFrom(e, Len(audit) + 1, record[e])

\* Whatever fields a request names, a product's limits stay in order, and a
\* simulation replaces the one before: without overlap, which nothing in the
\* code or the schema rules out (products.update_product, simulate_transactions).
OneAtATime ==
    /\ "product" \in Alone => record["product"].low <= record["product"].high
    /\ "wallet" \in Alone => Cardinality(wallet) <= 1

\* A document row names a complete file, whatever fails or overlaps on the way
\* (create_document, LocalDocumentStore).
RowHasFile == \A d \in documents : [name |-> d.file, complete |-> TRUE] \in files
===============================================================================
