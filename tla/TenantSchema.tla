----------------------------- MODULE TenantSchema -----------------------------
(***************************************************************************)
(* The database schema as the chain of Alembic revisions builds it.        *)
(*                                                                         *)
(* A schema is a set of objects: tables, foreign keys, columns and         *)
(* constraints added later, row-level policies and the two flags of a      *)
(* table that make them hold.  A revision is a sequence of statements for  *)
(* the upgrade and one for the downgrade; a command of Alembic runs the    *)
(* statements of one or more revisions in a transaction.  Rows are left    *)
(* out: what a statement does to them, and the ones it is refused for,     *)
(* which RolledBack stands for.                                            *)
(***************************************************************************)
EXTENDS Naturals, Sequences, FiniteSets, SequencesExt

Tab(t) == <<"table", t>>
Key(t, u) == <<"key", t, u>>            \* a foreign key of t to u
Col(t, c) == <<"column", t, c>>
Uniq(t, c) == <<"unique", t, c>>
Index(t, c) == <<"index", t, c>>
NotNull(t, c) == <<"not null", t, c>>   \* of a column that was there before
Policy(t, form) == <<"policy", t, form>>
Enabled(t) == <<"enabled", t>>          \* row-level security of the table ...
Forced(t) == <<"forced", t>>            \* ... for its owner too

PolicyForms == {"current_org", "nullif current_org", "nullif current_org_id"}
Policies(t) == {Policy(t, form) : form \in PolicyForms}

\* Statements.
Create(t, parents) == [do |-> "create", table |-> t, objects |->
                          {Tab(t)} \cup {Key(t, u) : u \in parents}]
Drop(t) == [do |-> "drop", table |-> t, objects |-> {}]
Include(o) == [do |-> "add", table |-> o[2], objects |-> {o}]
Discard(o) == [do |-> "remove", table |-> o[2], objects |-> {o}]
Set(o) == [do |-> "set", table |-> o[2], objects |-> {o}]
Unset(t, os) == [do |-> "unset", table |-> t, objects |-> os]
DropColumn(t, c) == [do |-> "remove", table |-> t, objects |-> {Col(t, c), NotNull(t, c)}]
DropPolicy(t) == [do |-> "remove", table |-> t, objects |-> Policies(t)]
DropPolicyIfExists(t) == Unset(t, Policies(t))
Disable(t) == Unset(t, {Enabled(t)})

\* All policies go by one name, tenant_isolation: a table has one at most.
Free(schema, o) ==
    IF o[1] = "policy" THEN Policies(o[2]) \cap schema = {} ELSE o \notin schema

\* What PostgreSQL accepts ...
Legal(schema, s) ==
    CASE s.do = "create" -> /\ Tab(s.table) \notin schema
                            /\ \A o \in s.objects : o[1] = "key" => Tab(o[3]) \in schema
      [] s.do = "drop"   -> /\ Tab(s.table) \in schema
                            /\ \A o \in schema : o[1] = "key" /\ o[3] = s.table => o[2] = s.table
      [] s.do = "add"    -> /\ Tab(s.table) \in schema
                            /\ \A o \in s.objects : Free(schema, o)
                            /\ \A o \in s.objects : o[1] = "key" => Tab(o[3]) \in schema
      [] s.do = "remove" -> s.objects \cap schema # {}
      [] s.do = "set"    -> /\ Tab(s.table) \in schema
                            /\ \A o \in s.objects : o[1] = "not null" => Col(o[2], o[3]) \in schema
      [] s.do = "unset"  -> Tab(s.table) \in schema

\* ... and what becomes of the schema.
Executed(schema, s) ==
    CASE s.do \in {"create", "add", "set"} -> schema \cup s.objects
      [] s.do = "drop" -> {o \in schema : o[2] # s.table}
      [] s.do \in {"remove", "unset"} -> schema \ s.objects

(***************************************************************************)
(* 1bc1f3336299: the tables, in the order of their creation.               *)
(***************************************************************************)
OfNone(t) == Create(t, {})
OfTenant(t, parents) == Create(t, {"organizations"} \cup parents)
OfApplicant(t) == OfTenant(t, {"applicants"})
OfLoan(t) == OfTenant(t, {"loan_applications"})

Platform ==
    <<OfNone("model_versions"), OfNone("organizations"), OfNone("permissions"),
      OfTenant("audit_logs", {}), OfTenant("branches", {})>>
People ==
    <<OfTenant("loan_products", {}), OfTenant("notifications", {}),
      [OfTenant("roles", {}) EXCEPT !.objects = @ \cup {Uniq("roles", "name")}],
      OfTenant("applicants", {"branches"})>>
Accounts ==
    <<Create("role_permissions", {"permissions", "roles"}), OfTenant("users", {"branches"})>>
Circumstances ==
    <<OfApplicant("asset_records"), OfApplicant("business_records"),
      OfApplicant("employment_records"), OfApplicant("existing_loans")>>
Evidence ==
    <<OfApplicant("expense_records"), OfApplicant("financial_documents"),
      OfApplicant("income_records"), OfApplicant("kyc_records")>>
Lending ==
    <<OfApplicant("liability_records"),
      OfTenant("loan_applications", {"applicants", "branches", "loan_products"})>>
Activity ==
    <<Create("refresh_tokens", {"users"}),
      OfApplicant("transaction_records"),
      Create("user_roles", {"roles", "users"})>>
Assessments ==
    <<OfLoan("ai_explanations"), OfLoan("credit_scores"), OfLoan("default_predictions"),
      OfLoan("fraud_alerts")>>
Workflow ==
    <<OfLoan("loan_decisions"), OfLoan("loan_workflow_events"), OfLoan("risk_scores")>>

InitialTables ==
    Platform \o People \o Accounts \o Circumstances \o Evidence \o Lending \o Activity
    \o Assessments \o Workflow
InitialDropped ==
    <<"risk_scores", "loan_workflow_events", "loan_decisions", "fraud_alerts",
      "default_predictions", "credit_scores", "ai_explanations", "user_roles",
      "transaction_records", "refresh_tokens", "loan_applications", "liability_records",
      "kyc_records", "income_records", "financial_documents", "expense_records",
      "existing_loans", "employment_records", "business_records", "asset_records", "users",
      "role_permissions", "applicants", "roles", "notifications", "loan_products",
      "branches", "audit_logs", "permissions", "organizations", "model_versions">>

\* Statement by statement over a sequence.
ForEach(seq, F(_)) == [i \in DOMAIN seq |-> F(seq[i])]
IncludeAll(t, cols) == ForEach(cols, LAMBDA c : Include(Col(t, c)))
DropColumns(t, cols) == ForEach(cols, LAMBDA c : DropColumn(t, c))

\* c3094e1cde73: row-level security, with the policy's context as it is ...
TENANT_TABLES ==
    <<"applicants", "kyc_records", "employment_records", "business_records",
      "income_records", "expense_records", "asset_records", "liability_records",
      "existing_loans", "transaction_records", "financial_documents", "loan_products",
      "loan_applications", "loan_workflow_events", "loan_decisions", "risk_scores",
      "credit_scores", "default_predictions", "fraud_alerts", "ai_explanations",
      "audit_logs", "notifications">>
Bare(t) == Policy(t, "current_org")
Nullable(t) == Policy(t, "nullif current_org")
Protect(policy) == <<Set(Enabled(policy[2])), Set(Forced(policy[2])), Include(policy)>>
\* the downgrade leaves the table forced
Unprotect(t) == <<DropPolicyIfExists(t), Disable(t)>>
\* ... 0d870f3296be: and with the empty context of a pooled connection as none.
Swapped(policy) == <<DropPolicy(policy[2]), Include(policy)>>

DocumentColumns == <<"original_filename", "content_type", "size_bytes", "uploaded_by">>
AlertColumns == <<"resolved_by", "resolved_at", "resolution_note">>

\* 92c61cc1938f: the tables of servicing, and their policies.
ServicingTables ==
    <<OfTenant("loan_disbursements", {"loan_applications", "users"}),
      OfLoan("loan_installments"),
      OfTenant("loan_repayments", {"loan_applications", "users"})>>
Servicing == <<"loan_disbursements", "loan_installments", "loan_repayments">>
ServicingUnprotected == ServicingTables   \* Mutant: no policies.
ServicingUp ==
    ServicingTables \o FlattenSeq(ForEach(Servicing, LAMBDA t : Protect(Nullable(t))))
ServicingDown ==
    FlattenSeq(ForEach(Reverse(Servicing), LAMBDA t : <<DropPolicyIfExists(t), Drop(t)>>))

\* Mutant: one of the columns is left.
AlertsDownPartial ==
    <<Discard(Key("fraud_alerts", "users"))>>
    \o DropColumns("fraud_alerts", <<"resolution_note", "resolved_by">>)
\* b523e91570b8: who resolved an alert.
AlertsUp == IncludeAll("fraud_alerts", AlertColumns) \o <<Include(Key("fraud_alerts", "users"))>>
AlertsDown ==
    <<Discard(Key("fraud_alerts", "users"))>> \o DropColumns("fraud_alerts", Reverse(AlertColumns))

\* f2ce32e9bf37: users that are applicants.
OwnershipUp ==
    <<Include(Col("users", "applicant_id")), Include(Key("users", "applicants")),
      Include(Uniq("users", "applicant_id"))>>
OwnershipDown ==
    <<Discard(Uniq("users", "applicant_id")), Discard(Key("users", "applicants")),
      DropColumn("users", "applicant_id")>>

\* 748dadfd87d2: API keys.
ApiKeysUp == <<OfTenant("api_keys", {"users"})>> \o Protect(Bare("api_keys"))
ApiKeysDown == <<DropPolicyIfExists("api_keys"), Drop("api_keys")>>

\* e67c019a10b4: what is known of a stored document.
DocumentsUp == IncludeAll("financial_documents", DocumentColumns)
               \o <<Include(Key("financial_documents", "users"))>>
DocumentsDown == <<Discard(Key("financial_documents", "users"))>>
                 \o DropColumns("financial_documents", Reverse(DocumentColumns))

\* d62f9f6b2071: codes and status of loan products.
ProductsUp ==
    <<Include(Col("loan_products", "code")), Set(NotNull("loan_products", "code")),
      Include(Col("loan_products", "status")), Include(Uniq("loan_products", "code"))>>
ProductsDown == <<Discard(Uniq("loan_products", "code"))>>
                \o DropColumns("loan_products", <<"status", "code">>)

\* b814a9df3c27: recommendations, under a policy that reads another setting.
RecommendationsUp ==
    <<OfLoan("ai_decision_recommendations")>>
    \o Protect(Policy("ai_decision_recommendations", "nullif current_org_id"))

MfaColumns == <<"mfa_secret_encrypted", "mfa_last_verified_step">>

\* The chain, from the base to the head.
Revisions ==
    <<[up |-> InitialTables, down |-> ForEach(InitialDropped, Drop)],
      [up |-> FlattenSeq(ForEach(TENANT_TABLES, LAMBDA t : Protect(Bare(t)))),
       down |-> FlattenSeq(ForEach(Reverse(TENANT_TABLES), Unprotect))],
      [up |-> FlattenSeq(ForEach(TENANT_TABLES, LAMBDA t : Swapped(Nullable(t)))),
       down |-> FlattenSeq(ForEach(Reverse(TENANT_TABLES), LAMBDA t : Swapped(Bare(t))))],
      [up |-> OwnershipUp, down |-> OwnershipDown],
      [up |-> IncludeAll("users", MfaColumns), down |-> DropColumns("users", Reverse(MfaColumns))],
      [up |-> ApiKeysUp, down |-> ApiKeysDown],
      [up |-> ServicingUp, down |-> ServicingDown],
      [up |-> DocumentsUp, down |-> DocumentsDown],
      [up |-> <<Include(Col("branches", "status")), Include(Uniq("branches", "code"))>>,
       down |-> <<Discard(Uniq("branches", "code")), DropColumn("branches", "status")>>],
      [up |-> AlertsUp, down |-> AlertsDown],
      [up |-> ProductsUp, down |-> ProductsDown],
      [up |-> <<Discard(Uniq("roles", "name")), Include(Uniq("roles", "lower name"))>>,
       down |-> <<Discard(Uniq("roles", "lower name")), Include(Uniq("roles", "name"))>>],
      [up |-> <<Include(Index("transaction_records", "org, applicant, date"))>>,
       down |-> <<Discard(Index("transaction_records", "org, applicant, date"))>>],
      [up |-> RecommendationsUp, down |-> <<Drop("ai_decision_recommendations")>>]>>
Latest == Len(Revisions)

(***************************************************************************)
(* Commands of Alembic.                                                    *)
(***************************************************************************)
VARIABLES
    revision,   \* revisions applied, in the transaction that runs
    schema,     \* what that transaction has made of the schema
    running,    \* its direction, its next statement and what it started from
    serving,    \* an instance has found the schema at the head and serves requests
    seeded      \* how far a startup has got with the demonstration tenant

schemaVars == <<revision, schema, running, serving, seeded>>

Resting == [way |-> "none", next |-> 1, revision |-> 0, schema |-> {}]

SchemaInit ==
    /\ revision = 0 /\ schema = {}
    /\ running = Resting /\ serving = FALSE
    /\ seeded = "no"

\* the statements of the revision that the transaction is at
Statements == IF running.way = "up" THEN Revisions[revision + 1].up ELSE Revisions[revision].down

\* A command may be given at any time, beside what serves or seeds.
Command(way) ==
    /\ running = Resting
    /\ way = "up" => revision < Latest
    /\ way = "down" => revision > 0
    /\ running' = [way |-> way, next |-> 1, revision |-> revision, schema |-> schema]
    /\ UNCHANGED <<revision, schema, serving, seeded>>

AtStatement ==
    /\ running.way # "none"
    /\ running.way = "up" => revision < Latest
    /\ running.way = "down" => revision > 0

\* A statement; after the last one the revision is stamped.
Execute ==
    /\ AtStatement
    /\ Legal(schema, Statements[running.next])
    /\ schema' = Executed(schema, Statements[running.next])
    /\ IF running.next < Len(Statements)
       THEN running' = [running EXCEPT !.next = @ + 1] /\ UNCHANGED revision
       ELSE /\ running' = [running EXCEPT !.next = 1]
            /\ revision' = IF running.way = "up" THEN revision + 1 ELSE revision - 1
    /\ UNCHANGED <<serving, seeded>>

\* The target is reached: one transaction for all of the command.  At the base
\* the tenant is gone with the tables.
Migrated ==
    /\ running.way # "none" /\ running.next = 1 /\ revision # running.revision
    /\ running' = Resting
    /\ seeded' = IF revision = 0 THEN "no" ELSE seeded
    /\ UNCHANGED <<revision, schema, serving>>

\* The process dies, or a statement is refused for the rows that are there: a
\* unique constraint on keys that repeat, SET NOT NULL where the UPDATE before it
\* did not reach.
RolledBack ==
    /\ running.way # "none"
    /\ revision' = running.revision /\ schema' = running.schema
    /\ running' = Resting
    /\ UNCHANGED <<serving, seeded>>

\* A startup with the schema at the head commits the tenant, its branch and its
\* users, unless an earlier one did ...
SeedTenant ==
    /\ running = Resting /\ revision = Latest /\ seeded = "no"
    /\ seeded' = "seeding"
    /\ UNCHANGED <<revision, schema, running, serving>>

\* the tables that a session of the tenant can write
Reads(form) == form \in {"current_org", "nullif current_org"}
Writable(t) == \A o \in schema : o[1] = "policy" /\ o[2] = t => Reads(o[3])

\* ... and then its applicants, loans and first analysis, or dies at it.
SeedRecords ==
    /\ seeded = "seeding"
    /\ \E all \in BOOLEAN :
           /\ all => /\ running = Resting /\ revision = Latest
                     /\ Writable("ai_decision_recommendations")
           /\ seeded' = IF all THEN "records" ELSE "tenant"
    /\ UNCHANGED <<revision, schema, running, serving>>

\* verify_schema_revision, or a migrate_schema that has brought it to the head.
Serve ==
    /\ running = Resting /\ revision = Latest /\ ~serving
    /\ serving' = TRUE
    /\ UNCHANGED <<revision, schema, running, seeded>>

Migration ==
    \/ \E way \in {"up", "down"} : Command(way)
    \/ Execute \/ Migrated \/ RolledBack \/ SeedTenant \/ SeedRecords \/ Serve

SchemaSpec == SchemaInit /\ [][Migration]_schemaVars

(***************************************************************************)
(* What the application takes the database to be: the tables of the mapped *)
(* classes, with their foreign keys and, of the rest, the columns and      *)
(* constraints that came after the first revision.                         *)
(***************************************************************************)
Class(t, references, later) ==
    [table |-> t, mixin |-> FALSE,
     objects |-> {Tab(t)} \cup {Key(t, u) : u \in references} \cup later]
TenantClass(t, references, later) ==
    [Class(t, references \cup {"organizations"}, later) EXCEPT !.mixin = TRUE]

OrganizationClasses ==
    {Class("organizations", {}, {}),
     Class("branches", {"organizations"}, {Col("branches", "status"), Uniq("branches", "code")})}
IdentityClasses ==
    {Class("role_permissions", {"roles", "permissions"}, {}),
     Class("user_roles", {"users", "roles"}, {}),
     Class("permissions", {}, {}),
     Class("roles", {"organizations"}, {Uniq("roles", "lower name")}),
     Class("users", {"organizations", "branches", "applicants"},
           {Col("users", c) : c \in {"applicant_id", "mfa_secret_encrypted", "mfa_last_verified_step"}}
           \cup {Uniq("users", "applicant_id")}),
     Class("refresh_tokens", {"users"}, {})}
ProfileClasses ==
    {TenantClass("applicants", {"branches"}, {})}
    \cup {TenantClass(t, {"applicants"}, {}) : t \in
             {"kyc_records", "employment_records", "business_records", "income_records",
              "expense_records", "asset_records", "liability_records", "existing_loans"}}
    \cup {TenantClass("transaction_records", {"applicants"},
                      {Index("transaction_records", "org, applicant, date")})}
DocumentClasses ==
    {TenantClass("financial_documents", {"applicants", "users"},
        {Col("financial_documents", c) :
            c \in {"original_filename", "content_type", "size_bytes", "uploaded_by"}})}
LoanClasses ==
    {TenantClass("loan_products", {},
        {Col("loan_products", "code"), NotNull("loan_products", "code"),
         Col("loan_products", "status"), Uniq("loan_products", "code")}),
     TenantClass("loan_applications", {"branches", "applicants", "loan_products"}, {})}
    \cup {TenantClass(t, {"loan_applications"}, {}) :
             t \in {"loan_workflow_events", "loan_decisions", "loan_installments"}}
    \cup {TenantClass(t, {"loan_applications", "users"}, {}) :
             t \in {"loan_disbursements", "loan_repayments"}}
AssessmentClasses ==
    {Class("model_versions", {}, {})}
    \cup {TenantClass(t, {"loan_applications"}, {}) :
             t \in {"risk_scores", "credit_scores", "default_predictions", "ai_explanations",
                   "ai_decision_recommendations"}}
    \cup {TenantClass("fraud_alerts", {"loan_applications", "users"},
             {Col("fraud_alerts", c) : c \in {"resolved_by", "resolved_at", "resolution_note"}})}
AuditClasses == {TenantClass("audit_logs", {}, {}), TenantClass("notifications", {}, {})}
IntegrationClasses == {TenantClass("api_keys", {"users"}, {})}

Classes ==
    OrganizationClasses \cup IdentityClasses \cup ProfileClasses \cup DocumentClasses
    \cup LoanClasses \cup AssessmentClasses \cup AuditClasses \cup IntegrationClasses
TenantTables == {class.table : class \in {c \in Classes : c.mixin}}

(***************************************************************************)
(* Properties.                                                             *)
(***************************************************************************)

\* What the upgrades to a revision leave: the objects whose last mention adds them.
Adds(s, o) == s.do \in {"create", "add", "set"} /\ o \in s.objects
Removes(s, o) ==
    IF s.do = "drop" THEN o[2] = s.table ELSE s.do \in {"remove", "unset"} /\ o \in s.objects
Built ==
    [r \in 0..Latest |->
        LET all == FlattenSeq([i \in 1..r |-> Revisions[i].up]) IN
        {o \in UNION {all[i].objects : i \in DOMAIN all} :
            \E i \in DOMAIN all : Adds(all[i], o) /\ \A j \in (i + 1)..Len(all) : ~Removes(all[j], o)}]

\* What a downgrade to a revision may leave besides: after that of c3094e1cde73 the
\* tables are still forced, which says nothing while their row security is off.
LeftBehind(r) == IF r = 1 THEN {Forced(TENANT_TABLES[i]) : i \in DOMAIN TENANT_TABLES} ELSE {}

\* Commands up and down the chain, any number of them and cut short anywhere,
\* never meet a statement that PostgreSQL refuses for what the schema has or
\* lacks, and a revision has the schema its upgrades build, whichever way it was
\* reached, but for the flags that LeftBehind names (the migrations' upgrade and
\* downgrade).  Refusals for what the tables hold are not among them.
MigrationsReversible ==
    /\ AtStatement => Legal(schema, Statements[running.next])
    /\ running = Resting =>
           Built[revision] \subseteq schema /\ schema \subseteq Built[revision] \cup LeftBehind(revision)

AtHead == running = Resting /\ revision = Latest
PoliciesOf(t) == Policies(t) \cap schema

\* At the head the database has the tables, references and later columns that the
\* mapped classes name, no more and no fewer, and every table of a TenantMixin
\* class is under one policy that holds for its owner too, however the head was
\* reached (db/base.py TenantMixin, "Every tenant-scoped table carries
\* organization_id (+ RLS policy)"; ARCHITECTURE.md 12.3, "forced-RLS policies").
ServedAsMapped ==
    AtHead =>
        /\ {o \in schema : o[1] \notin {"policy", "enabled", "forced"}}
             = UNION {class.objects : class \in Classes}
        /\ \A t \in TenantTables :
               Cardinality(PoliciesOf(t)) = 1 /\ {Enabled(t), Forced(t)} \subseteq schema

\* A session can write every table of its tenant: each policy reads the setting
\* that the sessions of the application set
\* (db/session.py tenant_session).
PoliciesReadTheTenant ==
    serving /\ AtHead => \A t \in TenantTables : Writable(t)

===============================================================================
