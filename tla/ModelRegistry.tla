---------------------------- MODULE ModelRegistry -----------------------------
(***************************************************************************)
(* The file registry of model versions (ai-engine                          *)
(* model_operations/registry/file_registry.py) and the promotion and       *)
(* rollback services on top of it.                                         *)
(*                                                                         *)
(* The registry is one JSON document.  A change reads the whole document,  *)
(* works on that snapshot and replaces the file with os.replace; the       *)
(* threads of a process exclude each other by the registry's lock, the     *)
(* processes do not exclude each other at all.  A service calls the        *)
(* registry several times and holds no lock in between.  A caller that     *)
(* fails or dies before os.replace leaves the document as it was.          *)
(***************************************************************************)
EXTENDS ModelLifecycle

CONSTANTS
  Callers,        \* threads that use the registry
  ProcessOf,      \* the process of each: its threads share one registry
  MeetsFloors,    \* versions above the absolute metric floors
  Regressions,    \* <<m, i>>: m falls too far behind i on some metric
  NoModel,
  MaxCalls        \* bound: calls made in a behaviour

ASSUME RegistryAssumption ==
  /\ MeetsFloors \subseteq Models
  /\ Regressions \subseteq Models \X Models
  /\ NoModel \notin Models
  /\ MaxCalls \in Nat

VARIABLES
  document,       \* the registry file: the stages and the audit events
  call,           \* what each caller is doing
  calls           \* calls made so far

vars == <<document, call, calls>>
-----------------------------------------------------------------------------
\* `displaced' is the version that lost production to `model' (metadata).
AuditEvent ==
  [type: {"model_registered", "lifecycle_transition", "model_promoted",
          "model_rollback"},
   model: Models, previous: LifecycleStage, new: LifecycleStage,
   displaced: Models \cup {NoModel}]

Document == [stage: [Models -> LifecycleStage], audit: Seq(AuditEvent)]

\* What a reader makes of a registry file that does not exist.
Empty == [stage |-> [m \in Models |-> "created"], audit |-> <<>>]

Idle == [phase |-> "idle"]

\* A call in progress.  `target' is the stage of a transition, `source' the
\* version a rollback is asked to leave, `snapshot' the document a locked
\* change has read.
Call ==
  [op: {"register", "transition", "promote", "rollback"},
   phase: {"asked", "checked", "ready", "locked"},
   model: Models, target: LifecycleStage, source: Models, snapshot: Document]

TypeOK ==
  /\ document \in Document
  /\ call \in [Callers -> Call \cup {Idle}]
  /\ calls \in Nat

Init ==
  /\ document = Empty
  /\ call = [c \in Callers |-> Idle]
  /\ calls = 0
-----------------------------------------------------------------------------
InPhase(c, phase) == call[c].phase = phase

Changing(c, op) == InPhase(c, "locked") /\ call[c].op = op

\* Mutant: every thread has a registry, and a lock, of its own.
LockFreeAlways(c) == c \in Callers

LockFree(c) ==
  \A other \in Callers \ {c} :
    ProcessOf[other] = ProcessOf[c] => ~InPhase(other, "locked")

\* PromotionPolicy.evaluate.  Metrics of a registered version never change;
\* without an incumbent the floors are all it asks for.
Approves(m, incumbents) ==
  /\ m \in MeetsFloors
  /\ \A i \in incumbents : <<m, i>> \notin Regressions

\* FileModelRegistry.production finds a version only when it is the only one.
IsProduction(d, m) == InProduction(d.stage, m) = {m}
-----------------------------------------------------------------------------
(***************************************************************************)
(* Calls.  Registration and transition go straight to the registry, a      *)
(* promotion or a rollback first reads it, without keeping the lock.       *)
(***************************************************************************)
Ask(c, op, m, target, source) ==
  /\ InPhase(c, "idle")
  /\ calls < MaxCalls
  /\ calls' = calls + 1
  /\ call' = [call EXCEPT ![c] =
       [op |-> op,
        phase |-> IF op \in {"promote", "rollback"} THEN "asked" ELSE "ready",
        model |-> m, target |-> target, source |-> source,
        snapshot |-> Empty]]
  /\ UNCHANGED document

Proceed(c, phase) ==
  /\ call' = [call EXCEPT ![c].phase = phase]
  /\ UNCHANGED <<document, calls>>

\* PromotionService.promote reads the candidate, then the incumbent.
CandidateRead(c) ==
  /\ InPhase(c, "asked") /\ call[c].op = "promote"
  /\ LockFree(c)
  /\ document.stage[call[c].model] = "champion"
  /\ Proceed(c, "checked")

IncumbentCompared(c) ==
  LET m == call[c].model
      incumbents == IF \E i \in Models : InProduction(document.stage, m) = {i}
                      THEN InProduction(document.stage, m) ELSE {} IN
  /\ InPhase(c, "checked") /\ call[c].op = "promote"
  /\ LockFree(c)
  /\ Approves(m, incumbents)
  /\ Proceed(c, "ready")

SourceRead(c) ==
  /\ InPhase(c, "asked") /\ call[c].op = "rollback"
  /\ LockFree(c)
  /\ IsProduction(document, call[c].source)
  /\ Proceed(c, "ready")

\* `with self._lock: state = self._read()'.
Lock(c) ==
  /\ InPhase(c, "ready")
  /\ LockFree(c)
  /\ call' = [call EXCEPT ![c].phase = "locked", ![c].snapshot = document]
  /\ UNCHANGED <<document, calls>>
-----------------------------------------------------------------------------
(***************************************************************************)
(* Changes under the lock: what is written depends on the snapshot alone.  *)
(***************************************************************************)
\* Mutant: the change is written without its audit event.
WriteUnaudited(c, st, event) ==
  /\ document' = [stage |-> st,
                  audit |-> IF event.type = "model_rollback"
                              THEN call[c].snapshot.audit
                              ELSE Append(call[c].snapshot.audit, event)]
  /\ call' = [call EXCEPT ![c] = Idle]
  /\ UNCHANGED calls

Write(c, st, event) ==
  /\ document' = [stage |-> st,
                  audit |-> Append(call[c].snapshot.audit, event)]
  /\ call' = [call EXCEPT ![c] = Idle]
  /\ UNCHANGED calls

\* AuditEvent; of the reference it has the name and the version, which say as much
\* among models of one identity.
Audited(type, m, previous, new, displaced) ==
  [type |-> type, model |-> m, previous |-> previous, new |-> new,
   displaced |-> displaced]

\* Mutant: a version that exists is registered once more.
RegisterAgain(c) ==
  LET m == call[c].model
      st == call[c].snapshot.stage IN
  /\ Changing(c, "register")
  /\ Write(c, [st EXCEPT ![m] = "registered"],
           Audited("model_registered", m, "created", "registered", NoModel))

Register(c) ==
  LET m == call[c].model
      st == call[c].snapshot.stage IN
  /\ Changing(c, "register")
  /\ st[m] = "created"
  /\ Write(c, [st EXCEPT ![m] = "registered"],
           Audited("model_registered", m, "created", "registered", NoModel))

\* Mutant: a second version may enter production beside the first.
TransitionUnguarded(c) ==
  LET m == call[c].model
      target == call[c].target
      st == call[c].snapshot.stage IN
  /\ Changing(c, "transition")
  /\ st[m] # "created"
  /\ <<st[m], target>> \in LIFECYCLE_TRANSITIONS
  /\ Write(c, [st EXCEPT ![m] = target],
           Audited("lifecycle_transition", m, st[m], target, NoModel))

\* Mutant: any stage may follow any other.
TransitionIllegal(c) ==
  LET m == call[c].model
      target == call[c].target
      st == call[c].snapshot.stage IN
  /\ Changing(c, "transition")
  /\ st[m] # "created" /\ target # "created"
  /\ target = "production" => InProduction(st, m) \ {m} = {}
  /\ Write(c, [st EXCEPT ![m] = target],
           Audited("lifecycle_transition", m, st[m], target, NoModel))

Transition(c) ==
  LET m == call[c].model
      target == call[c].target
      st == call[c].snapshot.stage IN
  /\ Changing(c, "transition")
  /\ st[m] # "created"
  /\ <<st[m], target>> \in LIFECYCLE_TRANSITIONS
  /\ target = "production" => InProduction(st, m) \ {m} = {}
  /\ Write(c, [st EXCEPT ![m] = target],
           Audited("lifecycle_transition", m, st[m], target, NoModel))

\* promote_to_production: the incumbent, if there is one, becomes champion.
Promote(c) ==
  LET m == call[c].model
      st == call[c].snapshot.stage IN
  /\ Changing(c, "promote")
  /\ st[m] = "champion"
  /\ \/ /\ InProduction(st, m) = {}
        /\ Write(c, [st EXCEPT ![m] = "production"],
                 Audited("model_promoted", m, st[m], "production", NoModel))
     \/ \E incumbent \in Models :
          /\ InProduction(st, m) = {incumbent}
          /\ Write(c, [st EXCEPT ![incumbent] = "champion",
                                 ![m] = "production"],
                   Audited("model_promoted", m, st[m], "production",
                           incumbent))

\* Mutant: the version rolled back from stays where it is.
RollbackBoth(c) ==
  LET m == call[c].model
      st == call[c].snapshot.stage IN
  /\ Changing(c, "rollback")
  /\ st[m] = "champion"
  /\ \E current \in Models :
       /\ InProduction(st, m) = {current}
       /\ Write(c, [st EXCEPT ![m] = "production"],
                Audited("model_rollback", m, st[current], "production",
                        current))

\* rollback: the audit event of the restored version carries the stage of the
\* version it replaces as its previous one.
Rollback(c) ==
  LET m == call[c].model
      st == call[c].snapshot.stage IN
  /\ Changing(c, "rollback")
  /\ st[m] = "champion"
  /\ \E current \in Models :
       /\ InProduction(st, m) = {current}
       /\ Write(c, [st EXCEPT ![current] = "champion", ![m] = "production"],
                Audited("model_rollback", m, st[current], "production",
                        current))
-----------------------------------------------------------------------------
\* A guard raises, the file cannot be written, or the caller gives up; the
\* lock is released and the document is untouched.
Fail(c) ==
  /\ ~InPhase(c, "idle")
  /\ call' = [call EXCEPT ![c] = Idle]
  /\ UNCHANGED <<document, calls>>

\* A process dies with all its callers.
Crash(p) ==
  /\ \E c \in Callers : ProcessOf[c] = p /\ ~InPhase(c, "idle")
  /\ call' = [c \in Callers |-> IF ProcessOf[c] = p THEN Idle ELSE call[c]]
  /\ UNCHANGED <<document, calls>>

\* The arguments a call may have: only a transition has a target, only a
\* rollback a source, of the identity of the version it restores.
AskAny(c) ==
  \E m \in Models :
    \/ Ask(c, "register", m, "registered", m)
    \/ \E target \in LifecycleStage : Ask(c, "transition", m, target, m)
    \/ Ask(c, "promote", m, "production", m)
    \/ \E source \in Models :
         /\ IdentityOf[source] = IdentityOf[m]
         /\ Ask(c, "rollback", m, "production", source)

Next ==
  \/ \E c \in Callers :
       \/ AskAny(c)
       \/ CandidateRead(c) \/ IncumbentCompared(c) \/ SourceRead(c)
       \/ Lock(c)
       \/ Register(c) \/ Transition(c) \/ Promote(c) \/ Rollback(c)
       \/ Fail(c)
  \/ \E p \in {ProcessOf[c] : c \in Callers} : Crash(p)

Spec == Init /\ [][Next]_vars
-----------------------------------------------------------------------------
(***************************************************************************)
(* Properties.                                                             *)
(***************************************************************************)
\* An identity never has two versions in production, whichever processes
\* write the file over each other: every write replaces the whole document,
\* and transition, promote_to_production and rollback leave at most one.
UniqueIn(d) ==
  \A m, n \in Models :
    /\ IdentityOf[m] = IdentityOf[n]
    /\ d.stage[m] = "production" /\ d.stage[n] = "production"
    => m = n

UniqueProduction == UniqueIn(document)

\* The events that say something of m, and where the event leaves it.
Mentions(event, m) == m \in {event.model, event.displaced}

LeftIn(event, m) == IF event.model = m THEN event.new ELSE "champion"

\* The audit history explains the stages: a version is where the newest event
\* that mentions it, as the version changed or as the one displaced, has left
\* it, and one that no event mentions is not in the registry.  The two halves
\* of the file agree after any lost update, failure or crash.
ExplainedIn(d) ==
  \A m \in Models :
    LET said == {i \in DOMAIN d.audit : Mentions(d.audit[i], m)} IN
    /\ said = {} => d.stage[m] = "created"
    /\ \A i \in said :
         (\A j \in said : j <= i) => d.stage[m] = LeftIn(d.audit[i], m)

AuditExplains == ExplainedIn(document)

\* No version reaches production without having been taken through each
\* stage before it, by audited calls: transition refuses every shortcut, and
\* promotion and rollback start from a champion.
ProductionEarned ==
  \A m \in Models : document.stage[m] = "production" =>
    \A stage \in {"registered", "validated", "staging", "challenger",
                  "champion", "production"} :
      \E i \in DOMAIN document.audit :
        document.audit[i].model = m /\ document.audit[i].new = stage

\* The history only grows, by one event a write: no thread's _write takes
\* away what another has recorded.
AuditGrows ==
  [][\/ document' = document
     \/ /\ Len(document'.audit) = Len(document.audit) + 1
        /\ SubSeq(document'.audit, 1, Len(document.audit))
             = document.audit]_vars

\* A version that took production from another had been found within bounds
\* of that very version, and every promoted one above the floors
\* (PromotionPolicy, "bounded regression from the incumbent").
PromotionBounded ==
  \A i \in DOMAIN document.audit :
    LET event == document.audit[i] IN
    event.type = "model_promoted" =>
      Approves(event.model, {event.displaced} \ {NoModel})

\* A rollback leaves the version its request says it leaves
\* (RollbackService, "Rollback source is not the current production version").
RollbackLeavesSource ==
  [][\A c \in Callers :
       Rollback(c) =>
         document'.audit[Len(document'.audit)].displaced = call[c].source]_vars

Stages == INSTANCE ModelStages WITH stage <- document.stage

\* Whatever the threads of a process do at once, the stages make one legal
\* move, or one replacement in production, at a time.
LifecycleSteps == [][Stages!Next]_(document.stage)

\* The registry implements the abstract lifecycle.
FollowsLifecycle == Stages!Spec
===============================================================================
