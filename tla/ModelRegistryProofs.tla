------------------------- MODULE ModelRegistryProofs --------------------------
(***************************************************************************)
(* What the model registry guarantees, proved for every value of its       *)
(* constants: first of the file, whichever processes write it; then of one *)
(* process with its threads; then of calls that do not overlap.            *)
(***************************************************************************)
EXTENDS ModelRegistry, SequenceTheorems, TLAPS

(***************************************************************************)
(* The file is sound in itself: every write replaces stages and history    *)
(* together, with one event that accounts for the difference.              *)
(***************************************************************************)
\* The stages a version has been through when it is in the given one.
Before(stage) ==
  CASE stage = "registered" -> {"registered"}
    [] stage = "validated"  -> {"registered", "validated"}
    [] stage = "staging"    -> {"registered", "validated", "staging"}
    [] stage = "challenger" -> {"registered", "validated", "staging",
                                "challenger"}
    [] stage = "champion"   -> {"registered", "validated", "staging",
                                "challenger", "champion"}
    [] stage = "production" -> {"registered", "validated", "staging",
                                "challenger", "champion", "production"}
    [] OTHER -> {}

Reached(d, m, stage) ==
  \E i \in DOMAIN d.audit : d.audit[i].model = m /\ d.audit[i].new = stage

EarnedIn(d) ==
  \A m \in Models : \A stage \in Before(d.stage[m]) : Reached(d, m, stage)

Sound(d) == d \in Document /\ UniqueIn(d) /\ ExplainedIn(d) /\ EarnedIn(d)

Serving(c) == ~InPhase(c, "idle")

Inductive ==
  /\ TypeOK
  /\ Sound(document)
  /\ \A c \in Callers : Serving(c) => Sound(call[c].snapshot)

\* A snapshot and the document that a change of m makes of it.
Accounts(d, st, event) ==
  /\ st \in [Models -> LifecycleStage] /\ event \in AuditEvent
  /\ \A m \in Models :
       st[m] = IF m = event.model THEN event.new
               ELSE IF m = event.displaced THEN "champion" ELSE d.stage[m]
  /\ Before(event.new) \subseteq Before(d.stage[event.model]) \cup {event.new}
  /\ event.displaced \in Models => d.stage[event.displaced] = "production"

-----------------------------------------------------------------------------
LEMMA EmptyIsSound == Sound(Empty)
<1>1. Empty \in Document
  BY DEF Empty, Document, LifecycleStage
<1>2. UniqueIn(Empty) /\ EarnedIn(Empty)
  BY DEF Empty, UniqueIn, EarnedIn, Before
<1>3. ExplainedIn(Empty)
  <2>1. DOMAIN Empty.audit = {}
    BY DEF Empty
  <2>2. \A m \in Models : Empty.stage[m] = "created"
    BY DEF Empty
  <2>3. QED
    BY <2>1, <2>2, Zenon DEF ExplainedIn
<1>4. QED
  BY <1>1, <1>2, <1>3 DEF Sound

LEMMA ServingType ==
  ASSUME TypeOK, NEW c \in Callers
  PROVE  /\ Serving(c) <=> call[c] \in Call
         /\ ~Serving(c) <=> call[c] = Idle
BY DEF TypeOK, Serving, InPhase, Idle, Call

LEMMA AppendedAudit ==
  ASSUME NEW audit \in Seq(AuditEvent), NEW event \in AuditEvent
  PROVE  /\ Append(audit, event) \in Seq(AuditEvent)
         /\ DOMAIN Append(audit, event) = DOMAIN audit \cup {Len(audit) + 1}
         /\ \A i \in DOMAIN audit : Append(audit, event)[i] = audit[i]
         /\ Append(audit, event)[Len(audit) + 1] = event
         /\ \A i \in DOMAIN audit : i \in Nat /\ i < Len(audit) + 1
         /\ Len(audit) \in Nat
BY AppendProperties

\* A sound document with one event that accounts for the new stages is sound,
\* if an identity still has one version in production.
LEMMA WrittenIsSound ==
  ASSUME NEW d, Sound(d), NEW st, NEW event, Accounts(d, st, event),
         NEW w, w = [stage |-> st, audit |-> Append(d.audit, event)],
         UniqueIn(w)
  PROVE  Sound(w)
<1> DEFINE last == Len(d.audit) + 1
<1>1. d.audit \in Seq(AuditEvent) /\ event \in AuditEvent
  BY DEF Sound, Document, Accounts
<1>2. /\ w.audit \in Seq(AuditEvent)
      /\ DOMAIN w.audit = DOMAIN d.audit \cup {last}
      /\ \A i \in DOMAIN d.audit : w.audit[i] = d.audit[i]
      /\ w.audit[last] = event
      /\ \A i \in DOMAIN d.audit : i \in Nat /\ i < last
      /\ last \in Nat
  BY <1>1, AppendedAudit
<1>3. w \in Document
  BY <1>2 DEF Document, Accounts
<1>4. ExplainedIn(w)
  <2> SUFFICES ASSUME NEW m \in Models
               PROVE  LET said == {i \in DOMAIN w.audit : Mentions(w.audit[i], m)} IN
                      /\ said = {} => w.stage[m] = "created"
                      /\ \A i \in said : (\A j \in said : j <= i) =>
                           w.stage[m] = LeftIn(w.audit[i], m)
    BY DEF ExplainedIn
  <2> DEFINE said == {i \in DOMAIN w.audit : Mentions(w.audit[i], m)}
             before == {i \in DOMAIN d.audit : Mentions(d.audit[i], m)}
  <2>0. /\ before = {} => d.stage[m] = "created"
        /\ \A i \in before : (\A j \in before : j <= i) =>
             d.stage[m] = LeftIn(d.audit[i], m)
    BY DEF Sound, ExplainedIn
  <2>1. CASE Mentions(event, m)
    <3>1. last \in said /\ \A i \in said : (i >= last => i = last)
      BY <1>2, <2>1
    <3>2. w.stage[m] = LeftIn(event, m)
      BY <2>1 DEF Accounts, Mentions, LeftIn
    <3>3. ASSUME NEW i \in said, \A j \in said : j <= i
          PROVE  i = last
      BY <3>1, <3>3, <1>2
    <3>4. QED
      BY <3>1, <3>2, <3>3, <1>2
  <2>2. CASE ~Mentions(event, m)
    <3>1. said = before
      BY <1>2, <2>2
    <3>2. w.stage[m] = d.stage[m]
      BY <2>2 DEF Accounts, Mentions
    <3>3. \A i \in before : w.audit[i] = d.audit[i]
      BY <1>2
    <3>4. QED
      BY <2>0, <3>1, <3>2, <3>3
  <2>3. QED
    BY <2>1, <2>2
<1>5. EarnedIn(w)
  <2> SUFFICES ASSUME NEW m \in Models, NEW stage \in Before(w.stage[m])
               PROVE  Reached(w, m, stage)
    BY DEF EarnedIn
  <2>1. Reached(d, m, stage) => Reached(w, m, stage)
    BY <1>2 DEF Reached
  <2>2. CASE m = event.model
    <3>1. stage \in Before(d.stage[m]) \/ stage = event.new
      BY <2>2 DEF Accounts
    <3>2. Reached(w, m, event.new)
      BY <2>2, <1>2 DEF Reached
    <3>3. QED
      BY <3>1, <3>2, <2>1 DEF Sound, EarnedIn
  <2>3. CASE m # event.model
    <3>1. Before("champion") \subseteq Before("production")
      BY DEF Before
    <3>2. stage \in Before(d.stage[m])
      BY <2>3, <3>1 DEF Accounts
    <3>3. QED
      BY <3>2, <2>1 DEF Sound, EarnedIn
  <2>4. QED
    BY <2>2, <2>3
<1>6. QED
  BY <1>3, <1>4, <1>5 DEF Sound

-----------------------------------------------------------------------------
(***************************************************************************)
(* What each change writes.                                                *)
(***************************************************************************)
\* Replacing the version in production by a champion of its identity.
LEMMA ReplacedIsSound ==
  ASSUME NEW d, Sound(d), NEW m \in Models, NEW i \in Models, NEW event,
         d.stage[m] = "champion", InProduction(d.stage, m) = {i},
         event \in AuditEvent, event.model = m, event.new = "production",
         event.displaced = i,
         NEW w, w = [stage |-> [d.stage EXCEPT ![i] = "champion",
                                               ![m] = "production"],
                     audit |-> Append(d.audit, event)]
  PROVE  Sound(w)
<1>1. /\ d.stage \in [Models -> LifecycleStage]
      /\ d.stage[i] = "production" /\ IdentityOf[i] = IdentityOf[m] /\ i # m
  BY DEF Sound, Document, InProduction
<1>2. /\ w.stage \in [Models -> LifecycleStage]
      /\ \A n \in Models :
           w.stage[n] = IF n = m THEN "production"
                        ELSE IF n = i THEN "champion" ELSE d.stage[n]
  BY <1>1 DEF LifecycleStage
<1>3. Before("production") \subseteq Before("champion") \cup {"production"}
  BY DEF Before
<1>4. Accounts(d, w.stage, event)
  BY <1>1, <1>2, <1>3 DEF Accounts
<1>5. UniqueIn(w)
  <2> SUFFICES ASSUME NEW n \in Models, NEW k \in Models,
                      IdentityOf[n] = IdentityOf[k],
                      w.stage[n] = "production", w.stage[k] = "production"
               PROVE  n = k
    BY DEF UniqueIn
  <2>1. \A n1 \in Models : IdentityOf[n1] = IdentityOf[m] /\ n1 # m =>
          w.stage[n1] # "production"
    BY <1>2, <1>1 DEF InProduction
  <2>2. QED
    BY <1>2, <1>1, <2>1 DEF Sound, UniqueIn
<1>6. QED
  BY <1>4, <1>5, WrittenIsSound

\* Any other change: one version moves along the graph, into production only
\* when its identity has none there.
LEMMA MovedIsSound ==
  ASSUME NEW d, Sound(d), NEW m \in Models, NEW target \in LifecycleStage,
         NEW event,
         <<d.stage[m], target>> \in LIFECYCLE_TRANSITIONS,
         target = "production" => InProduction(d.stage, m) \ {m} = {},
         event \in AuditEvent, event.model = m, event.new = target,
         event.displaced = NoModel,
         NEW w, w = [stage |-> [d.stage EXCEPT ![m] = target],
                     audit |-> Append(d.audit, event)]
  PROVE  Sound(w)
<1>1. /\ d.stage \in [Models -> LifecycleStage]
      /\ w.stage \in [Models -> LifecycleStage]
      /\ \A n \in Models : w.stage[n] = IF n = m THEN target ELSE d.stage[n]
  BY DEF Sound, Document
<1>2. Before(target) \subseteq Before(d.stage[m]) \cup {target}
  BY DEF Before, LIFECYCLE_TRANSITIONS
<1>3. Accounts(d, w.stage, event)
  BY <1>1, <1>2, RegistryAssumption DEF Accounts
<1>4. UniqueIn(w)
  <2> SUFFICES ASSUME NEW n \in Models, NEW k \in Models,
                      IdentityOf[n] = IdentityOf[k],
                      w.stage[n] = "production", w.stage[k] = "production"
               PROVE  n = k
    BY DEF UniqueIn
  <2>1. target = "production" =>
          \A n1 \in Models \ {m} : IdentityOf[n1] = IdentityOf[m] =>
            d.stage[n1] # "production"
    BY DEF InProduction
  <2>2. QED
    BY <1>1, <2>1 DEF Sound, UniqueIn
<1>5. QED
  BY <1>3, <1>4, WrittenIsSound

LEMMA AuditedType ==
  ASSUME NEW m \in Models, NEW previous \in LifecycleStage,
         NEW new \in LifecycleStage, NEW displaced \in Models \cup {NoModel},
         NEW type \in {"model_registered", "lifecycle_transition",
                       "model_promoted", "model_rollback"}
  PROVE  Audited(type, m, previous, new, displaced) \in AuditEvent
BY DEF Audited, AuditEvent

\* Every write keeps the file sound.
LEMMA RegisterSound ==
  ASSUME Inductive, NEW c \in Callers, Register(c)
  PROVE  Sound(document')
<1> DEFINE m == call[c].model
           d == call[c].snapshot
           event == Audited("model_registered", m, "created", "registered",
                            NoModel)
<1>1. m \in Models /\ Sound(d) /\ d.stage[m] = "created"
  BY ServingType DEF Inductive, Register, Changing, Serving, InPhase, Call
<1>2. /\ "registered" \in LifecycleStage
      /\ <<d.stage[m], "registered">> \in LIFECYCLE_TRANSITIONS
  BY <1>1 DEF LifecycleStage, LIFECYCLE_TRANSITIONS
<1>3. event \in AuditEvent
  BY <1>1, AuditedType DEF LifecycleStage
<1>4. /\ event.model = m /\ event.new = "registered"
      /\ event.displaced = NoModel
  BY DEF Audited
<1>5. document' = [stage |-> [d.stage EXCEPT ![m] = "registered"],
                   audit |-> Append(d.audit, event)]
  BY DEF Register, Write
<1>6. QED
  BY <1>1, <1>2, <1>3, <1>4, <1>5, MovedIsSound

LEMMA TransitionSound ==
  ASSUME Inductive, NEW c \in Callers, Transition(c)
  PROVE  Sound(document')
<1> DEFINE m == call[c].model
           target == call[c].target
           d == call[c].snapshot
           event == Audited("lifecycle_transition", m, d.stage[m], target,
                            NoModel)
<1>1. m \in Models /\ target \in LifecycleStage /\ Sound(d)
  BY ServingType
    DEF Inductive, Transition, Changing, Serving, InPhase, Call
<1>2. /\ <<d.stage[m], target>> \in LIFECYCLE_TRANSITIONS
      /\ target = "production" => InProduction(d.stage, m) \ {m} = {}
  BY DEF Transition
<1>3. event \in AuditEvent
  BY <1>1, AuditedType DEF Sound, Document
<1>4. event.model = m /\ event.new = target /\ event.displaced = NoModel
  BY DEF Audited
<1>5. document' = [stage |-> [d.stage EXCEPT ![m] = target],
                   audit |-> Append(d.audit, event)]
  BY DEF Transition, Write
<1>6. QED
  BY <1>1, <1>2, <1>3, <1>4, <1>5, MovedIsSound

LEMMA PromoteSound ==
  ASSUME Inductive, NEW c \in Callers, Promote(c)
  PROVE  Sound(document')
<1> DEFINE m == call[c].model
           d == call[c].snapshot
           event(displaced) == Audited("model_promoted", m, d.stage[m],
                                       "production", displaced)
<1>1. m \in Models /\ Sound(d) /\ d.stage[m] = "champion"
  BY ServingType DEF Inductive, Promote, Changing, Serving, InPhase, Call
<1>2. \A displaced \in Models \cup {NoModel} :
        /\ event(displaced) \in AuditEvent
        /\ event(displaced).model = m
        /\ event(displaced).new = "production"
        /\ event(displaced).displaced = displaced
  BY <1>1, AuditedType, ZenonT(60) DEF LifecycleStage, Audited
<1>3. CASE /\ InProduction(d.stage, m) = {}
           /\ Write(c, [d.stage EXCEPT ![m] = "production"], event(NoModel))
  <2>1. /\ "production" \in LifecycleStage
        /\ <<d.stage[m], "production">> \in LIFECYCLE_TRANSITIONS
    BY <1>1 DEF LifecycleStage, LIFECYCLE_TRANSITIONS
  <2>2. document' = [stage |-> [d.stage EXCEPT ![m] = "production"],
                     audit |-> Append(d.audit, event(NoModel))]
    BY <1>3 DEF Write
  <2>3. PICK e : e = event(NoModel)
    OBVIOUS
  <2>4. /\ e \in AuditEvent /\ e.model = m /\ e.new = "production"
        /\ e.displaced = NoModel
    BY <1>2, <2>3
  <2>5. QED
    BY <1>1, <1>3, <2>1, <2>2, <2>3, <2>4, MovedIsSound
<1>4. CASE \E i \in Models :
             /\ InProduction(d.stage, m) = {i}
             /\ Write(c, [d.stage EXCEPT ![i] = "champion",
                                         ![m] = "production"], event(i))
  <2>1. PICK i \in Models :
          /\ InProduction(d.stage, m) = {i}
          /\ Write(c, [d.stage EXCEPT ![i] = "champion",
                                      ![m] = "production"], event(i))
    BY <1>4
  <2>2. document' = [stage |-> [d.stage EXCEPT ![i] = "champion",
                                               ![m] = "production"],
                     audit |-> Append(d.audit, event(i))]
    BY <2>1 DEF Write
  <2>3. PICK e : e = event(i)
    OBVIOUS
  <2>4. /\ e \in AuditEvent /\ e.model = m /\ e.new = "production"
        /\ e.displaced = i
    BY <1>2, <2>3
  <2>5. QED
    BY <1>1, <2>1, <2>2, <2>3, <2>4, ReplacedIsSound
<1>5. QED
  BY <1>3, <1>4 DEF Promote

LEMMA RollbackSound ==
  ASSUME Inductive, NEW c \in Callers, Rollback(c)
  PROVE  Sound(document')
<1> DEFINE m == call[c].model
           d == call[c].snapshot
<1>1. m \in Models /\ Sound(d) /\ d.stage[m] = "champion"
  BY ServingType DEF Inductive, Rollback, Changing, Serving, InPhase, Call
<1>2. PICK i \in Models :
        /\ InProduction(d.stage, m) = {i}
        /\ Write(c, [d.stage EXCEPT ![i] = "champion", ![m] = "production"],
                 Audited("model_rollback", m, d.stage[i], "production", i))
  BY DEF Rollback
<1> DEFINE event == Audited("model_rollback", m, d.stage[i], "production", i)
<1>3. event \in AuditEvent
  BY <1>1, AuditedType DEF LifecycleStage, Sound, Document
<1>4. event.model = m /\ event.new = "production" /\ event.displaced = i
  BY DEF Audited
<1>5. document' = [stage |-> [d.stage EXCEPT ![i] = "champion",
                                             ![m] = "production"],
                   audit |-> Append(d.audit, event)]
  BY <1>2 DEF Write
<1>6. QED
  BY <1>1, <1>2, <1>3, <1>4, <1>5, ReplacedIsSound

-----------------------------------------------------------------------------
(***************************************************************************)
(* The steps.                                                              *)
(***************************************************************************)
\* What a step of c does to the calls, and a step that writes to the file.
Reads(c) ==
  \/ AskAny(c)
  \/ CandidateRead(c) \/ IncumbentCompared(c) \/ SourceRead(c) \/ Lock(c)

Changes(c) == Register(c) \/ Transition(c) \/ Promote(c) \/ Rollback(c)

LEMMA ChangeEnds ==
  ASSUME NEW c \in Callers, Changes(c)
  PROVE  /\ InPhase(c, "locked") /\ call' = [call EXCEPT ![c] = Idle]
         /\ UNCHANGED calls
BY DEF Changes, Register, Transition, Promote, Rollback, Write, Changing

\* A call asks for an operation on a version, with a source of its identity.
LEMMA AskAnyIs ==
  ASSUME NEW c \in Callers, AskAny(c)
  PROVE  \E op \in {"register", "transition", "promote", "rollback"},
            m \in Models, target \in LifecycleStage, source \in Models :
           Ask(c, op, m, target, source) /\ IdentityOf[source] = IdentityOf[m]
<1>1. "registered" \in LifecycleStage /\ "production" \in LifecycleStage
  BY DEF LifecycleStage
<1>2. QED
  BY <1>1, Zenon DEF AskAny

LEMMA ReadsType ==
  ASSUME TypeOK, NEW c \in Callers, Reads(c)
  PROVE  /\ UNCHANGED document /\ calls' \in Nat
         /\ \E next \in Call :
              /\ call' = [call EXCEPT ![c] = next]
              /\ \/ next.snapshot \in {Empty, document}
                 \/ Serving(c) /\ next.snapshot = call[c].snapshot
<1>1. CASE AskAny(c)
  <2>1. PICK op \in {"register", "transition", "promote", "rollback"},
             m \in Models, target \in LifecycleStage, source \in Models :
          Ask(c, op, m, target, source)
    BY <1>1, AskAnyIs
  <2> DEFINE next == [op |-> op,
                      phase |-> IF op \in {"promote", "rollback"}
                                  THEN "asked" ELSE "ready",
                      model |-> m, target |-> target, source |-> source,
                      snapshot |-> Empty]
  <2>2. next \in Call
    BY EmptyIsSound DEF Sound, Call
  <2>3. call' = [call EXCEPT ![c] = next] /\ next.snapshot = Empty
    BY <2>1 DEF Ask
  <2>4. UNCHANGED document /\ calls' \in Nat
    BY <2>1 DEF Ask, TypeOK
  <2>5. QED
    BY <2>2, <2>3, <2>4
<1>2. ASSUME NEW phase \in {"checked", "ready"}, Proceed(c, phase), Serving(c)
      PROVE  /\ UNCHANGED document /\ calls' \in Nat
             /\ \E next \in Call :
                  /\ call' = [call EXCEPT ![c] = next]
                  /\ \/ next.snapshot \in {Empty, document}
                     \/ Serving(c) /\ next.snapshot = call[c].snapshot
  <2>1. call[c] \in Call
    BY <1>2, ServingType
  <2> DEFINE next == [call[c] EXCEPT !.phase = phase]
  <2>2. next \in Call /\ next.snapshot = call[c].snapshot
    BY <2>1 DEF Call
  <2>3. call' = [call EXCEPT ![c] = next]
    BY <1>2 DEF Proceed, TypeOK
  <2>4. UNCHANGED document /\ calls' \in Nat
    BY <1>2 DEF Proceed, TypeOK
  <2>5. QED
    BY <1>2, <2>2, <2>3, <2>4
<1>3. CASE CandidateRead(c) \/ IncumbentCompared(c) \/ SourceRead(c)
  <2>1. /\ Serving(c)
        /\ \E phase \in {"checked", "ready"} : Proceed(c, phase)
    BY <1>3 DEF CandidateRead, IncumbentCompared, SourceRead, Serving, InPhase
  <2>2. QED
    BY <2>1, <1>2
<1>4. CASE Lock(c)
  <2>1. call[c] \in Call
    BY <1>4, ServingType DEF Lock, Serving, InPhase
  <2> DEFINE next == [call[c] EXCEPT !.phase = "locked", !.snapshot = document]
  <2>2. next \in Call /\ next.snapshot = document
    BY <2>1 DEF Call, TypeOK
  <2>3. call' = [call EXCEPT ![c] = next]
    BY <1>4 DEF Lock, TypeOK
  <2>4. UNCHANGED document /\ calls' \in Nat
    BY <1>4 DEF Lock, TypeOK
  <2>5. QED
    BY <2>2, <2>3, <2>4
<1>5. QED
  BY <1>1, <1>3, <1>4 DEF Reads

LEMMA NextIs ==
  ASSUME Next
  PROVE  \/ \E c \in Callers : Reads(c) \/ Changes(c) \/ Fail(c)
         \/ \E p : Crash(p)
BY Zenon DEF Next, Reads, Changes

LEMMA InitInductive == Init => Inductive
BY EmptyIsSound, ServingType
  DEF Init, Inductive, TypeOK, Sound, Serving, InPhase, Idle

LEMMA StepInductive == Inductive /\ [Next]_vars => Inductive'
<1> SUFFICES ASSUME Inductive, [Next]_vars PROVE Inductive'
  OBVIOUS
<1> USE DEF Inductive
<1>1. ASSUME NEW c \in Callers, Reads(c)
      PROVE  Inductive'
  <2>1. /\ UNCHANGED document /\ calls' \in Nat
        /\ \E next \in Call :
             /\ call' = [call EXCEPT ![c] = next]
             /\ \/ next.snapshot \in {Empty, document}
                \/ Serving(c) /\ next.snapshot = call[c].snapshot
    BY <1>1, ReadsType
  <2>2. PICK next \in Call :
          /\ call' = [call EXCEPT ![c] = next]
          /\ \/ next.snapshot \in {Empty, document}
             \/ Serving(c) /\ next.snapshot = call[c].snapshot
    BY <2>1
  <2>3. Sound(next.snapshot)
    BY <2>2, EmptyIsSound
  <2>4. \A k \in Callers : call'[k] = IF k = c THEN next ELSE call[k]
    BY <2>2 DEF TypeOK
  <2>5. TypeOK'
    BY <2>1, <2>2 DEF TypeOK
  <2>6. \A k \in Callers : Serving(k)' => Sound(call'[k].snapshot)
    BY <2>3, <2>4 DEF Serving, InPhase
  <2>7. Sound(document')
    BY <2>1
  <2>8. QED
    BY <2>5, <2>6, <2>7 DEF Sound, UniqueIn, ExplainedIn, EarnedIn
<1>2. ASSUME NEW c \in Callers, Changes(c)
      PROVE  Inductive'
  <2>1. Sound(document')
    BY <1>2, RegisterSound, TransitionSound, PromoteSound, RollbackSound
      DEF Changes
  <2>2. /\ call' = [call EXCEPT ![c] = Idle] /\ UNCHANGED calls
    BY <1>2, ChangeEnds
  <2>3. \A k \in Callers : call'[k] = IF k = c THEN Idle ELSE call[k]
    BY <2>2 DEF TypeOK
  <2>4. TypeOK'
    BY <2>1, <2>2 DEF TypeOK, Sound
  <2>5. \A k \in Callers : Serving(k)' => Sound(call'[k].snapshot)
    BY <2>3 DEF Serving, InPhase, Idle
  <2>6. QED
    BY <2>1, <2>4, <2>5
<1>3. ASSUME UNCHANGED document, UNCHANGED calls,
             call' \in [Callers -> Call \cup {Idle}],
             \A k \in Callers : call'[k] \in {Idle, call[k]}
      PROVE  Inductive'
  <2>1. TypeOK'
    BY <1>3 DEF TypeOK
  <2>2. \A k \in Callers : Serving(k)' => Sound(call'[k].snapshot)
    BY <1>3 DEF Serving, InPhase, Idle
  <2>3. Sound(document')
    BY <1>3
  <2>4. QED
    BY <2>1, <2>2, <2>3
<1>4. ASSUME NEW c \in Callers, Fail(c)
      PROVE  Inductive'
  BY <1>3, <1>4 DEF Fail, TypeOK
<1>5. ASSUME NEW p, Crash(p)
      PROVE  Inductive'
  BY <1>3, <1>5 DEF Crash, TypeOK
<1>6. CASE UNCHANGED vars
  BY <1>3, <1>6 DEF vars, TypeOK
<1>7. QED
  BY <1>1, <1>2, <1>4, <1>5, <1>6, NextIs

THEOREM InductiveAlways == Spec => []Inductive
BY InitInductive, StepInductive, PTL DEF Spec

\* An identity never has two versions in production, with any number of
\* processes writing one registry file (transition, promote_to_production and
\* rollback of FileModelRegistry).
THEOREM ProductionIsUnique == Spec => []UniqueProduction
<1>1. Inductive => UniqueProduction
  BY DEF Inductive, Sound, UniqueProduction
<1>2. QED
  BY <1>1, InductiveAlways, PTL

\* The audit history and the stages of the registry file agree, whichever
\* writes are lost (FileModelRegistry._audit and _write).
THEOREM AuditExplainsStages == Spec => []AuditExplains
<1>1. Inductive => AuditExplains
  BY DEF Inductive, Sound, AuditExplains
<1>2. QED
  BY <1>1, InductiveAlways, PTL

\* A version in production went through every stage before it, by audited
\* calls (LifecycleStateMachine.validate_transition and the champion guards).
THEOREM ProductionIsEarned == Spec => []ProductionEarned
<1>1. Inductive => ProductionEarned
  BY DEF Inductive, Sound, EarnedIn, Reached, Before, ProductionEarned
<1>2. QED
  BY <1>1, InductiveAlways, PTL

-----------------------------------------------------------------------------
(***************************************************************************)
(* One process: its threads share the registry's lock.                     *)
(***************************************************************************)
OneProcess == \A c, k \in Callers : ProcessOf[c] = ProcessOf[k]

\* Of two threads of one process, one holds the lock at a time, and what it
\* has read is still the document when it writes.
SnapshotIsCurrent ==
  \A c \in Callers : InPhase(c, "locked") =>
    /\ call[c].snapshot = document
    /\ \A other \in Callers \ {c} : ~InPhase(other, "locked")

LEMMA StepCurrent ==
  ASSUME OneProcess, Inductive, SnapshotIsCurrent, [Next]_vars
  PROVE  SnapshotIsCurrent'
<1> USE DEF SnapshotIsCurrent
<1>0. TypeOK
  BY DEF Inductive
<1>1. ASSUME UNCHANGED document,
             \A k \in Callers : InPhase(k, "locked")' =>
               InPhase(k, "locked") /\ call'[k] = call[k]
      PROVE  SnapshotIsCurrent'
  BY <1>1 DEF InPhase
<1>2. ASSUME NEW c \in Callers, Lock(c)
      PROVE  SnapshotIsCurrent'
  <2>1. \A k \in Callers \ {c} : ~InPhase(k, "locked") /\ call'[k] = call[k]
    BY <1>0, <1>2 DEF Lock, LockFree, OneProcess, TypeOK
  <2>2. call[c] \in Call
    BY <1>0, <1>2, ServingType DEF Lock, Serving, InPhase
  <2>3. call'[c].snapshot = document /\ UNCHANGED document
    BY <1>0, <1>2, <2>2 DEF Lock, TypeOK, Call
  <2>4. QED
    BY <2>1, <2>3 DEF InPhase
<1>3. ASSUME NEW c \in Callers, AskAny(c)
      PROVE  SnapshotIsCurrent'
  <2>1. PICK op, m, target, source : Ask(c, op, m, target, source)
    BY <1>3, AskAnyIs
  <2>2. call'[c].phase # "locked"
    BY <1>0, <2>1 DEF Ask, TypeOK
  <2>3. QED
    BY <1>0, <1>1, <2>1, <2>2 DEF Ask, TypeOK, InPhase
<1>4. ASSUME NEW c \in Callers,
             CandidateRead(c) \/ IncumbentCompared(c) \/ SourceRead(c)
      PROVE  SnapshotIsCurrent'
  <2>1. PICK phase \in {"checked", "ready"} : Serving(c) /\ Proceed(c, phase)
    BY <1>4 DEF CandidateRead, IncumbentCompared, SourceRead, Serving, InPhase
  <2>2. call[c] \in Call
    BY <1>0, <2>1, ServingType
  <2>3. call'[c].phase # "locked"
    BY <1>0, <2>1, <2>2 DEF Proceed, TypeOK, Call
  <2>4. QED
    BY <1>0, <1>1, <2>1, <2>3 DEF Proceed, TypeOK, InPhase
<1>5. ASSUME NEW c \in Callers, Changes(c)
      PROVE  SnapshotIsCurrent'
  <2>1. InPhase(c, "locked") /\ call' = [call EXCEPT ![c] = Idle]
    BY <1>5, ChangeEnds
  <2>2. \A k \in Callers : ~InPhase(k, "locked")'
    BY <1>0, <2>1 DEF TypeOK, InPhase, Idle
  <2>3. QED
    BY <2>2
<1>6. ASSUME NEW c \in Callers, Fail(c)
      PROVE  SnapshotIsCurrent'
  BY <1>0, <1>1, <1>6 DEF Fail, TypeOK, InPhase, Idle
<1>7. ASSUME NEW p, Crash(p)
      PROVE  SnapshotIsCurrent'
  BY <1>0, <1>1, <1>7 DEF Crash, TypeOK, InPhase, Idle
<1>8. CASE UNCHANGED vars
  BY <1>1, <1>8 DEF vars, InPhase
<1>9. QED
  BY <1>2, <1>3, <1>4, <1>5, <1>6, <1>7, <1>8, NextIs DEF Reads

LEMMA SnapshotsAreCurrent ==
  ASSUME OneProcess
  PROVE  Spec => []SnapshotIsCurrent
<1>1. Init => SnapshotIsCurrent
  BY DEF Init, SnapshotIsCurrent, InPhase, Idle
<1>2. Inductive /\ SnapshotIsCurrent /\ [Next]_vars => SnapshotIsCurrent'
  BY StepCurrent
<1>3. QED
  BY <1>1, <1>2, InductiveAlways, PTL DEF Spec

\* A step that changes the document writes the current one with an event.
LEMMA StepAppends ==
  ASSUME Inductive, SnapshotIsCurrent, [Next]_vars
  PROVE  \/ UNCHANGED document
         \/ \E c \in Callers : Changes(c) /\ call[c].snapshot = document
<1>1. ASSUME NEW c \in Callers, Reads(c)
      PROVE  UNCHANGED document
  BY <1>1, ReadsType DEF Inductive
<1>2. ASSUME NEW c \in Callers, Changes(c)
      PROVE  call[c].snapshot = document
  BY <1>2, ChangeEnds DEF SnapshotIsCurrent
<1>3. QED
  BY <1>1, <1>2, NextIs DEF Fail, Crash, vars

\* The event a change writes: one that took production from a version names
\* the only one its identity had there.
LEMMA ChangeWrites ==
  ASSUME Inductive, NEW c \in Callers, Changes(c)
  PROVE  \E st, event :
           /\ Write(c, st, event)
           /\ event.type \in {"model_promoted", "model_rollback"} =>
                /\ event.model = call[c].model
                /\ call[c].op = IF event.type = "model_promoted"
                                  THEN "promote" ELSE "rollback"
                /\ \/ event.type = "model_promoted"
                        /\ event.displaced = NoModel
                   \/ /\ event.displaced \in Models
                      /\ InProduction(call[c].snapshot.stage, call[c].model)
                           = {event.displaced}
<1> DEFINE m == call[c].model
           st == call[c].snapshot.stage
<1>1. CASE Register(c)
  BY <1>1 DEF Register, Audited
<1>2. CASE Transition(c)
  BY <1>2 DEF Transition, Audited
<1>3. CASE Promote(c)
  <2>1. call[c].op = "promote"
    BY <1>3 DEF Promote, Changing
  <2>2. CASE \E st1 : Write(c, st1, Audited("model_promoted", m, st[m],
                                            "production", NoModel))
    BY <2>1, <2>2 DEF Audited
  <2>3. CASE \E i \in Models :
               /\ InProduction(st, m) = {i}
               /\ \E st1 : Write(c, st1, Audited("model_promoted", m, st[m],
                                                 "production", i))
    BY <2>1, <2>3 DEF Audited
  <2>4. QED
    BY <1>3, <2>2, <2>3 DEF Promote
<1>4. CASE Rollback(c)
  <2>1. call[c].op = "rollback"
    BY <1>4 DEF Rollback, Changing
  <2>2. PICK i \in Models :
          /\ InProduction(st, m) = {i}
          /\ \E st1 : Write(c, st1, Audited("model_rollback", m, st[i],
                                            "production", i))
    BY <1>4 DEF Rollback
  <2>3. QED
    BY <2>1, <2>2 DEF Audited
<1>5. QED
  BY <1>1, <1>2, <1>3, <1>4 DEF Changes

\* No thread's write takes away what another has recorded in the history.
THEOREM AuditOnlyGrows ==
  ASSUME OneProcess
  PROVE  Spec => AuditGrows
<1>1. ASSUME Inductive, SnapshotIsCurrent, [Next]_vars
      PROVE  \/ document' = document
             \/ /\ Len(document'.audit) = Len(document.audit) + 1
                /\ SubSeq(document'.audit, 1, Len(document.audit))
                     = document.audit
  <2>1. SUFFICES ASSUME NEW c \in Callers, Changes(c),
                        call[c].snapshot = document
                 PROVE  /\ Len(document'.audit) = Len(document.audit) + 1
                        /\ SubSeq(document'.audit, 1, Len(document.audit))
                             = document.audit
    BY <1>1, StepAppends
  <2>2. PICK st, event : Write(c, st, event)
    BY <1>1, <2>1, ChangeWrites
  <2>3. document'.audit = Append(document.audit, event)
    BY <2>1, <2>2 DEF Write
  <2>4. document.audit \in Seq(AuditEvent \cup {event})
    BY <1>1 DEF Inductive, Sound, Document
  <2>5. QED
    BY <2>3, <2>4, AppendProperties
<1>2. QED
  BY <1>1, SnapshotsAreCurrent, InductiveAlways, PTL DEF Spec, AuditGrows

LEMMA StepFollows ==
  ASSUME Inductive, SnapshotIsCurrent, [Next]_vars
  PROVE  [Stages!Next]_(document.stage)
<1> DEFINE stage == document.stage
<1> SUFFICES ASSUME NEW c \in Callers, Changes(c), call[c].snapshot = document
             PROVE  Stages!Next
  BY StepAppends
<1> USE DEF Stages!InProduction, InProduction, Stages!LIFECYCLE_TRANSITIONS,
            LIFECYCLE_TRANSITIONS
<1>1. call[c] \in Call
  BY ChangeEnds, ServingType DEF Inductive, Serving, InPhase
<1>2. CASE Register(c)
  <2>1. Stages!Move(call[c].model, "registered")
    BY <1>2 DEF Register, Write, Stages!Move
  <2>2. "registered" \in Stages!LifecycleStage /\ call[c].model \in Models
    BY <1>1 DEF Stages!LifecycleStage, Call
  <2>3. QED
    BY <2>1, <2>2 DEF Stages!Next
<1>3. CASE Transition(c)
  <2>1. <<stage[call[c].model], call[c].target>> \in LIFECYCLE_TRANSITIONS
    BY <1>3 DEF Transition
  <2>2. stage[call[c].model] # "production" \/ call[c].target # "production"
    BY <2>1
  <2>3. Stages!Move(call[c].model, call[c].target)
    BY <1>3, <2>2 DEF Transition, Write, Stages!Move
  <2>4. call[c].target \in Stages!LifecycleStage /\ call[c].model \in Models
    BY <1>1 DEF Stages!LifecycleStage, LifecycleStage, Call
  <2>5. QED
    BY <2>3, <2>4 DEF Stages!Next
<1>4. CASE Promote(c) \/ Rollback(c)
  <2>1. call[c].model \in Models /\ "production" \in Stages!LifecycleStage
    BY <1>1 DEF Stages!LifecycleStage, Call
  <2>2. \/ Stages!Move(call[c].model, "production")
        \/ \E i \in Models : Stages!Replace(call[c].model, i)
    <3> DEFINE m == call[c].model
    <3>1. stage[m] = "champion"
      BY <1>4 DEF Promote, Rollback
    <3>2. CASE /\ InProduction(stage, m) = {}
               /\ document.stage' = [stage EXCEPT ![m] = "production"]
      BY <3>1, <3>2 DEF Stages!Move
    <3>3. CASE \E i \in Models :
                 /\ InProduction(stage, m) = {i}
                 /\ document.stage' = [stage EXCEPT ![i] = "champion",
                                                   ![m] = "production"]
      BY <3>1, <3>3 DEF Stages!Replace
    <3>4. ASSUME NEW st, NEW event, Write(c, st, event)
          PROVE  document.stage' = st
      BY <3>4 DEF Write
    <3>5. \/ /\ InProduction(stage, m) = {}
             /\ \E event : Write(c, [stage EXCEPT ![m] = "production"], event)
          \/ \E i \in Models :
               /\ InProduction(stage, m) = {i}
               /\ \E event : Write(c, [stage EXCEPT ![i] = "champion",
                                                   ![m] = "production"], event)
      BY <1>4, Zenon DEF Promote, Rollback
    <3>6. QED
      BY <3>2, <3>3, <3>4, <3>5
  <2>3. QED
    BY <2>1, <2>2 DEF Stages!Next
<1>5. QED
  BY <1>2, <1>3, <1>4 DEF Changes

\* Whatever its threads do at once, a process takes one legal move, or one
\* replacement in production, at a time (FileModelRegistry.transition,
\* promote_to_production and rollback).
THEOREM LifecycleStepsAreLegal ==
  ASSUME OneProcess
  PROVE  Spec => LifecycleSteps
<1>1. Inductive /\ SnapshotIsCurrent /\ [Next]_vars
        => [Stages!Next]_(document.stage)
  BY StepFollows
<1>2. QED
  BY <1>1, SnapshotsAreCurrent, InductiveAlways, PTL DEF Spec, LifecycleSteps

\* The registry of one process implements the abstract lifecycle: the stages
\* begin as promised and every step is a step of ModelStages or none.
THEOREM ImplementsLifecycle ==
  ASSUME OneProcess
  PROVE  Spec => FollowsLifecycle
<1>1. Init => Stages!Init
  BY DEF Init, Empty, Stages!Init
<1>2. Spec => LifecycleSteps
  BY LifecycleStepsAreLegal
<1>3. QED
  BY <1>1, <1>2, PTL DEF Spec, LifecycleSteps, FollowsLifecycle, Stages!Spec

-----------------------------------------------------------------------------
(***************************************************************************)
(* Calls that do not overlap: what a service has read still holds when the *)
(* registry acts on it.                                                    *)
(***************************************************************************)
OneCaller == \A c, k \in Callers : c = k

\* The policy's approval, and the version found in production, still stand.
Decided(c) ==
  LET m == call[c].model
      source == call[c].source IN
  /\ IdentityOf[source] = IdentityOf[m]
  /\ call[c].phase \in {"ready", "locked"} /\ call[c].op = "promote" =>
       /\ m \in MeetsFloors
       /\ \A i \in Models : InProduction(document.stage, m) = {i} =>
            <<m, i>> \notin Regressions
  /\ call[c].phase \in {"ready", "locked"} /\ call[c].op = "rollback" =>
       IsProduction(document, source)

DecisionsStand == \A c \in Callers : Serving(c) => Decided(c)

LEMMA StepDecided ==
  ASSUME OneCaller, Inductive, DecisionsStand, [Next]_vars
  PROVE  DecisionsStand'
<1>0. TypeOK
  BY DEF Inductive
<1>1. ASSUME UNCHANGED document,
             \A k \in Callers : call'[k] \in {Idle, call[k]}
      PROVE  DecisionsStand'
  BY <1>1 DEF DecisionsStand, Decided, Serving, InPhase, Idle
<1>2. ASSUME NEW c \in Callers, Changes(c)
      PROVE  DecisionsStand'
  BY <1>0, <1>2, ChangeEnds
    DEF OneCaller, TypeOK, DecisionsStand, Serving, InPhase, Idle
<1>3. ASSUME NEW c \in Callers, AskAny(c)
      PROVE  DecisionsStand'
  <2>1. PICK op \in {"register", "transition", "promote", "rollback"},
             m \in Models, target \in LifecycleStage, source \in Models :
          Ask(c, op, m, target, source) /\ IdentityOf[source] = IdentityOf[m]
    BY <1>3, AskAnyIs
  <2>2. /\ call'[c].model = m /\ call'[c].source = source
        /\ call'[c].op = op
        /\ op \in {"promote", "rollback"} => call'[c].phase = "asked"
    BY <1>0, <2>1 DEF Ask, TypeOK
  <2>3. Decided(c)'
    BY <2>1, <2>2 DEF Decided
  <2>4. QED
    BY <2>3 DEF OneCaller, DecisionsStand
<1>4. ASSUME NEW c \in Callers, Serving(c), UNCHANGED document,
             NEW phase \in {"checked", "ready", "locked"}, NEW snapshot,
             call'[c] = [call[c] EXCEPT !.phase = phase, !.snapshot = snapshot],
             phase = "locked" => call[c].phase = "ready",
             phase = "ready" /\ call[c].op = "promote" =>
               /\ call[c].model \in MeetsFloors
               /\ \A i \in Models :
                    InProduction(document.stage, call[c].model) = {i} =>
                      <<call[c].model, i>> \notin Regressions,
             phase = "ready" /\ call[c].op = "rollback" =>
               IsProduction(document, call[c].source)
      PROVE  DecisionsStand'
  <2>1. call[c] \in Call /\ Decided(c)
    BY <1>0, <1>4, ServingType DEF DecisionsStand
  <2>2. /\ call'[c].model = call[c].model /\ call'[c].source = call[c].source
        /\ call'[c].op = call[c].op /\ call'[c].phase = phase
    BY <1>4, <2>1 DEF Call
  <2>3. Decided(c)'
    BY <1>4, <2>1, <2>2 DEF Decided
  <2>4. QED
    BY <2>3 DEF OneCaller, DecisionsStand
<1>5. ASSUME NEW c \in Callers, NEW phase \in {"checked", "ready"},
             Serving(c), Proceed(c, phase)
      PROVE  /\ UNCHANGED document
             /\ call'[c] = [call[c] EXCEPT !.phase = phase,
                                           !.snapshot = call[c].snapshot]
  <2>1. call[c] \in Call
    BY <1>0, <1>5, ServingType
  <2>2. call'[c] = [call[c] EXCEPT !.phase = phase]
    BY <1>0, <1>5 DEF Proceed, TypeOK
  <2>3. QED
    BY <1>5, <2>1, <2>2 DEF Proceed, Call
<1>6. ASSUME NEW c \in Callers, CandidateRead(c)
      PROVE  DecisionsStand'
  <2>1. Serving(c) /\ Proceed(c, "checked")
    BY <1>6 DEF CandidateRead, Serving, InPhase
  <2>2. QED
    BY <2>1, <1>4, <1>5
<1>7. ASSUME NEW c \in Callers, IncumbentCompared(c)
      PROVE  DecisionsStand'
  <2>1. Serving(c) /\ Proceed(c, "ready") /\ call[c].op = "promote"
    BY <1>7 DEF IncumbentCompared, Serving, InPhase
  <2>2. /\ call[c].model \in MeetsFloors
        /\ \A i \in Models :
             InProduction(document.stage, call[c].model) = {i} =>
               <<call[c].model, i>> \notin Regressions
    BY <1>7 DEF IncumbentCompared, Approves
  <2>3. QED
    BY <2>1, <2>2, <1>4, <1>5
<1>8. ASSUME NEW c \in Callers, SourceRead(c)
      PROVE  DecisionsStand'
  <2>1. /\ Serving(c) /\ Proceed(c, "ready") /\ call[c].op = "rollback"
        /\ IsProduction(document, call[c].source)
    BY <1>8 DEF SourceRead, Serving, InPhase
  <2>2. QED
    BY <2>1, <1>4, <1>5
<1>9. ASSUME NEW c \in Callers, Lock(c)
      PROVE  DecisionsStand'
  <2>1. Serving(c) /\ call[c].phase = "ready" /\ UNCHANGED document
    BY <1>9 DEF Lock, Serving, InPhase
  <2>2. call'[c] = [call[c] EXCEPT !.phase = "locked", !.snapshot = document]
    BY <1>0, <1>9 DEF Lock, TypeOK
  <2>3. QED
    BY <2>1, <2>2, <1>4
<1>10. CASE UNCHANGED vars
  BY <1>1, <1>10 DEF vars
<1>11. ASSUME NEW c \in Callers, Fail(c)
       PROVE  DecisionsStand'
  BY <1>0, <1>1, <1>11 DEF Fail, TypeOK
<1>12. ASSUME NEW p, Crash(p)
       PROVE  DecisionsStand'
  BY <1>0, <1>1, <1>12 DEF Crash, TypeOK
<1>13. QED
  BY <1>2, <1>3, <1>6, <1>7, <1>8, <1>9, <1>10, <1>11, <1>12, NextIs DEF Reads

LEMMA DecisionsAlwaysStand ==
  ASSUME OneCaller
  PROVE  Spec => []DecisionsStand
<1>1. Init => DecisionsStand
  BY DEF Init, DecisionsStand, Serving, InPhase, Idle
<1>2. Inductive /\ DecisionsStand /\ [Next]_vars => DecisionsStand'
  BY StepDecided
<1>3. QED
  BY <1>1, <1>2, InductiveAlways, PTL DEF Spec

LEMMA OneCallerOneProcess == OneCaller => OneProcess
BY DEF OneCaller, OneProcess

\* Without overlap, no version takes production from one it falls too far
\* behind (PromotionService.promote).
THEOREM PromotionIsBounded ==
  ASSUME OneCaller
  PROVE  Spec => []PromotionBounded
<1>1. Init => PromotionBounded
  BY DEF Init, Empty, PromotionBounded
<1>2. ASSUME Inductive, SnapshotIsCurrent, DecisionsStand, PromotionBounded,
             [Next]_vars
      PROVE  PromotionBounded'
  <2>1. CASE UNCHANGED document
    BY <1>2, <2>1 DEF PromotionBounded
  <2>2. ASSUME NEW c \in Callers, Changes(c), call[c].snapshot = document
        PROVE  PromotionBounded'
    <3>1. call[c] \in Call /\ Decided(c) /\ call[c].phase = "locked"
      BY <1>2, <2>2, ChangeEnds, ServingType
        DEF Inductive, DecisionsStand, Serving, InPhase
    <3>2. PICK st, event :
            /\ Write(c, st, event)
            /\ event.type \in {"model_promoted", "model_rollback"} =>
                 /\ event.model = call[c].model
                 /\ call[c].op = IF event.type = "model_promoted"
                                   THEN "promote" ELSE "rollback"
                 /\ \/ event.type = "model_promoted"
                         /\ event.displaced = NoModel
                    \/ /\ event.displaced \in Models
                       /\ InProduction(call[c].snapshot.stage, call[c].model)
                            = {event.displaced}
      BY <1>2, <2>2, ChangeWrites
    <3>3. document'.audit = Append(document.audit, event)
      BY <2>2, <3>2 DEF Write
    <3>4. event.type = "model_promoted" =>
            Approves(event.model, {event.displaced} \ {NoModel})
      BY <2>2, <3>1, <3>2 DEF Decided, Approves
    <3>5. document.audit \in Seq(AuditEvent \cup {event})
      BY <1>2 DEF Inductive, Sound, Document
    <3>6. \A i \in DOMAIN document'.audit :
            \/ i \in DOMAIN document.audit
                 /\ document'.audit[i] = document.audit[i]
            \/ document'.audit[i] = event
      BY <3>3, <3>5, AppendProperties
    <3>7. QED
      BY <1>2, <3>4, <3>6 DEF PromotionBounded
  <2>3. QED
    BY <1>2, <2>1, <2>2, StepAppends
<1>3. QED
  BY <1>1, <1>2, InductiveAlways, SnapshotsAreCurrent, DecisionsAlwaysStand,
     OneCallerOneProcess, PTL DEF Spec

\* Without overlap, a rollback leaves the version its request names
\* (RollbackService.execute).
THEOREM RollbackLeavesItsSource ==
  ASSUME OneCaller
  PROVE  Spec => RollbackLeavesSource
<1>1. ASSUME Inductive, SnapshotIsCurrent, DecisionsStand, NEW c \in Callers,
             Rollback(c)
      PROVE  document'.audit[Len(document'.audit)].displaced = call[c].source
  <2> DEFINE m == call[c].model
             source == call[c].source
             stage == document.stage
  <2>1. /\ Serving(c) /\ call[c].phase = "locked" /\ call[c].op = "rollback"
        /\ call[c].snapshot = document
    BY <1>1 DEF Rollback, Changing, Serving, InPhase, SnapshotIsCurrent
  <2>2. m \in Models /\ source \in Models
    BY <1>1, <2>1, ServingType DEF Inductive, Call
  <2>3. IdentityOf[source] = IdentityOf[m] /\ InProduction(stage, source) = {source}
    BY <1>1, <2>1 DEF DecisionsStand, Decided, IsProduction
  <2>4. PICK i, event :
          /\ i \in Models /\ InProduction(stage, m) = {i}
          /\ document'.audit = Append(document.audit, event)
          /\ event.displaced = i
    BY <1>1, <2>1 DEF Rollback, Write, Audited
  <2>5. i = source
    BY <2>2, <2>3, <2>4 DEF InProduction
  <2>6. document.audit \in Seq(AuditEvent \cup {event})
    BY <1>1 DEF Inductive, Sound, Document
  <2>7. document'.audit[Len(document'.audit)] = event
    BY <2>4, <2>6, AppendProperties
  <2>8. QED
    BY <2>4, <2>5, <2>7
<1>2. Inductive /\ SnapshotIsCurrent /\ DecisionsStand /\ [Next]_vars =>
        [\A c \in Callers :
           Rollback(c) =>
             document'.audit[Len(document'.audit)].displaced
               = call[c].source]_vars
  BY <1>1
<1>3. QED
  BY <1>2, InductiveAlways, SnapshotsAreCurrent, DecisionsAlwaysStand,
     OneCallerOneProcess, PTL DEF Spec, RollbackLeavesSource
===============================================================================
