---------------------------- MODULE InferenceProofs ----------------------------
(***************************************************************************)
(* What InferenceServing promises of its answers, of its events, of the    *)
(* models it registers, of the labels its pipeline learns from and of the  *)
(* frames it gives the models, for any pipelines, training frames, models, *)
(* requests, replicas, calls, limits and retention.                        *)
(***************************************************************************)
EXTENDS InferenceServing, SequenceTheorems, FiniteSetTheorems, WellFoundedInduction, TLAPS

(***************************************************************************)
(* The policy: an approval is earned.                                      *)
(***************************************************************************)

LEMMA DecisionEarned ==
  ASSUME NEW credit, NEW fraud, NEW complete \in BOOLEAN, "approve" \notin Fallbacks,
         Decision(credit, fraud, complete).action = "approve"
  PROVE  /\ Earned(Decision(credit, fraud, complete))
         /\ credit # Failed
<1> DEFINE d == Decision(credit, fraud, complete)
           band == CreditBand(Assessed(credit))
           level == IF FraudOk(fraud) THEN FraudLevel(fraud) ELSE "none"
<1>1. d.credit = credit /\ d.fraud = fraud /\ d.complete = complete
  BY DEF Decision
<1>2. Recommend(band, level, CreditOk(credit), FraudOk(fraud), complete) = "approve"
  BY DEF Decision
<1>3. complete /\ CreditOk(credit)
  BY <1>2 DEF Recommend, Fallbacks
<1>4. band = CreditBand(credit)
  BY <1>3 DEF Assessed
<1>5. FraudOk(fraud) /\ Base(band) = "approve"
  BY <1>2, <1>3 DEF Recommend, Fallbacks
<1>6. level \notin RejectLevels \cup BlockLevels
  BY <1>2, <1>3, <1>5 DEF Recommend, Fallbacks
<1>7. FraudLevel(fraud) \notin RejectLevels \cup BlockLevels
  BY <1>5, <1>6
<1>8. credit # Failed
  BY <1>3 DEF CreditOk
<1> QED
  BY <1>1, <1>3, <1>4, <1>5, <1>7, <1>8 DEF Earned

(***************************************************************************)
(* The calls, and the events of their outcomes.                            *)
(***************************************************************************)
CallType ==
  [caller : {"idle", "unavailable", "refused", "admitted", "waiting", "answered"},
   server : {"none", "computing", "computed", "broken", "answering", "failing"},
   replica : Replicas \cup {None}, complete : BOOLEAN,
   credit : CreditAnswers, anomaly : AnomalyAnswers, told : BOOLEAN]
Event == [call : Calls, success : BOOLEAN]

ServingType ==
  /\ call \in [Calls -> CallType] /\ reachable \in BOOLEAN
  /\ window \in Seq(Event) /\ reported \in Seq(Event)

\* A call is at a replica only when it was sent.
CallerMatches == \A c \in Calls :
  call[c].caller \in {"idle", "admitted", "refused", "answered"} => call[c].server = "none"

\* A call that has not come to its report
Silent(x) == x.caller \in {"idle", "admitted"} \/ x.server \in {"computing", "computed", "broken"}
SilentUnreported == \A c \in Calls, i \in DOMAIN reported :
  Silent(call[c]) => reported[i].call # c

ReportedOnce == \A i, j \in DOMAIN reported : reported[i].call = reported[j].call => i = j

\* A call whose success was recorded, as the replica knows
Success(x) == x.told /\ (x.server = "answering" \/ x.caller = "answered")
TellsTruth == \A c \in Calls : Success(call[c]) =>
  \E i \in DOMAIN reported : reported[i] = [call |-> c, success |-> TRUE]

\* The window is the end of the history.
Latest(kept_, all) ==
  /\ Len(kept_) = IF Len(all) > Retention THEN Retention ELSE Len(all)
  /\ \A i \in 1..Len(kept_) : kept_[i] = all[Len(all) - Len(kept_) + i]

ServingInvariant ==
  ServingType /\ CallerMatches /\ SilentUnreported /\ ReportedOnce /\ TellsTruth /\ Latest(window, reported)

LEMMA CallConstants ==
  /\ NoCall \in CallType /\ Unavailable \in CallType
  /\ Silent(NoCall) /\ ~Silent(Unavailable)
  /\ ~Success(NoCall) /\ ~Success(Unavailable)
BY DEF NoCall, Unavailable, CallType, Silent, Success, CreditAnswers, AnomalyAnswers

\* A step of one call that reports nothing: it does not fall silent again, and
\* tells of no success that was not told before.
LEMMA CallStep ==
  ASSUME ServingInvariant, NEW c \in Calls, NEW change \in CallType,
         call' = [call EXCEPT ![c] = change],
         reachable' \in BOOLEAN, UNCHANGED <<window, reported>>,
         Silent(change) => Silent(call[c]),
         Success(change) => Success(call[c]),
         change.caller \in {"idle", "admitted", "refused", "answered"} => change.server = "none"
  PROVE  ServingInvariant'
<1>1. \A d \in Calls : call'[d] = IF d = c THEN change ELSE call[d]
  BY DEF ServingInvariant, ServingType
<1>2. ServingType'
  BY DEF ServingInvariant, ServingType
<1>3. SilentUnreported'
  BY <1>1 DEF ServingInvariant, SilentUnreported
<1>4. TellsTruth'
  BY <1>1 DEF ServingInvariant, TellsTruth
<1>5. CallerMatches'
  BY <1>1 DEF ServingInvariant, CallerMatches
<1> QED
  BY <1>2, <1>3, <1>4, <1>5 DEF ServingInvariant, ReportedOnce, Latest

\* The calls stay as they are.
LEMMA QuietStep ==
  ASSUME ServingInvariant, UNCHANGED <<call, window, reported>>, reachable' \in BOOLEAN
  PROVE  ServingInvariant'
BY DEF ServingInvariant, ServingType, SilentUnreported, ReportedOnce, TellsTruth,
   Latest, CallerMatches

\* What is kept of a window to which an event is appended is the end of the
\* history to which it is.
LEMMA TrimmedLatest ==
  ASSUME NEW kept_ \in Seq(Event), NEW all \in Seq(Event), Latest(kept_, all),
         NEW event \in Event
  PROVE  /\ Trimmed(Append(kept_, event)) \in Seq(Event)
         /\ Latest(Trimmed(Append(kept_, event)), Append(all, event))
<1> DEFINE more == Append(kept_, event)
           longer == Append(all, event)
<1>1. Retention \in Nat \ {0}
  BY InferenceAssumption
<1>2. /\ more \in Seq(Event) /\ Len(more) = Len(kept_) + 1
      /\ longer \in Seq(Event) /\ Len(longer) = Len(all) + 1
      /\ \A i \in 1..Len(kept_) : more[i] = kept_[i]
      /\ \A i \in 1..Len(all) : longer[i] = all[i]
      /\ more[Len(kept_) + 1] = event /\ longer[Len(all) + 1] = event
  OBVIOUS
<1>3. Len(kept_) \in Nat /\ Len(all) \in Nat
  OBVIOUS
<1>4. \A i \in 1..Len(more) : more[i] = longer[Len(longer) - Len(more) + i]
  <2>1. SUFFICES ASSUME NEW i \in 1..Len(more)
                 PROVE  more[i] = longer[Len(longer) - Len(more) + i]
    OBVIOUS
  <2>2. CASE i = Len(kept_) + 1
    BY <1>2, <1>3, <2>2
  <2>3. CASE i \in 1..Len(kept_)
    <3>1. more[i] = all[Len(all) - Len(kept_) + i]
      BY <1>2, <2>3 DEF Latest
    <3>2. Len(all) - Len(kept_) + i \in 1..Len(all)
      BY <1>1, <1>3, <2>3 DEF Latest
    <3>3. Len(longer) - Len(more) + i = Len(all) - Len(kept_) + i
      BY <1>2, <1>3
    <3> QED
      BY <1>2, <3>1, <3>2, <3>3
  <2> QED
    BY <1>2, <1>3, <2>2, <2>3, i \in 1..Len(kept_) \/ i = Len(kept_) + 1
<1>5. CASE Len(more) > Retention
  <2> DEFINE from == Len(more) - Retention + 1
             last == SubSeq(more, from, Len(more))
  <2>1. from = 2 /\ Len(more) = Retention + 1 /\ Len(longer) > Retention
    BY <1>1, <1>2, <1>3, <1>5 DEF Latest
  <2>2. /\ last \in Seq(Event) /\ Len(last) = Retention
        /\ \A i \in 1..Retention : last[i] = more[1 + i]
    BY <1>1, <1>2, <2>1, SubSeqProperties
  <2>3. \A i \in 1..Len(last) : last[i] = longer[Len(longer) - Len(last) + i]
    <3>1. SUFFICES ASSUME NEW i \in 1..Retention
                   PROVE  last[i] = longer[Len(longer) - Retention + i]
      BY <2>2
    <3>2. 1 + i \in 1..Len(more)
      BY <1>1, <2>1
    <3>3. Len(longer) - Len(more) + (1 + i) = Len(longer) - Retention + i
      BY <1>1, <1>2, <1>3, <2>1
    <3> QED
      BY <1>4, <2>2, <3>2, <3>3
  <2>4. Trimmed(more) = last
    BY <1>5 DEF Trimmed
  <2> QED
    BY <2>1, <2>2, <2>3, <2>4 DEF Latest
<1>6. CASE ~(Len(more) > Retention)
  <2>1. Trimmed(more) = more
    BY <1>6 DEF Trimmed
  <2>2. Len(all) = Len(kept_) /\ ~(Len(longer) > Retention)
    BY <1>1, <1>2, <1>3, <1>6 DEF Latest
  <2> QED
    BY <1>2, <1>4, <2>1, <2>2 DEF Latest
<1> QED
  BY <1>5, <1>6

LEMMA ReportStep ==
  ASSUME ServingInvariant, NEW c \in Calls, Report(c)
  PROVE  ServingInvariant'
<1> DEFINE success == call[c].server = "computed"
           event == [call |-> c, success |-> success]
           change == [call[c] EXCEPT !.server = IF @ = "computed" THEN "answering" ELSE "failing",
                                     !.told = reachable]
<1>1. /\ call[c].server \in {"computed", "broken"}
      /\ call' = [call EXCEPT ![c] = change] /\ reachable' = reachable
      /\ IF reachable THEN /\ window' = Trimmed(Append(window, event))
                           /\ reported' = Append(reported, event)
                      ELSE UNCHANGED <<window, reported>>
  BY DEF Report, Put
<1>2. /\ call \in [Calls -> CallType] /\ call[c] \in CallType /\ reachable \in BOOLEAN
      /\ window \in Seq(Event) /\ reported \in Seq(Event) /\ event \in Event
  BY DEF ServingInvariant, ServingType, Event
<1>3. /\ change \in CallType
      /\ change.server = (IF success THEN "answering" ELSE "failing")
      /\ change.caller = call[c].caller /\ change.told = reachable
  BY <1>1, <1>2 DEF CallType
<1>9. event \in Event /\ event.call = c /\ (success => event = [call |-> c, success |-> TRUE])
  BY DEF Event
<1> HIDE DEF change, event
<1>4. \A d \in Calls : call'[d] = IF d = c THEN change ELSE call[d]
  BY <1>1, <1>2
<1>5. change.caller \notin {"idle", "admitted", "refused", "answered"}
  BY <1>1, <1>3 DEF ServingInvariant, CallerMatches
<1>6. call' \in [Calls -> CallType]
  BY <1>1, <1>2, <1>3
<1>7. CASE reachable
  <2>1. reported' = Append(reported, event)
    BY <1>1, <1>7
  <2>2. /\ reported' \in Seq(Event) /\ Len(reported') = Len(reported) + 1
        /\ \A i \in 1..Len(reported) : reported'[i] = reported[i]
        /\ reported'[Len(reported) + 1] = event
    BY <1>2, <1>9, <2>1
  <2>3. DOMAIN reported = 1..Len(reported) /\ DOMAIN reported' = 1..Len(reported) + 1
        /\ Len(reported) \in Nat
    BY <1>2, <2>2
  <2>4. \A i \in DOMAIN reported : reported[i].call # c
    BY <1>1 DEF ServingInvariant, SilentUnreported, Silent
  <2>5. window' \in Seq(Event) /\ Latest(window', reported')
    BY <1>1, <1>2, <1>7, <1>9, TrimmedLatest DEF ServingInvariant
  <2>6. ServingType'
    BY <1>1, <1>2, <1>6, <2>2, <2>5 DEF ServingType
  <2>7. ReportedOnce'
    BY <1>9, <2>2, <2>3, <2>4 DEF ServingInvariant, ReportedOnce
  <2>8. SilentUnreported'
    <3>1. SUFFICES ASSUME NEW d \in Calls, NEW i \in DOMAIN reported', Silent(call'[d])
                   PROVE  reported'[i].call # d
      BY DEF SilentUnreported
    <3>2. CASE d = c
      BY <1>3, <1>4, <1>5, <3>1, <3>2 DEF Silent
    <3>3. CASE d # c
      BY <1>4, <1>9, <2>2, <2>3, <3>1, <3>3 DEF ServingInvariant, SilentUnreported
    <3> QED
      BY <3>2, <3>3
  <2>9. TellsTruth'
    <3>1. SUFFICES ASSUME NEW d \in Calls, Success(call'[d])
                   PROVE  \E i \in DOMAIN reported' :
                            reported'[i] = [call |-> d, success |-> TRUE]
      BY DEF TellsTruth
    <3>2. CASE d = c
      <4>1. success
        BY <1>3, <1>4, <1>5, <3>1, <3>2 DEF Success
      <4>2. event = [call |-> d, success |-> TRUE]
        BY <1>9, <3>2, <4>1
      <4>3. Len(reported) + 1 \in DOMAIN reported'
        BY <2>3
      <4> QED
        BY <2>2, <4>2, <4>3
    <3>3. CASE d # c
      BY <1>4, <2>2, <2>3, <3>1, <3>3 DEF ServingInvariant, TellsTruth
    <3> QED
      BY <3>2, <3>3
  <2>10. CallerMatches'
    BY <1>4, <1>5 DEF ServingInvariant, CallerMatches
  <2> QED
    BY <2>5, <2>6, <2>7, <2>8, <2>9, <2>10 DEF ServingInvariant
<1>8. CASE ~reachable
  <2>1. UNCHANGED <<window, reported>> /\ reachable' \in BOOLEAN
    BY <1>1, <1>2, <1>8
  <2>2. ~Silent(change) /\ ~Success(change)
    BY <1>3, <1>8, <1>5 DEF Silent, Success
  <2> QED
    BY <1>1, <1>3, <1>5, <2>1, <2>2, CallStep
<1> QED
  BY <1>7, <1>8

(***************************************************************************)
(* The invariant of the service.                                           *)
(***************************************************************************)

\* What the change of a call keeps, whatever else it sets
LEMMA ServiceStep ==
  ASSUME ServingInvariant, ServiceNext
  PROVE  ServingInvariant'
<1> DEFINE Change(c, change) ==
      call' = [call EXCEPT ![c] = change] /\ UNCHANGED <<window, reported>> /\ reachable' = reachable
<1>1. /\ call \in [Calls -> CallType] /\ reachable \in BOOLEAN
      /\ \A c \in Calls : call[c] \in CallType
  BY DEF ServingInvariant, ServingType
<1>2. ASSUME NEW v \in Versions, Replace(v) PROVE ServingInvariant'
  BY <1>1, <1>2, QuietStep DEF Replace
<1>3. ASSUME NEW p \in Replicas, Startup(p) PROVE ServingInvariant'
  BY <1>1, <1>3, QuietStep DEF Startup
<1>4. ASSUME NEW p \in Replicas, Crash(p) PROVE ServingInvariant'
  <2>1. \A c \in Calls : call'[c] = IF call[c].replica = p THEN Unavailable ELSE call[c]
    BY <1>4 DEF Crash
  <2>2. call' \in [Calls -> CallType] /\ UNCHANGED <<window, reported, reachable>>
    BY <1>1, <1>4, CallConstants DEF Crash
  <2>3. ServingType'
    BY <1>1, <2>2 DEF ServingInvariant, ServingType
  <2>4. CallerMatches'
    BY <2>1 DEF ServingInvariant, CallerMatches, Unavailable, NoCall
  <2>5. SilentUnreported'
    BY <2>1, <2>2, CallConstants DEF ServingInvariant, SilentUnreported
  <2>6. TellsTruth'
    BY <2>1, <2>2, CallConstants DEF ServingInvariant, TellsTruth
  <2> QED
    BY <2>2, <2>3, <2>4, <2>5, <2>6 DEF ServingInvariant, ReportedOnce, Latest
<1>5. CASE WindowEnds
  BY <1>1, <1>5, QuietStep DEF WindowEnds
<1>6. CASE RedisChanges
  BY <1>1, <1>6, QuietStep DEF RedisChanges
<1>7. ASSUME NEW c \in Calls, Admit(c) PROVE ServingInvariant'
  <2>1. PICK to \in {"unavailable", "refused", "admitted"} : Change(c, [NoCall EXCEPT !.caller = to])
    BY <1>7 DEF Admit, Put
  <2>2. /\ [NoCall EXCEPT !.caller = to] \in CallType
        /\ [NoCall EXCEPT !.caller = to].server = "none"
        /\ ~Success([NoCall EXCEPT !.caller = to])
    BY CallConstants DEF NoCall, CallType, Success
  <2>3. Silent(call[c])
    BY <1>7, CallConstants DEF Admit
  <2> QED
    BY <1>1, <2>1, <2>2, <2>3, CallStep
<1>8. ASSUME NEW c \in Calls, Send(c) PROVE ServingInvariant'
  <2>1. call[c].caller = "admitted" /\ Silent(call[c])
    BY <1>8 DEF Send, Silent
  <2>2. CASE Change(c, Unavailable)
    BY <1>1, <2>2, CallConstants, CallStep DEF Unavailable, NoCall
  <2>3. ASSUME NEW p \in Replicas, NEW complete \in BOOLEAN,
               Change(c, [call[c] EXCEPT !.caller = "waiting", !.server = "computing",
                                         !.replica = p, !.complete = complete])
        PROVE  ServingInvariant'
    <3> DEFINE change == [call[c] EXCEPT !.caller = "waiting", !.server = "computing",
                                         !.replica = p, !.complete = complete]
    <3>1. /\ change \in CallType /\ change.caller = "waiting" /\ change.server = "computing"
      BY <1>1 DEF CallType
    <3> HIDE DEF change
    <3>2. ~Success(change)
      BY <3>1 DEF Success
    <3> QED
      BY <1>1, <2>1, <2>3, <3>1, <3>2, CallStep DEF change
  <2> QED
    BY <1>8, <2>2, <2>3 DEF Send, Put
<1>9. ASSUME NEW c \in Calls, Predict(c) PROVE ServingInvariant'
  <2>1. PICK credit \in CreditAnswers, anomaly \in AnomalyAnswers :
          Change(c, [call[c] EXCEPT !.server = "computed", !.credit = credit, !.anomaly = anomaly])
    BY <1>9 DEF Predict, Put
  <2> DEFINE change == [call[c] EXCEPT !.server = "computed", !.credit = credit, !.anomaly = anomaly]
  <2>2. /\ change \in CallType /\ change.server = "computed" /\ change.caller = call[c].caller
        /\ change.told = call[c].told
    BY <1>1 DEF CallType
  <2>3. Change(c, change)
    BY <2>1
  <2> HIDE DEF change
  <2>4. Silent(call[c]) /\ call[c].server = "computing"
    BY <1>9 DEF Predict, Silent
  <2>5. (Success(change) => Success(call[c])) /\ change.caller \notin {"idle", "admitted", "refused", "answered"}
    BY <2>2, <2>4 DEF Success, ServingInvariant, CallerMatches
  <2> QED
    BY <1>1, <2>2, <2>3, <2>4, <2>5, CallStep
<1>10. ASSUME NEW c \in Calls, Break(c) PROVE ServingInvariant'
  <2> DEFINE change == [call[c] EXCEPT !.server = "broken"]
  <2>1. Change(c, change) /\ call[c].server = "computing"
    BY <1>10 DEF Break, Put
  <2>2. /\ change \in CallType /\ change.server = "broken" /\ change.caller = call[c].caller
        /\ change.told = call[c].told
    BY <1>1 DEF CallType
  <2> HIDE DEF change
  <2>3. Silent(call[c]) /\ change.caller \notin {"idle", "admitted", "refused", "answered"}
    BY <2>1, <2>2 DEF Silent, ServingInvariant, CallerMatches
  <2>4. Success(change) => Success(call[c])
    BY <2>2, <2>3 DEF Success
  <2> QED
    BY <1>1, <2>1, <2>2, <2>3, <2>4, CallStep
<1>11. ASSUME NEW c \in Calls, Report(c) PROVE ServingInvariant'
  BY <1>11, ReportStep
<1>12. ASSUME NEW c \in Calls, Answer(c) PROVE ServingInvariant'
  <2>1. CASE Change(c, Unavailable)
    BY <1>1, <2>1, CallConstants, CallStep DEF Unavailable, NoCall
  <2>2. CASE /\ call[c].caller = "waiting" /\ call[c].server = "answering"
             /\ Change(c, [call[c] EXCEPT !.caller = "answered", !.server = "none", !.replica = None])
    <3> DEFINE change == [call[c] EXCEPT !.caller = "answered", !.server = "none", !.replica = None]
    <3>1. /\ change \in CallType /\ change.server = "none" /\ change.caller = "answered"
          /\ change.told = call[c].told
      BY <1>1 DEF CallType
    <3>2. Change(c, change)
      BY <2>2
    <3> HIDE DEF change
    <3>3. ~Silent(change) /\ (Success(change) => Success(call[c]))
      BY <2>2, <3>1 DEF Silent, Success
    <3> QED
      BY <1>1, <3>1, <3>2, <3>3, CallStep
  <2> QED
    BY <1>12, <2>1, <2>2 DEF Answer, Put
<1>13. ASSUME NEW c \in Calls, TimeOut(c) PROVE ServingInvariant'
  <2> DEFINE change == [call[c] EXCEPT !.caller = "unavailable"]
  <2>1. Change(c, change) /\ call[c].caller = "waiting"
    BY <1>13 DEF TimeOut, Put
  <2>2. /\ change \in CallType /\ change.caller = "unavailable" /\ change.server = call[c].server
        /\ change.told = call[c].told
    BY <1>1 DEF CallType
  <2> HIDE DEF change
  <2>3. (Silent(change) => Silent(call[c])) /\ (Success(change) => Success(call[c]))
    BY <2>2 DEF Silent, Success
  <2> QED
    BY <1>1, <2>1, <2>2, <2>3, CallStep
<1> QED
  BY <1>2, <1>3, <1>4, <1>5, <1>6, <1>7, <1>8, <1>9, <1>10, <1>11, <1>12, <1>13 DEF ServiceNext

LEMMA ServingInit == Init => ServingInvariant
<1>1. SUFFICES ASSUME Init PROVE ServingInvariant
  OBVIOUS
<1>2. call = [c \in Calls |-> NoCall] /\ reachable = TRUE /\ window = <<>> /\ reported = <<>>
  BY <1>1 DEF Init
<1>3. ServingType /\ SilentUnreported /\ ReportedOnce
  BY <1>2, CallConstants DEF ServingType, SilentUnreported, ReportedOnce
<1>4. CallerMatches /\ TellsTruth
  BY <1>2, CallConstants DEF CallerMatches, TellsTruth, NoCall
<1>5. Latest(window, reported)
  BY <1>2, InferenceAssumption DEF Latest
<1> QED
  BY <1>3, <1>4, <1>5 DEF ServingInvariant

LEMMA ServingNext == ServingInvariant /\ [Next]_vars => ServingInvariant'
<1>1. SUFFICES ASSUME ServingInvariant, [Next]_vars PROVE ServingInvariant'
  OBVIOUS
<1>2. reachable \in BOOLEAN
  BY <1>1 DEF ServingInvariant, ServingType
<1>3. CASE ServiceNext
  BY <1>1, <1>3, ServiceStep
<1>4. CASE UNCHANGED serving
  BY <1>1, <1>2, <1>4, QuietStep DEF serving
<1> QED
  BY <1>1, <1>3, <1>4 DEF Next, FitLibrary, RunTraining, Infer, vars

LEMMA ServingReported == ServingInvariant => OutcomesReported
<1>1. SUFFICES ASSUME ServingInvariant PROVE OutcomesReported
  OBVIOUS
<1> DEFINE from == Len(reported) - Len(window) + 1
           end == SubSeq(reported, from, Len(reported))
<1>2. /\ window \in Seq(Event) /\ reported \in Seq(Event)
      /\ Len(window) \in Nat /\ Len(reported) \in Nat /\ Retention \in Nat \ {0}
  BY <1>1, InferenceAssumption DEF ServingInvariant, ServingType
<1>3. /\ Len(window) = (IF Len(reported) > Retention THEN Retention ELSE Len(reported))
      /\ \A i \in 1..Len(window) : window[i] = reported[Len(reported) - Len(window) + i]
  BY <1>1 DEF ServingInvariant, Latest
<1>4. Len(window) <= Retention /\ (Len(reported) >= Retention => Len(window) = Retention)
  BY <1>2, <1>3
<1>5. from \in 1..Len(reported) + 1
  <2>1. Len(window) <= Len(reported)
    BY <1>2, <1>3
  <2> QED
    BY <1>2, <2>1
<1>6. /\ end \in Seq(Event) /\ Len(end) = Len(window)
      /\ \A i \in 1..Len(window) : end[i] = reported[Len(reported) - Len(window) + i]
  BY <1>2, <1>5, SubSeqProperties
<1>7. window = end
  BY <1>2, <1>3, <1>6, SeqEqual
<1>8. \A c \in Answered : call[c].told =>
        \E i \in DOMAIN reported : reported[i] = [call |-> c, success |-> TRUE]
  BY <1>1 DEF Answered, ServingInvariant, TellsTruth, Success
<1> QED
  BY <1>1, <1>4, <1>7, <1>8 DEF OutcomesReported, ServingInvariant, ReportedOnce

\* The window the replicas share holds the latest outcomes, each once and in
\* order, whatever crashes, timeouts and outages of Redis come between.
THEOREM OutcomesAreReported == Spec => []OutcomesReported
<1> QED
  BY ServingInit, ServingNext, ServingReported, PTL DEF Spec

(***************************************************************************)
(* Approvals.                                                              *)
(***************************************************************************)
HasRequired(f) ==
  /\ f.rows # <<>> /\ Required \subseteq Columns(f)
  /\ \A c \in Required, row \in ToSet(f.rows) : row.cell[c] # Missing

DecisionsEarned == "approve" \notin Fallbacks =>
  \A d \in decisions : d.verdict.action = "approve" => Earned(d.verdict) /\ HasRequired(d.row)

LEMMA InferEarned ==
  ASSUME DecisionsEarned, NEW r \in Requests, Infer(r)
  PROVE  DecisionsEarned'
<1> DEFINE processed == Transformed(Raw(r))
<1>1. PICK credit \in Probability \cup {NaN, Failed},
           fraud \in Probability \cup {NaN, Failed, Absent} :
        /\ credit # Failed => processed.rows # <<>>
        /\ decisions' = decisions \cup
             {[raw |-> Raw(r), row |-> processed,
               verdict |-> Decision(credit, fraud, Complete(processed))]}
  BY DEF Infer
<1> HIDE DEF processed
<1>2. Complete(processed) \in BOOLEAN
  BY DEF Complete
<1>3. ASSUME "approve" \notin Fallbacks,
             Decision(credit, fraud, Complete(processed)).action = "approve"
      PROVE  Earned(Decision(credit, fraud, Complete(processed))) /\ HasRequired(processed)
  <2>1. Earned(Decision(credit, fraud, Complete(processed))) /\ processed.rows # <<>>
    BY <1>1, <1>2, <1>3, DecisionEarned
  <2>2. Complete(processed)
    BY <2>1 DEF Earned, Decision
  <2> QED
    BY <2>1, <2>2 DEF Complete, HasRequired
<1> QED
  BY <1>1, <1>3 DEF DecisionsEarned

LEMMA EarnedNext == DecisionsEarned /\ [Next]_vars => DecisionsEarned'
<1>1. SUFFICES ASSUME DecisionsEarned, [Next]_vars PROVE DecisionsEarned'
  OBVIOUS
<1>2. ASSUME NEW r \in Requests, Infer(r) PROVE DecisionsEarned'
  BY <1>1, <1>2, InferEarned
<1>3. CASE UNCHANGED decisions
  BY <1>1, <1>3 DEF DecisionsEarned
<1>4. ServiceNext => UNCHANGED decisions
  BY DEF ServiceNext, Service, Replace, Startup, Crash, WindowEnds, RedisChanges, Admit, Send,
         Predict, Break, Report, Answer, TimeOut
<1> QED
  BY <1>1, <1>2, <1>3, <1>4 DEF Next, FitLibrary, RunTraining, vars

LEMMA AnswersEarned == ServingInvariant /\ "approve" \notin Fallbacks =>
  \A c \in Answered : Verdict(c).action = "approve" => Earned(Verdict(c))
<1>1. SUFFICES ASSUME ServingInvariant, "approve" \notin Fallbacks, NEW c \in Calls, Verdict(c).action = "approve"
               PROVE  Earned(Verdict(c))
  BY DEF Answered
<1>2. call[c].complete \in BOOLEAN
  BY <1>1 DEF ServingInvariant, ServingType, CallType
<1> QED
  BY <1>1, <1>2, DecisionEarned DEF Verdict

\* Where no fallback is an approval, no failure, timeout, crash or gap in a
\* required column turns a request into one that its data, its credit answer and
\* its fraud answer do not earn, whatever the models answer on other gaps.
THEOREM ApprovalsAreEarned == Spec => []ApprovalEarned
<1>1. Init => DecisionsEarned
  BY DEF Init, DecisionsEarned
<1>2. DecisionsEarned /\ ServingInvariant => ApprovalEarned
  BY AnswersEarned DEF DecisionsEarned, HasRequired, ApprovalEarned
<1> QED
  BY <1>1, <1>2, EarnedNext, ServingInit, ServingNext, PTL DEF Spec

(***************************************************************************)
(* Training: what is registered and loaded is what was selected, for any   *)
(* zoos, examples, splits, scores and number of jobs.                      *)
(***************************************************************************)
AlgorithmNames == {config.algorithm : config \in Configs}
Trainers == {Fitted(config, rows) : config \in Configs, rows \in SUBSET Examples}
Results == {Scored(config, score) : config \in Configs, score \in Scores}
Reports == [model : AlgorithmNames, trainer : Trainers, rows : SUBSET Examples,
            score : Scores, eligible : BOOLEAN]
TrainerTables == UNION {[A -> Trainers] : A \in SUBSET AlgorithmNames}
Phases == {"none", "training", "selected", "dumping", "saved"}

JobType ==
  [phase : Phases, zoo : Seq(Configs), train : SUBSET Examples, holdout : SUBSET Examples,
   trainers : TrainerTables, results : Seq(Results), reports : Seq(Reports),
   champion : Nat, path : Paths \cup {"none"}]

Files == [whole : BOOLEAN, trainer : Trainers]

\* Each trainer kept was fitted on the training part by the configuration of
\* one of the results, and every result has its algorithm's trainer.
TrainersFit(j) ==
  /\ \A a \in DOMAIN j.trainers :
       /\ j.trainers[a].rows = j.train
       /\ \E k \in DOMAIN j.results :
            j.results[k].algorithm = a /\ j.results[k].params = j.trainers[a].params
  /\ \A k \in DOMAIN j.results : j.results[k].algorithm \in DOMAIN j.trainers

\* The reports follow the results, once the zoo is trained.
ReportsFollow(j) ==
  /\ j.reports # <<>> => j.zoo = <<>>
  /\ Len(j.reports) <= Len(j.results)
  /\ \A k \in DOMAIN j.reports :
       /\ j.reports[k].model = j.results[k].algorithm
       /\ j.reports[k].rows = j.holdout
       /\ j.reports[k].trainer = j.trainers[j.reports[k].model]

\* The champion is an eligible report of the highest score, and no other
\* report has its name.
ChampionSelected(j) == j.phase \in {"selected", "dumping", "saved"} =>
  /\ j.champion \in DOMAIN j.reports /\ j.reports[j.champion].eligible
  /\ \A k \in DOMAIN j.reports :
       j.reports[k].eligible => j.reports[k].score <= j.reports[j.champion].score
  /\ \A k, l \in DOMAIN j.reports : j.reports[k].model = j.reports[l].model => k = l
  /\ Len(j.reports) = Len(j.results)

\* The file is the champion's until the job ends.
Filed(j, files) ==
  /\ j.phase \in {"dumping", "saved"} =>
       /\ j.path \in DOMAIN files /\ files[j.path] \in Files
       /\ files[j.path].trainer = j.reports[j.champion].trainer
  /\ j.phase = "saved" => files[j.path].whole

JobSound(j) ==
  j \in JobType /\ j.train \cap j.holdout = {} /\ TrainersFit(j) /\ ReportsFollow(j) /\ ChampionSelected(j)

RegisteredSound(r) ==
  LET report == r.reports[r.champion] IN
  /\ r.checksum.whole /\ r.checksum.trainer = report.trainer
  /\ report.eligible /\ report.rows \cap report.trainer.rows = {}
  /\ \A k \in DOMAIN r.reports : r.reports[k].eligible => r.reports[k].score <= report.score
  /\ r.result.params = report.trainer.params

ServedSound(s) ==
  /\ s.artifact.whole
  /\ s.artifact.trainer = s.record.reports[s.record.champion].trainer

TrainingInvariant ==
  /\ JobSound(job) /\ Filed(job, stored)
  /\ \A r \in registered : RegisteredSound(r)
  /\ \A s \in served : ServedSound(s)

LEMMA NoJobSound == JobSound(NoJob) /\ \A files : Filed(NoJob, files)
<1>1. /\ NoJob.phase = "none" /\ NoJob.trainers = <<>> /\ NoJob.results = <<>>
      /\ NoJob.reports = <<>> /\ NoJob.train = {}
  BY DEF NoJob
<1>2. NoJob.trainers \in [{} -> Trainers]
  BY <1>1
<1>3. NoJob \in JobType
  BY <1>2 DEF NoJob, JobType, Phases, TrainerTables
<1>4. TrainersFit(NoJob) /\ ReportsFollow(NoJob) /\ ChampionSelected(NoJob)
  BY <1>1 DEF TrainersFit, ReportsFollow, ChampionSelected
<1> QED
  BY <1>1, <1>3, <1>4 DEF JobSound, Filed

\* A step that changes the job alone
LEMMA ProgressStep ==
  ASSUME TrainingInvariant, NEW change, Progress(change), JobSound(change), Filed(change, stored)
  PROVE  TrainingInvariant'
BY DEF TrainingInvariant, Progress

LEMMA SplitStep ==
  ASSUME TrainingInvariant, Split
  PROVE  TrainingInvariant'
<1>1. PICK zoo \in Zoos, holdout \in Splits :
        job' = [NoJob EXCEPT !.phase = "training", !.zoo = zoo,
                  !.train = Examples \ holdout, !.holdout = holdout]
  BY DEF Split
<1>2. /\ job'.phase = "training" /\ job'.zoo = zoo /\ job'.train = Examples \ holdout
      /\ job'.holdout = holdout /\ job'.trainers = <<>> /\ job'.results = <<>>
      /\ job'.reports = <<>> /\ job'.champion = 0 /\ job'.path = "none"
  BY <1>1 DEF NoJob
<1>3. job' = [phase |-> "training", zoo |-> zoo, train |-> Examples \ holdout,
              holdout |-> holdout, trainers |-> <<>>, results |-> <<>>, reports |-> <<>>,
              champion |-> 0, path |-> "none"]
  BY <1>1 DEF NoJob
<1>4. holdout \in SUBSET Examples /\ zoo \in Seq(Configs)
  BY TrainingAssumption DEF Splits
<1>5. <<>> \in TrainerTables
  <2>1. <<>> \in [{} -> Trainers]
    OBVIOUS
  <2> QED
    BY <2>1 DEF TrainerTables
<1>6. job' \in JobType
  BY <1>3, <1>4, <1>5 DEF JobType, Phases
<1>7. JobSound(job') /\ Filed(job', stored)
  BY <1>2, <1>6 DEF JobSound, TrainersFit, ReportsFollow, ChampionSelected, Filed
<1> QED
  BY <1>7 DEF TrainingInvariant, Split

LEMMA TrainStep ==
  ASSUME TrainingInvariant, Train
  PROVE  TrainingInvariant'
<1> DEFINE config == Head(job.zoo)
           rest == [job EXCEPT !.zoo = Tail(@)]
<1>1. /\ job \in JobType /\ job.phase = "training" /\ job.zoo # <<>> /\ job.zoo \in Seq(Configs)
      /\ TrainersFit(job) /\ ReportsFollow(job) /\ job.train \cap job.holdout = {}
  BY DEF TrainingInvariant, JobSound, Train, JobType
<1>2. config \in Configs /\ Tail(job.zoo) \in Seq(Configs)
  BY <1>1
<1>3. job.reports = <<>>
  BY <1>1 DEF ReportsFollow
<1>4. /\ rest.phase = job.phase /\ rest.zoo = Tail(job.zoo) /\ rest.train = job.train
      /\ rest.holdout = job.holdout /\ rest.trainers = job.trainers
      /\ rest.results = job.results /\ rest.reports = job.reports /\ rest \in JobType
  BY <1>1, <1>2 DEF JobType
<1> HIDE DEF rest
<1>5. CASE Progress(rest)
  <2>2. JobSound(rest) /\ Filed(rest, stored)
    BY <1>1, <1>3, <1>4 DEF JobSound, TrainersFit, ReportsFollow, ChampionSelected, Filed, JobType
  <2> QED
    BY <1>5, <2>2, ProgressStep
<1>6. ASSUME NEW score \in Scores,
             Progress([rest EXCEPT
               !.trainers = Extended(@, config.algorithm, Fitted(config, job.train)),
               !.results = Append(@, Scored(config, score))])
      PROVE  TrainingInvariant'
  <2> DEFINE trainer == Fitted(config, job.train)
             result == Scored(config, score)
             trainers == Extended(job.trainers, config.algorithm, trainer)
             results == Append(job.results, result)
             change == [rest EXCEPT
               !.trainers = Extended(@, config.algorithm, Fitted(config, job.train)),
               !.results = Append(@, Scored(config, score))]
  <2>1. /\ trainer \in Trainers /\ result \in Results /\ config.algorithm \in AlgorithmNames
        /\ trainer.rows = job.train /\ trainer.params = config.params
        /\ result.algorithm = config.algorithm /\ result.params = config.params
    <3>1. job.train \in SUBSET Examples
      BY <1>1 DEF JobType
    <3>2. trainer \in Trainers
      <4> HIDE DEF config
      <4> QED
        BY <1>2, <3>1 DEF Trainers
    <3>3. result \in Results /\ config.algorithm \in AlgorithmNames
      <4> HIDE DEF config
      <4> QED
        BY <1>2 DEF Results, AlgorithmNames
    <3> QED
      BY <3>2, <3>3 DEF Fitted, Scored
  <2> HIDE DEF trainer, result
  <2>2. PICK A \in SUBSET AlgorithmNames : job.trainers \in [A -> Trainers]
    BY <1>1 DEF JobType, TrainerTables
  <2>3. /\ trainers \in [A \cup {config.algorithm} -> Trainers]
        /\ DOMAIN trainers = DOMAIN job.trainers \cup {config.algorithm}
        /\ trainers[config.algorithm] = trainer
        /\ \A a \in DOMAIN job.trainers : a # config.algorithm => trainers[a] = job.trainers[a]
    BY <2>1, <2>2 DEF Extended
  <2>4. trainers \in TrainerTables
    BY <2>1, <2>3 DEF TrainerTables
  <2>5. job.results \in Seq(Results)
    BY <1>1 DEF JobType
  <2>6. /\ results \in Seq(Results) /\ Len(results) = Len(job.results) + 1
        /\ DOMAIN results = 1..(Len(job.results) + 1)
        /\ results[Len(job.results) + 1] = result
        /\ \A k \in DOMAIN job.results : k \in DOMAIN results /\ results[k] = job.results[k]
    BY <2>1, <2>5
  <2>7. /\ change.phase = "training" /\ change.zoo = Tail(job.zoo) /\ change.train = job.train
        /\ change.holdout = job.holdout /\ change.trainers = trainers
        /\ change.results = results /\ change.reports = <<>> /\ change \in JobType
    <3> HIDE DEF trainers, results
    <3>1. rest.trainers = job.trainers /\ rest.results = job.results
      BY <1>4
    <3>2. change = [rest EXCEPT !.trainers = trainers, !.results = results]
      BY <3>1 DEF trainers, results, trainer, result
    <3> HIDE DEF change
    <3> QED
      BY <1>1, <1>3, <1>4, <2>4, <2>6, <3>2 DEF JobType
  <2>8. Progress(change)
    BY <1>6
  <2> HIDE DEF change, trainers, results, config
  <2>9. TrainersFit(change)
    <3>1. ASSUME NEW a \in DOMAIN trainers
          PROVE  /\ trainers[a].rows = job.train
                 /\ \E k \in DOMAIN results :
                      results[k].algorithm = a /\ results[k].params = trainers[a].params
      <4>1. CASE a = config.algorithm
        BY <2>1, <2>3, <2>5, <2>6, <4>1
      <4>2. CASE a # config.algorithm
        BY <1>1, <2>3, <2>6, <4>2 DEF TrainersFit
      <4> QED
        BY <4>1, <4>2
    <3>2. ASSUME NEW k \in DOMAIN results
          PROVE  results[k].algorithm \in DOMAIN trainers
      <4>1. k \in DOMAIN job.results \/ k = Len(job.results) + 1
        BY <2>5, <2>6
      <4> QED
        BY <1>1, <2>1, <2>3, <2>6, <4>1 DEF TrainersFit
    <3> QED
      BY <2>7, <3>1, <3>2 DEF TrainersFit
  <2>10. ReportsFollow(change) /\ ChampionSelected(change) /\ Filed(change, stored)
    BY <2>5, <2>6, <2>7 DEF ReportsFollow, ChampionSelected, Filed
  <2>11. JobSound(change)
    BY <1>1, <2>7, <2>9, <2>10 DEF JobSound
  <2> QED
    BY <2>8, <2>10, <2>11, ProgressStep
<1> QED
  BY <1>5, <1>6 DEF Train, rest

LEMMA ResultNamed ==
  ASSUME NEW result \in Results
  PROVE  result.algorithm \in AlgorithmNames
<1>1. PICK config \in Configs, score \in Scores : result = Scored(config, score)
  BY DEF Results
<1> QED
  BY <1>1 DEF Scored, AlgorithmNames

LEMMA ReportTyped ==
  ASSUME NEW reports \in Seq(Reports), NEW k \in DOMAIN reports
  PROVE  /\ reports[k].trainer \in Trainers /\ reports[k].eligible \in BOOLEAN
         /\ reports[k].score \in Int
<1>1. reports[k] \in Reports
  OBVIOUS
<1> QED
  BY <1>1, TrainingAssumption DEF Reports

LEMMA EvaluateStep ==
  ASSUME TrainingInvariant, Evaluate
  PROVE  TrainingInvariant'
<1> DEFINE n == Len(job.reports) + 1
           name == job.results[n].algorithm
<1>1. /\ job \in JobType /\ job.phase = "training" /\ job.zoo = <<>>
      /\ TrainersFit(job) /\ ReportsFollow(job) /\ job.train \cap job.holdout = {}
      /\ job.results \in Seq(Results) /\ job.reports \in Seq(Reports)
      /\ Len(job.reports) < Len(job.results)
  BY DEF TrainingInvariant, JobSound, Evaluate, JobType
<1>2. n \in DOMAIN job.results
  BY <1>1
<1>3. name \in AlgorithmNames
  <2>1. job.results[n] \in Results
    BY <1>1, <1>2
  <2> QED
    BY <2>1, ResultNamed
<1>4. name \in DOMAIN job.trainers
  BY <1>1, <1>2 DEF TrainersFit
<1>5. job.trainers[name] \in Trainers
  <2>1. PICK A \in SUBSET AlgorithmNames : job.trainers \in [A -> Trainers]
    BY <1>1 DEF JobType, TrainerTables
  <2> QED
    BY <1>4, <2>1
<1>6. PICK score \in Scores, eligible \in BOOLEAN :
        Progress([job EXCEPT !.reports = Append(@,
          Measured(name, job.trainers[name], job.holdout, score, eligible))])
  BY DEF Evaluate
<1> DEFINE report == Measured(name, job.trainers[name], job.holdout, score, eligible)
           reports == Append(job.reports, report)
           change == [job EXCEPT !.reports = Append(@, report)]
<1>7. /\ report \in Reports /\ report.model = name /\ report.trainer = job.trainers[name]
      /\ report.rows = job.holdout
  <2>1. job.holdout \in SUBSET Examples
    BY <1>1 DEF JobType
  <2> HIDE DEF name
  <2> QED
    BY <1>3, <1>5, <2>1 DEF Reports, Measured
<1> HIDE DEF report, name
<1>8. /\ reports \in Seq(Reports) /\ Len(reports) = n /\ DOMAIN reports = 1..n
      /\ reports[n] = report
      /\ \A k \in DOMAIN job.reports : reports[k] = job.reports[k]
  BY <1>1, <1>7
<1>9. /\ change.phase = "training" /\ change.zoo = <<>> /\ change.train = job.train
      /\ change.holdout = job.holdout /\ change.trainers = job.trainers
      /\ change.results = job.results /\ change.reports = reports /\ change \in JobType
  BY <1>1, <1>8 DEF JobType
<1>10. Progress(change)
  BY <1>6 DEF report
<1> HIDE DEF change, reports
<1>11. ReportsFollow(change)
  <2>1. ASSUME NEW k \in DOMAIN reports
        PROVE  /\ reports[k].model = job.results[k].algorithm
               /\ reports[k].rows = job.holdout
               /\ reports[k].trainer = job.trainers[reports[k].model]
    <3>1. k \in DOMAIN job.reports \/ k = n
      BY <1>1, <1>8
    <3>2. CASE k = n
      BY <1>7, <1>8, <3>2 DEF name
    <3> QED
      BY <1>1, <1>8, <3>1, <3>2 DEF ReportsFollow
  <2> QED
    BY <1>1, <1>8, <1>9, <2>1 DEF ReportsFollow
<1>12. TrainersFit(change) /\ ChampionSelected(change) /\ Filed(change, stored)
  BY <1>1, <1>9 DEF TrainersFit, ChampionSelected, Filed
<1> QED
  BY <1>1, <1>9, <1>10, <1>11, <1>12, ProgressStep DEF JobSound

LEMMA CompareStep ==
  ASSUME TrainingInvariant, Compare
  PROVE  TrainingInvariant'
<1>1. PICK best \in Best(job.reports) :
        Progress([job EXCEPT !.phase = "selected", !.champion = best])
  BY DEF Compare
<1> DEFINE change == [job EXCEPT !.phase = "selected", !.champion = best]
<1>2. /\ job \in JobType /\ JobSound(job) /\ NamesUnique
      /\ Len(job.reports) = Len(job.results) /\ job.reports \in Seq(Reports)
      /\ \E k \in DOMAIN job.reports : job.reports[k].eligible
  BY DEF TrainingInvariant, JobSound, Compare, JobType
<1>3. best \in DOMAIN job.reports /\ best \in Nat
  BY <1>2 DEF Best
<1>4. /\ change.phase = "selected" /\ change.zoo = job.zoo /\ change.train = job.train
      /\ change.holdout = job.holdout /\ change.trainers = job.trainers
      /\ change.results = job.results /\ change.reports = job.reports
      /\ change.champion = best /\ change \in JobType
  BY <1>2, <1>3 DEF JobType, Phases
<1>5. Progress(change)
  BY <1>1
<1> HIDE DEF change
<1>6. \A k \in DOMAIN job.reports : job.reports[k].eligible \in BOOLEAN /\ job.reports[k].score \in Int
  BY <1>2, ReportTyped
<1>7. /\ job.reports[best].eligible
      /\ \A k \in DOMAIN job.reports :
           job.reports[k].eligible => job.reports[k].score <= job.reports[best].score
  BY <1>2, <1>3, <1>6 DEF Best
<1>8. ChampionSelected(change)
  BY <1>2, <1>3, <1>4, <1>7 DEF ChampionSelected, NamesUnique
<1>9. TrainersFit(change) /\ ReportsFollow(change) /\ Filed(change, stored)
  BY <1>2, <1>4 DEF JobSound, TrainersFit, ReportsFollow, Filed
<1> QED
  BY <1>2, <1>4, <1>5, <1>8, <1>9, ProgressStep DEF JobSound

LEMMA DumpStep ==
  ASSUME TrainingInvariant, Dump
  PROVE  TrainingInvariant'
<1>1. PICK path \in Paths :
        /\ job' = [job EXCEPT !.phase = "dumping", !.path = path]
        /\ stored' = Extended(stored, path, [whole |-> FALSE, trainer |-> Champion])
  BY DEF Dump
<1>2. /\ job \in JobType /\ job.phase = "selected" /\ JobSound(job)
      /\ registered' = registered /\ served' = served
  BY DEF TrainingInvariant, JobSound, Dump
<1>3. /\ job'.phase = "dumping" /\ job'.zoo = job.zoo /\ job'.train = job.train
      /\ job'.holdout = job.holdout /\ job'.trainers = job.trainers
      /\ job'.results = job.results /\ job'.reports = job.reports
      /\ job'.champion = job.champion /\ job'.path = path /\ job' \in JobType
  BY <1>1, <1>2 DEF JobType, Phases
<1>4. /\ job.champion \in DOMAIN job.reports /\ job.reports \in Seq(Reports)
      /\ Champion = job.reports[job.champion].trainer
  BY <1>2 DEF JobSound, ChampionSelected, ReportsFollow, Champion, JobType
<1>5. Champion \in Trainers
  BY <1>4, ReportTyped
<1>6. path \in DOMAIN stored' /\ stored'[path] = [whole |-> FALSE, trainer |-> Champion]
  BY <1>1 DEF Extended
<1>7. Filed(job', stored')
  BY <1>3, <1>4, <1>5, <1>6 DEF Filed, Files
<1>8. JobSound(job')
  BY <1>2, <1>3 DEF JobSound, TrainersFit, ReportsFollow, ChampionSelected
<1> QED
  BY <1>2, <1>7, <1>8 DEF TrainingInvariant

LEMMA SavedStep ==
  ASSUME TrainingInvariant, Saved
  PROVE  TrainingInvariant'
<1>1. /\ job \in JobType /\ job.phase = "dumping" /\ JobSound(job) /\ Filed(job, stored)
      /\ job' = [job EXCEPT !.phase = "saved"]
      /\ stored' = [stored EXCEPT ![job.path].whole = TRUE]
      /\ registered' = registered /\ served' = served
  BY DEF TrainingInvariant, JobSound, Saved
<1>2. /\ job'.phase = "saved" /\ job'.zoo = job.zoo /\ job'.train = job.train
      /\ job'.holdout = job.holdout /\ job'.trainers = job.trainers
      /\ job'.results = job.results /\ job'.reports = job.reports
      /\ job'.champion = job.champion /\ job'.path = job.path /\ job' \in JobType
  BY <1>1 DEF JobType, Phases
<1>3. /\ job.path \in DOMAIN stored /\ stored[job.path] \in Files
      /\ stored[job.path].trainer = job.reports[job.champion].trainer
  BY <1>1 DEF Filed
<1>4. /\ job.path \in DOMAIN stored' /\ stored'[job.path] \in Files
      /\ stored'[job.path].whole /\ stored'[job.path].trainer = stored[job.path].trainer
  BY <1>1, <1>3 DEF Files
<1>5. Filed(job', stored')
  BY <1>2, <1>3, <1>4 DEF Filed
<1>6. JobSound(job')
  BY <1>1, <1>2 DEF JobSound, TrainersFit, ReportsFollow, ChampionSelected
<1> QED
  BY <1>1, <1>5, <1>6 DEF TrainingInvariant

\* The result registered is the champion's own: every report names its result,
\* and no other has the champion's name.
LEMMA RegisterStep ==
  ASSUME TrainingInvariant, Register
  PROVE  TrainingInvariant'
<1>1. PICK k \in DOMAIN job.results :
        /\ job.results[k].algorithm = job.reports[job.champion].model
        /\ registered' = registered \cup
             {[path |-> job.path, checksum |-> stored[job.path], result |-> job.results[k],
               reports |-> job.reports, champion |-> job.champion]}
  BY DEF Register
<1> DEFINE report == job.reports[job.champion]
           record == [path |-> job.path, checksum |-> stored[job.path], result |-> job.results[k],
                      reports |-> job.reports, champion |-> job.champion]
<1>2. /\ job \in JobType /\ job.phase = "saved" /\ JobSound(job) /\ Filed(job, stored)
      /\ job' = NoJob /\ stored' = stored /\ served' = served
  BY DEF TrainingInvariant, JobSound, Register
<1>3. /\ TrainersFit(job) /\ ReportsFollow(job) /\ ChampionSelected(job)
      /\ job.train \cap job.holdout = {}
      /\ job.results \in Seq(Results) /\ job.reports \in Seq(Reports)
  BY <1>2 DEF JobSound, JobType
<1>4. /\ job.champion \in DOMAIN job.reports /\ DOMAIN job.reports = DOMAIN job.results
      /\ report.model = job.results[job.champion].algorithm
      /\ report.trainer = job.trainers[report.model] /\ report.rows = job.holdout
  BY <1>2, <1>3 DEF ChampionSelected, ReportsFollow
<1>5. report.model \in DOMAIN job.trainers
  BY <1>3, <1>4 DEF TrainersFit
<1>6. ASSUME NEW l \in DOMAIN job.results, job.results[l].algorithm = report.model
      PROVE  l = job.champion
  <2>1. l \in DOMAIN job.reports /\ job.reports[l].model = report.model
    BY <1>3, <1>4, <1>6 DEF ReportsFollow
  <2> QED
    BY <1>2, <1>3, <1>4, <2>1 DEF ChampionSelected
<1>7. PICK l \in DOMAIN job.results :
        /\ job.results[l].algorithm = report.model
        /\ job.results[l].params = job.trainers[report.model].params
  BY <1>3, <1>5 DEF TrainersFit
<1>8. job.results[k].params = report.trainer.params
  BY <1>1, <1>4, <1>6, <1>7
<1>9. report.rows \cap report.trainer.rows = {}
  <2> DEFINE trainer == job.trainers[report.model]
  <2>1. trainer.rows = job.train
    BY <1>3, <1>5 DEF TrainersFit
  <2>2. report.trainer.rows = trainer.rows /\ report.rows = job.holdout
    BY <1>4
  <2> HIDE DEF trainer, report
  <2> QED
    BY <1>3, <2>1, <2>2
<1>10. /\ stored[job.path].whole /\ stored[job.path].trainer = report.trainer
  BY <1>2 DEF Filed
<1>11. /\ report.eligible
       /\ \A m \in DOMAIN job.reports :
            job.reports[m].eligible => job.reports[m].score <= report.score
  BY <1>2, <1>3 DEF ChampionSelected
<1>12. RegisteredSound(record)
  BY <1>8, <1>9, <1>10, <1>11 DEF RegisteredSound
<1> QED
  BY <1>1, <1>2, <1>12, NoJobSound DEF TrainingInvariant

LEMMA AbandonStep ==
  ASSUME TrainingInvariant, Abandon
  PROVE  TrainingInvariant'
BY NoJobSound, ProgressStep DEF Abandon

LEMMA LoadStep ==
  ASSUME TrainingInvariant, NEW record \in registered, Load(record)
  PROVE  TrainingInvariant'
<1>1. RegisteredSound(record) /\ stored[record.path] = record.checksum
  BY DEF TrainingInvariant, Load
<1>2. ServedSound([record |-> record, artifact |-> stored[record.path]])
  BY <1>1 DEF RegisteredSound, ServedSound
<1> QED
  BY <1>2 DEF TrainingInvariant, Load

LEMMA TrainingStart == Init => TrainingInvariant
BY NoJobSound DEF Init, TrainingInit, TrainingInvariant

LEMMA TrainingNext ==
  ASSUME TrainingInvariant, [Next]_vars
  PROVE  TrainingInvariant'
<1>1. CASE RunTraining
  BY <1>1, SplitStep, TrainStep, EvaluateStep, CompareStep, DumpStep, SavedStep,
     RegisterStep, AbandonStep, LoadStep DEF RunTraining, Training
<1>2. CASE UNCHANGED training
  BY <1>2 DEF TrainingInvariant, training
<1>3. RunTraining \/ UNCHANGED training
  <2>1. CASE FitLibrary
    BY <2>1 DEF FitLibrary
  <2>2. CASE \E r \in Requests : Infer(r)
    BY <2>2 DEF Infer
  <2>3. CASE ServiceNext
    BY <2>3 DEF ServiceNext, Service, Replace, Startup, Crash, WindowEnds, RedisChanges,
       Admit, Send, Predict, Break, Report, Answer, TimeOut
  <2>4. CASE UNCHANGED vars
    BY <2>4 DEF vars
  <2> QED
    BY <2>1, <2>2, <2>3, <2>4 DEF Next
<1> QED
  BY <1>1, <1>2, <1>3

\* What is registered and loaded is the model the comparison selected, with
\* its own result, and was evaluated on rows it had not seen: for any zoo,
\* however often an algorithm is named, and any interruption of its jobs.
THEOREM ChampionsAreMeasured == Spec => []ChampionMeasured
<1>1. TrainingInvariant => ChampionMeasured
  BY DEF TrainingInvariant, RegisteredSound, ServedSound, ChampionMeasured
<1> QED
  BY <1>1, TrainingStart, TrainingNext, PTL DEF Spec

-----------------------------------------------------------------------------
(***************************************************************************)
(* The fitted pipeline: a row keeps its own label.  No stage but a cleaner *)
(* changes a row's label or owner, and of the rows a stage takes out the   *)
(* ones left are rows it was given.  First, what is left of a sequence.    *)
(***************************************************************************)
LEMMA LeastOf ==
  ASSUME NEW T \in SUBSET Nat, T # {}
  PROVE  \E m \in T : \A k \in T : m <= k
<1>1. PICK m \in T : \A k \in T : <<k, m>> \notin OpToRel(<, Nat)
  BY NatLessThanWellFounded, WFMin
<1>2. \A k \in T : ~(k < m)
  BY <1>1 DEF OpToRel
<1> QED
  BY <1>2

\* Induction up to a bound, over a set
LEMMA UpTo ==
  ASSUME NEW n \in Nat, NEW T, 0 \in T, \A m \in 0..(n - 1) : m \in T => m + 1 \in T
  PROVE  \A m \in 0..n : m \in T
<1> DEFINE Rest == {m \in 0..n : m \notin T}
<1>1. SUFFICES ASSUME Rest # {} PROVE FALSE
  OBVIOUS
<1>2. Rest \in SUBSET Nat
  OBVIOUS
<1> HIDE DEF Rest
<1>3. PICK m \in Rest : \A k \in Rest : m <= k
  BY <1>1, <1>2, LeastOf
<1>4. m \in 0..n /\ m \notin T /\ m # 0
  BY <1>3 DEF Rest
<1>5. m - 1 \in 0..(n - 1) /\ (m - 1) + 1 = m /\ ~(m <= m - 1)
  BY <1>4
<1>6. m - 1 \in T
  BY <1>3, <1>5 DEF Rest
<1> QED
  BY <1>4, <1>5, <1>6

LEMMA NthKept ==
  ASSUME NEW m \in Nat, NEW keep \in SUBSET (1..m), NEW n \in 1..Cardinality(keep)
  PROVE  Nth(keep, n) \in keep
<1> DEFINE Upto(i) == {j \in keep : j <= i}
<1>1. \A j \in keep : j \in Nat /\ 1 <= j /\ j <= m
  OBVIOUS
<1>2. Upto(0) = {} /\ Upto(m) = keep /\ \A i \in Nat : Upto(i) \in SUBSET keep
  <2>1. \A j \in keep : ~(j <= 0) /\ j <= m
    BY <1>1
  <2>2. Upto(0) = {}
    BY <2>1
  <2>3. Upto(m) = keep
    BY <2>1
  <2> QED
    BY <2>2, <2>3
<1>3. \A i \in Nat \ {0} :
         IF i \in keep THEN Upto(i) = Upto(i - 1) \cup {i} /\ i \notin Upto(i - 1)
         ELSE Upto(i) = Upto(i - 1)
  <2>1. SUFFICES ASSUME NEW i \in Nat \ {0}
                 PROVE  IF i \in keep THEN Upto(i) = Upto(i - 1) \cup {i} /\ i \notin Upto(i - 1)
                        ELSE Upto(i) = Upto(i - 1)
    OBVIOUS
  <2>2. \A j \in keep : j <= i <=> (j <= i - 1 \/ j = i)
    BY <1>1
  <2>3. ~(i <= i - 1)
    OBVIOUS
  <2> QED
    BY <2>2, <2>3
<1> HIDE DEF Upto
<1>4. IsFiniteSet(keep) /\ Cardinality(keep) \in Nat
  <2>1. IsFiniteSet(1..m)
    BY FS_Interval
  <2> QED
    BY <2>1, FS_Subset, FS_CardinalityType
<1>5. \A i \in Nat : IsFiniteSet(Upto(i)) /\ Cardinality(Upto(i)) \in Nat
  BY <1>2, <1>4, FS_Subset, FS_CardinalityType
<1> DEFINE T == {i \in 0..m : Cardinality(Upto(i)) >= n}
<1>6. m \in T /\ T \in SUBSET Nat
  BY <1>2, <1>4
<1>7. \A i \in 0..m : i \in T <=> Cardinality(Upto(i)) >= n
  OBVIOUS
<1>8. T \subseteq 0..m
  OBVIOUS
<1> HIDE DEF T
<1>9. PICK i \in T : \A k \in T : i <= k
  <2>1. T # {}
    BY <1>6
  <2> QED
    BY <2>1, <1>6, LeastOf
<1>10. i \in 0..m /\ n \in Nat \ {0} /\ Cardinality(Upto(i)) >= n
  BY <1>4, <1>7, <1>8
<1>11. i # 0
  BY <1>2, <1>10, FS_EmptySet
<1>12. i - 1 \in 0..m /\ i \in Nat \ {0} /\ ~(i <= i - 1)
  BY <1>10, <1>11
<1>13. Cardinality(Upto(i - 1)) < n
  <2>1. i - 1 \notin T
    BY <1>9, <1>12
  <2> QED
    BY <2>1, <1>7, <1>12, <1>5, <1>10
<1>14. i \in keep
  BY <1>3, <1>5, <1>10, <1>12, <1>13
<1>15. Cardinality(Upto(i)) = Cardinality(Upto(i - 1)) + 1
  BY <1>3, <1>5, <1>12, <1>14, FS_AddElement
<1>16. Cardinality(Upto(i)) = n
  BY <1>5, <1>10, <1>12, <1>13, <1>15
<1> QED
  BY <1>14, <1>16 DEF Upto, Nth

\* s is a list of m elements.
Listed(s, m) == m \in Nat /\ s = [i \in 1..m |-> s[i]]

LEMMA Lengths ==
  ASSUME NEW m \in Nat, NEW s, Listed(s, m)
  PROVE  Len(s) = m /\ DOMAIN s = 1..m
<1> DEFINE V == {s[i] : i \in 1..m}
<1>1. s \in [1..m -> V]
  BY DEF Listed
<1>2. s \in Seq(V)
  BY <1>1
<1>3. DOMAIN s = 1..m
  BY DEF Listed
<1>4. DOMAIN s = 1..Len(s) /\ Len(s) \in Nat
  BY <1>2
<1>5. ASSUME NEW a \in Nat, NEW b \in Nat, 1..a = 1..b, a < b PROVE FALSE
  BY <1>5
<1> QED
  BY <1>3, <1>4, <1>5

LEMMA SiftedOf ==
  ASSUME NEW m \in Nat, NEW s, Listed(s, m), NEW keep \in SUBSET (1..m)
  PROVE  /\ Cardinality(keep) \in 0..m /\ Listed(Sifted(s, keep), Cardinality(keep))
         /\ \A n \in 1..Cardinality(keep) :
                Nth(keep, n) \in 1..m /\ Sifted(s, keep)[n] = s[Nth(keep, n)]
         /\ Cardinality(keep) = m => \A n \in 1..m : Nth(keep, n) = n
<1>1. IsFiniteSet(keep) /\ Cardinality(keep) \in 0..m /\ (Cardinality(keep) = m => keep = 1..m)
  <2>1. IsFiniteSet(1..m) /\ Cardinality(1..m) = m
    BY FS_Interval
  <2>2. IsFiniteSet(keep) /\ Cardinality(keep) <= m /\ (m = Cardinality(keep) => 1..m = keep)
    BY <2>1, FS_Subset
  <2> QED
    BY <2>2, FS_CardinalityType
<1>2. \A n \in 1..Cardinality(keep) : Nth(keep, n) \in keep
  BY NthKept
<1>3. Listed(Sifted(s, keep), Cardinality(keep))
  BY <1>1 DEF Listed, Sifted
<1>4. ASSUME Cardinality(keep) = m, NEW n \in 1..m
      PROVE  Nth(keep, n) = n
  <2>1. \A i \in 1..m : {j \in keep : j <= i} = 1..i
    BY <1>1, <1>4
  <2>2. \A i \in 1..m : Cardinality({j \in keep : j <= i}) = i
    <3>1. \A i \in 1..m : Cardinality(1..i) = i
      BY FS_Interval
    <3> QED
      BY <2>1, <3>1
  <2>3. keep = 1..m
    BY <1>1, <1>4
  <2>4. \A i \in keep : Cardinality({j \in keep : j <= i}) = n <=> i = n
    BY <2>2, <2>3
  <2> QED
    BY <2>3, <2>4 DEF Nth
<1> QED
  BY <1>1, <1>2, <1>3, <1>4 DEF Sifted


IsRow(r) == r = [label |-> r.label, who |-> r.who, cell |-> r.cell]
IsFrame(f) ==
  /\ f = [ok |-> f.ok, cols |-> f.cols, rows |-> f.rows, dtype |-> f.dtype]
  /\ Listed(f.rows, Len(f.rows))
  /\ \A i \in 1..Len(f.rows) : IsRow(f.rows[i])

\* q is row r, its cells apart.
Edited(r, q) == IsRow(q) /\ q.label = r.label /\ q.who = r.who

\* g has the rows of f, each in its place.
Same(f, g) ==
  /\ IsFrame(g) /\ Len(g.rows) = Len(f.rows)
  /\ \A i \in 1..Len(f.rows) : Edited(f.rows[i], g.rows[i])

\* g has rows of f; all of them when it has as many.
Some(f, g) ==
  /\ IsFrame(g) /\ Len(g.rows) <= Len(f.rows)
  /\ \A i \in 1..Len(g.rows) : \E j \in 1..Len(f.rows) : Edited(f.rows[j], g.rows[i])
  /\ Len(g.rows) = Len(f.rows) => Same(f, g)

\* ... or may have numbered its rows again.
Fewer(f, g) ==
  /\ IsFrame(g) /\ Len(g.rows) <= Len(f.rows)
  /\ Len(g.rows) = Len(f.rows) => \A i \in 1..Len(f.rows) :
         g.rows[i].who = f.rows[i].who /\ g.rows[i].label \in {f.rows[i].label, i}

LEMMA FrameExcept ==
  ASSUME NEW f, IsFrame(f), NEW x
  PROVE  /\ [f EXCEPT !.ok = x] = [ok |-> x, cols |-> f.cols, rows |-> f.rows, dtype |-> f.dtype]
         /\ [f EXCEPT !.rows = x] = [ok |-> f.ok, cols |-> f.cols, rows |-> x, dtype |-> f.dtype]
         /\ [f EXCEPT !.dtype = x] = [ok |-> f.ok, cols |-> f.cols, rows |-> f.rows, dtype |-> x]
<1>1. DOMAIN f = {"ok", "cols", "rows", "dtype"}
  BY DEF IsFrame
<1>2. [f EXCEPT !.ok = x] = [ok |-> x, cols |-> f.cols, rows |-> f.rows, dtype |-> f.dtype]
  BY <1>1
<1>3. [f EXCEPT !.rows = x] = [ok |-> f.ok, cols |-> f.cols, rows |-> x, dtype |-> f.dtype]
  BY <1>1
<1>4. [f EXCEPT !.dtype = x] = [ok |-> f.ok, cols |-> f.cols, rows |-> f.rows, dtype |-> x]
  BY <1>1
<1> QED
  BY <1>2, <1>3, <1>4

LEMMA EditedCell ==
  ASSUME NEW r, IsRow(r), NEW cell
  PROVE  Edited(r, [r EXCEPT !.cell = cell])
BY DEF IsRow, Edited

LEMMA LabelledRow ==
  ASSUME NEW r, IsRow(r), NEW i
  PROVE  /\ IsRow([r EXCEPT !.label = i])
         /\ [r EXCEPT !.label = i].label = i /\ [r EXCEPT !.label = i].who = r.who
BY DEF IsRow

LEMMA EditedRows ==
  ASSUME NEW f, IsFrame(f), NEW g,
         g = [ok |-> g.ok, cols |-> g.cols, rows |-> g.rows, dtype |-> g.dtype],
         g.rows = [i \in DOMAIN f.rows |-> g.rows[i]],
         \A i \in 1..Len(f.rows) : Edited(f.rows[i], g.rows[i])
  PROVE  Same(f, g)
<1> DEFINE m == Len(f.rows)
<1>1. m \in Nat /\ DOMAIN f.rows = 1..m
  BY Lengths DEF IsFrame, Listed
<1>2. Listed(g.rows, m)
  BY <1>1 DEF Listed
<1>3. Len(g.rows) = m
  BY <1>2, <1>1, Lengths
<1> QED
  BY <1>2, <1>3 DEF Same, IsFrame, Edited

LEMMA RaisedSame ==
  ASSUME NEW f, IsFrame(f)
  PROVE  Same(f, Raised(f))
<1> DEFINE g == Raised(f)
<1>1. g = [ok |-> FALSE, cols |-> f.cols, rows |-> f.rows, dtype |-> f.dtype]
  BY FrameExcept DEF Raised
<1> HIDE DEF g
<1>2. g = [ok |-> g.ok, cols |-> g.cols, rows |-> g.rows, dtype |-> g.dtype] /\ g.rows = f.rows
  BY <1>1
<1> QED
  BY <1>2 DEF Same, IsFrame, Edited, g

LEMMA TypedSame ==
  ASSUME NEW f, NEW g, Same(f, g), NEW cols, NEW type
  PROVE  Same(f, Typed(g, cols, type))
<1> DEFINE t == Typed(g, cols, type)
           types == [c \in DOMAIN g.dtype |-> IF c \in cols THEN type ELSE g.dtype[c]]
<1>1. t = [g EXCEPT !.dtype = types]
  BY DEF Typed
<1> HIDE DEF t, types
<1>2. t = [ok |-> g.ok, cols |-> g.cols, rows |-> g.rows, dtype |-> types]
  BY <1>1, FrameExcept DEF Same
<1>3. t = [ok |-> t.ok, cols |-> t.cols, rows |-> t.rows, dtype |-> t.dtype] /\ t.rows = g.rows
  BY <1>2
<1> QED
  BY <1>3 DEF Same, IsFrame, t

LEMMA RefilledSame ==
  ASSUME NEW f, IsFrame(f), NEW cells
  PROVE  Same(f, Refilled(f, cells))
<1> DEFINE rows == [i \in DOMAIN f.rows |-> [f.rows[i] EXCEPT !.cell = cells[i]]]
           g == Refilled(f, cells)
<1>1. g = [ok |-> f.ok, cols |-> f.cols, rows |-> rows, dtype |-> f.dtype]
  BY FrameExcept DEF Refilled
<1>2. \A i \in 1..Len(f.rows) : rows[i] = [f.rows[i] EXCEPT !.cell = cells[i]]
  BY Lengths DEF IsFrame, Listed
<1>3. rows = [i \in DOMAIN f.rows |-> rows[i]]
  OBVIOUS
<1> HIDE DEF g, rows
<1>4. /\ g = [ok |-> g.ok, cols |-> g.cols, rows |-> g.rows, dtype |-> g.dtype]
      /\ g.rows = rows
  BY <1>1
<1>5. \A i \in 1..Len(f.rows) : Edited(f.rows[i], g.rows[i])
  <2>1. SUFFICES ASSUME NEW i \in 1..Len(f.rows) PROVE Edited(f.rows[i], rows[i])
    BY <1>4
  <2>2. IsRow(f.rows[i])
    BY DEF IsFrame
  <2>3. Edited(f.rows[i], [f.rows[i] EXCEPT !.cell = cells[i]])
    BY <2>2, EditedCell
  <2> QED
    BY <2>3, <1>2
<1> QED
  BY <1>3, <1>4, <1>5, EditedRows DEF g

LEMMA RecomputedSame ==
  ASSUME NEW f, IsFrame(f), NEW step
  PROVE  /\ Same(f, Normalized(f, step))
         /\ Same(f, Standardized(f, step))
         /\ Same(f, ParsedAmounts(f, step))
         /\ Same(f, Corrected(f))
<1>1. \A cells : Same(f, Refilled(f, cells))
  BY RefilledSame
<1>2. \A cells, cols, type : Same(f, Typed(Refilled(f, cells), cols, type))
  BY <1>1, TypedSame
<1> QED
  BY <1>1, <1>2 DEF Normalized, Standardized, ParsedAmounts, Corrected, Rewrite, Recomputed

\* Rows taken out, those that are left in their order
LEMMA SiftedSome ==
  ASSUME NEW f, IsFrame(f), NEW keep \in SUBSET DOMAIN f.rows
  PROVE  Some(f, [f EXCEPT !.rows = Sifted(f.rows, keep)])
<1> DEFINE m == Len(f.rows)
           k == Cardinality(keep)
           rows == Sifted(f.rows, keep)
           g == [f EXCEPT !.rows = rows]
<1>1. m \in Nat /\ DOMAIN f.rows = 1..m /\ Listed(f.rows, m)
  BY Lengths DEF IsFrame, Listed
<1>2. /\ k \in 0..m /\ Listed(rows, k)
      /\ \A n \in 1..k : Nth(keep, n) \in 1..m /\ rows[n] = f.rows[Nth(keep, n)]
      /\ k = m => \A n \in 1..m : Nth(keep, n) = n
  BY <1>1, SiftedOf
<1>3. g = [ok |-> f.ok, cols |-> f.cols, rows |-> rows, dtype |-> f.dtype]
  BY FrameExcept
<1> HIDE DEF g, rows, k
<1>4. /\ g = [ok |-> g.ok, cols |-> g.cols, rows |-> g.rows, dtype |-> g.dtype]
      /\ g.rows = rows
  BY <1>3
<1>5. Len(g.rows) = k /\ k \in Nat
  BY <1>1, <1>2, <1>4, Lengths
<1>6. \A n \in 1..m : IsRow(f.rows[n])
  BY DEF IsFrame
<1>7. \A n \in 1..k : /\ Nth(keep, n) \in 1..m
                      /\ Edited(f.rows[Nth(keep, n)], g.rows[n])
  BY <1>2, <1>4, <1>6 DEF Edited
<1>8. IsFrame(g)
  BY <1>2, <1>4, <1>5, <1>7 DEF IsFrame, Edited
<1>9. k = m => \A n \in 1..m : Edited(f.rows[n], g.rows[n])
  BY <1>2, <1>7
<1> QED
  BY <1>1, <1>2, <1>5, <1>7, <1>8, <1>9 DEF Some, Same, g, rows

LEMMA SameSome ==
  ASSUME NEW f, IsFrame(f), NEW g, Same(f, g)
  PROVE  Some(f, g)
<1>1. Len(f.rows) \in Nat
  BY DEF IsFrame, Listed
<1> QED
  BY <1>1 DEF Same, Some

LEMMA SomeFewer ==
  ASSUME NEW f, IsFrame(f), NEW g, Some(f, g)
  PROVE  Fewer(f, g) /\ Fewer(f, Renumbered(g))
<1> DEFINE m == Len(g.rows)
           rows == [i \in DOMAIN g.rows |-> [g.rows[i] EXCEPT !.label = i]]
           h == Renumbered(g)
<1>1. IsFrame(g) /\ m \in Nat /\ DOMAIN g.rows = 1..m
  BY Lengths DEF Some, IsFrame, Listed
<1>2. h = [ok |-> g.ok, cols |-> g.cols, rows |-> rows, dtype |-> g.dtype]
  BY <1>1, FrameExcept DEF Renumbered
<1>3. ASSUME NEW i \in 1..m
      PROVE  IsRow(rows[i]) /\ rows[i].label = i /\ rows[i].who = g.rows[i].who
  <2>1. IsRow(g.rows[i])
    BY <1>1 DEF IsFrame
  <2>2. rows[i] = [g.rows[i] EXCEPT !.label = i]
    BY <1>1
  <2> HIDE DEF rows
  <2>3. /\ IsRow([g.rows[i] EXCEPT !.label = i])
        /\ [g.rows[i] EXCEPT !.label = i].label = i
        /\ [g.rows[i] EXCEPT !.label = i].who = g.rows[i].who
    BY <2>1, LabelledRow
  <2> QED
    BY <2>2, <2>3
<1>4. Listed(rows, m)
  BY <1>1 DEF Listed
<1> HIDE DEF h, rows
<1>5. /\ h = [ok |-> h.ok, cols |-> h.cols, rows |-> h.rows, dtype |-> h.dtype]
      /\ h.rows = rows
  BY <1>2
<1>6. Len(h.rows) = m
  BY <1>1, <1>4, <1>5, Lengths
<1>7. \A i \in 1..m : IsRow(h.rows[i]) /\ h.rows[i].label = i /\ h.rows[i].who = g.rows[i].who
  BY <1>3, <1>5
<1>8. IsFrame(h)
  BY <1>4, <1>5, <1>6, <1>7 DEF IsFrame
<1>9. m = Len(f.rows) => \A i \in 1..m : Edited(f.rows[i], g.rows[i])
  BY DEF Some, Same
<1>10. Fewer(f, g)
  BY <1>9 DEF Some, Fewer, Edited
<1>11. Fewer(f, h)
  BY <1>6, <1>7, <1>8, <1>9 DEF Some, Fewer, Edited
<1> QED
  BY <1>10, <1>11 DEF h

LEMMA FewerMore ==
  ASSUME NEW f, IsFrame(f), NEW g, Fewer(f, g), NEW h, Fewer(g, h)
  PROVE  Fewer(f, h)
<1>1. Len(f.rows) \in Nat /\ Len(g.rows) \in Nat /\ Len(h.rows) \in Nat
  BY DEF Fewer, IsFrame, Listed
<1> QED
  BY <1>1 DEF Fewer

LEMMA SameMore ==
  ASSUME NEW f, IsFrame(f), NEW g, Same(f, g), NEW h, Some(g, h)
  PROVE  Some(f, h)
<1>1. Len(f.rows) \in Nat /\ Len(g.rows) \in Nat /\ Len(h.rows) \in Nat
  BY DEF Same, Some, IsFrame, Listed
<1>2. \A i \in 1..Len(h.rows) : \E j \in 1..Len(f.rows) : Edited(f.rows[j], h.rows[i])
  BY DEF Same, Some, Edited
<1>3. Len(h.rows) = Len(f.rows) => Same(f, h)
  BY DEF Same, Some, Edited
<1> QED
  BY <1>1, <1>2, <1>3 DEF Same, Some

(***************************************************************************)
(* The cleaners: rows are rewritten, or dropped and numbered again.        *)
(***************************************************************************)
LEMMA CleanerFewer ==
  ASSUME NEW f, IsFrame(f), NEW step, step.name \in Cleaners
  PROVE  Fewer(f, Cleaner(f, step))
<1>1. \A g : Same(f, g) => Fewer(f, g)
  BY SameSome, SomeFewer
<1>2. \A g : Same(f, g) => IsFrame(g)
  BY DEF Same
<1>3. \A g : Same(f, g) => \A keep \in SUBSET DOMAIN g.rows :
         Fewer(f, Renumbered([g EXCEPT !.rows = Sifted(g.rows, keep)]))
  BY <1>2, SiftedSome, SameMore, SomeFewer
<1>4. Same(f, f)
  BY DEF Same, IsFrame, Edited
<1>5. \A cells : Same(f, Refilled(f, cells))
  BY RefilledSame
<1>6. Fewer(f, Validated(f, step))
  BY <1>1, <1>3, <1>5 DEF Validated, Without, Recomputed
<1>7. Fewer(f, Consistent(f, step))
  BY <1>1, <1>3, <1>4, <1>5, RaisedSame DEF Consistent, Without, Recomputed
<1>8. Fewer(f, Deduplicated(f))
  BY <1>3, <1>4 DEF Deduplicated
<1>9. /\ Fewer(f, Normalized(f, step)) /\ Fewer(f, Standardized(f, step))
      /\ Fewer(f, ParsedAmounts(f, step)) /\ Fewer(f, Corrected(f))
  BY <1>1, RecomputedSame
<1> QED
  BY <1>6, <1>7, <1>8, <1>9 DEF Cleaner, Cleaners

\* g[i] is what the first i cleaners leave of f.
CleanedBy(g, n, f) ==
  g = [i \in 0..n |-> IF i = 0 THEN f
                      ELSE IF g[i - 1].ok THEN Cleaner(g[i - 1], cfg.steps[i]) ELSE g[i - 1]]

LEMMA CleanedExists ==
  ASSUME NEW n \in Nat, NEW f
  PROVE  \E g : CleanedBy(g, n, f)
<1> DEFINE Has(k) == \E g : CleanedBy(g, k, f)
           T == {k \in 0..n : Has(k)}
<1>1. Has(0)
  <2> DEFINE g == [i \in 0..0 |-> f]
  <2>1. CleanedBy(g, 0, f)
    BY DEF CleanedBy
  <2> QED
    BY <2>1
<1>2. ASSUME NEW k \in 0..(n - 1), Has(k)
      PROVE  Has(k + 1)
  <2>1. PICK g : CleanedBy(g, k, f)
    BY <1>2
  <2> DEFINE last == IF g[k].ok THEN Cleaner(g[k], cfg.steps[k + 1]) ELSE g[k]
             h == [i \in 0..(k + 1) |-> IF i \in 0..k THEN g[i] ELSE last]
  <2>2. \A i \in 0..k : h[i] = g[i]
    OBVIOUS
  <2>3. h[k + 1] = last
    OBVIOUS
  <2>4. h = [i \in 0..(k + 1) |-> h[i]]
    OBVIOUS
  <2> HIDE DEF h
  <2>5. \A i \in 0..k : g[i] = IF i = 0 THEN f
            ELSE IF g[i - 1].ok THEN Cleaner(g[i - 1], cfg.steps[i]) ELSE g[i - 1]
    BY <2>1 DEF CleanedBy
  <2>6. \A i \in 0..(k + 1) : h[i] = IF i = 0 THEN f
            ELSE IF h[i - 1].ok THEN Cleaner(h[i - 1], cfg.steps[i]) ELSE h[i - 1]
    <3>1. SUFFICES ASSUME NEW i \in 0..(k + 1)
                   PROVE  h[i] = IF i = 0 THEN f
                          ELSE IF h[i - 1].ok THEN Cleaner(h[i - 1], cfg.steps[i]) ELSE h[i - 1]
      OBVIOUS
    <3>2. CASE i = 0
      BY <3>2, <2>2, <2>5
    <3>3. CASE i \in 1..k
      <4>1. h[i] = g[i] /\ h[i - 1] = g[i - 1] /\ i # 0 /\ i \in 0..k
        BY <3>3, <2>2
      <4> QED
        BY <4>1, <2>5
    <3>4. CASE i = k + 1
      <4>1. h[i] = last /\ h[i - 1] = g[k] /\ i # 0
        BY <3>4, <2>2, <2>3
      <4> QED
        BY <4>1, <3>4
    <3> QED
      BY <3>2, <3>3, <3>4
  <2>7. CleanedBy(h, k + 1, f)
    BY <2>4, <2>6 DEF CleanedBy
  <2> QED
    BY <2>7
<1> HIDE DEF Has
<1>3. 0 \in T /\ \A k \in 0..(n - 1) : k \in T => k + 1 \in T
  BY <1>1, <1>2
<1> HIDE DEF T
<1>4. n \in T
  <2>1. \A k \in 0..n : k \in T
    BY <1>3, UpTo
  <2> QED
    BY <2>1
<1> QED
  BY <1>4 DEF T, Has

LEMMA CleanFewer ==
  ASSUME Len(cfg.steps) \in Nat,
         \A n \in 1..Len(cfg.steps) : cfg.steps[n].name \in Cleaners,
         NEW f, IsFrame(f)
  PROVE  Fewer(f, Clean(f))
<1> DEFINE m == Len(cfg.steps)
           cleaned[n \in 0..m] ==
               IF n = 0 THEN f
               ELSE IF cleaned[n - 1].ok THEN Cleaner(cleaned[n - 1], cfg.steps[n])
               ELSE cleaned[n - 1]
<1>0. \E g : CleanedBy(g, Len(cfg.steps), f)
  BY CleanedExists
<1>1. \E g : g = [i \in 0..m |-> IF i = 0 THEN f
                      ELSE IF g[i - 1].ok THEN Cleaner(g[i - 1], cfg.steps[i]) ELSE g[i - 1]]
  BY <1>0 DEF CleanedBy
<1>2. cleaned = [i \in 0..m |-> IF i = 0 THEN f
           ELSE IF cleaned[i - 1].ok THEN Cleaner(cleaned[i - 1], cfg.steps[i]) ELSE cleaned[i - 1]]
  BY <1>1
<1>3. Clean(f) = cleaned[m]
  BY DEF Clean
<1> HIDE DEF cleaned
<1> DEFINE T == {n \in 0..m : Fewer(f, cleaned[n])}
<1>4. 0 \in T
  <2>1. cleaned[0] = f
    BY <1>2
  <2>2. Fewer(f, f)
    BY DEF Fewer, IsFrame, Listed
  <2> QED
    BY <2>1, <2>2
<1>5. ASSUME NEW n \in 0..(m - 1), n \in T
      PROVE  n + 1 \in T
  <2>1. n + 1 \in 1..m /\ n + 1 \in 0..m /\ n + 1 # 0 /\ (n + 1) - 1 = n
    OBVIOUS
  <2>2. cleaned[n + 1] = IF cleaned[n].ok THEN Cleaner(cleaned[n], cfg.steps[n + 1]) ELSE cleaned[n]
    BY <2>1, <1>2
  <2>3. Fewer(f, cleaned[n]) /\ IsFrame(cleaned[n])
    BY <1>5 DEF Fewer
  <2>4. Fewer(cleaned[n], Cleaner(cleaned[n], cfg.steps[n + 1]))
    BY <2>1, <2>3, CleanerFewer
  <2>5. Fewer(f, Cleaner(cleaned[n], cfg.steps[n + 1]))
    BY <2>3, <2>4, FewerMore
  <2> QED
    BY <2>1, <2>2, <2>3, <2>5
<1> HIDE DEF T
<1>6. \A n \in 0..m : n \in T
  BY <1>4, <1>5, UpTo
<1> QED
  BY <1>3, <1>6 DEF T

(***************************************************************************)
(* The other stages: cells change, outliers go, columns are made and       *)
(* selected.                                                               *)
(***************************************************************************)
LEMMA RecastSame ==
  ASSUME NEW f, IsFrame(f), NEW cols, NEW dtype
  PROVE  Same(f, [f EXCEPT !.cols = cols, !.dtype = dtype])
<1> DEFINE g == [f EXCEPT !.cols = cols, !.dtype = dtype]
<1>1. DOMAIN f = {"ok", "cols", "rows", "dtype"}
  BY DEF IsFrame
<1>2. g = [ok |-> f.ok, cols |-> cols, rows |-> f.rows, dtype |-> dtype]
  <2> DEFINE h == [f EXCEPT !.cols = cols]
  <2>1. g = [h EXCEPT !.dtype = dtype]
    OBVIOUS
  <2>2. h = [ok |-> f.ok, cols |-> cols, rows |-> f.rows, dtype |-> f.dtype]
    BY <1>1
  <2> HIDE DEF h
  <2>3. [h EXCEPT !.dtype = dtype] = [ok |-> f.ok, cols |-> cols, rows |-> f.rows, dtype |-> dtype]
    BY <2>2
  <2> QED
    BY <2>1, <2>3
<1> HIDE DEF g
<1>3. g = [ok |-> g.ok, cols |-> g.cols, rows |-> g.rows, dtype |-> g.dtype] /\ g.rows = f.rows
  BY <1>2
<1> QED
  BY <1>3 DEF Same, IsFrame, Edited, g

LEMMA StagesSome ==
  ASSUME NEW f, IsFrame(f)
  PROVE  /\ Some(f, f) /\ Some(f, Raised(f))
         /\ \A fills : Some(f, Imputed(f, fills))
         /\ \A bounds : Some(f, Treated(f, bounds))
         /\ \A categories, maps : Some(f, Encode(f, categories, maps))
         /\ \A centres : Some(f, Scaled(f, centres))
         /\ \A chosen : Some(f, Selected(f, chosen))
<1>1. \A g : Same(f, g) => Some(f, g)
  BY SameSome
<1>2. Same(f, f)
  BY DEF Same, IsFrame, Edited
<1>3. Some(f, f) /\ Some(f, Raised(f))
  BY <1>1, <1>2, RaisedSame
<1>4. \A cells : Same(f, Refilled(f, cells)) /\ Some(f, Refilled(f, cells))
  BY <1>1, RefilledSame
<1>5. \A cells, cols, type : Some(f, Typed(Refilled(f, cells), cols, type))
  BY <1>1, <1>4, TypedSame
<1>6. \A keep \in SUBSET DOMAIN f.rows : Some(f, [f EXCEPT !.rows = Sifted(f.rows, keep)])
  BY SiftedSome
<1>7. \A cols, dtype, cells : Some(f, Refilled([f EXCEPT !.cols = cols, !.dtype = dtype], cells))
  <2>1. SUFFICES ASSUME NEW cols, NEW dtype, NEW cells
                 PROVE  Some(f, Refilled([f EXCEPT !.cols = cols, !.dtype = dtype], cells))
    OBVIOUS
  <2> DEFINE g == [f EXCEPT !.cols = cols, !.dtype = dtype]
  <2>2. Same(f, g)
    BY RecastSame
  <2> HIDE DEF g
  <2>3. IsFrame(g)
    BY <2>2 DEF Same
  <2>4. Some(g, Refilled(g, cells))
    BY <2>3, RefilledSame, SameSome
  <2>5. Some(f, Refilled(g, cells))
    BY <2>2, <2>4, SameMore
  <2> QED
    BY <2>5 DEF g
<1>8. \A fills : Some(f, Imputed(f, fills))
  BY <1>3, <1>4 DEF Imputed, Recomputed
<1>9. \A bounds : Some(f, Treated(f, bounds))
  BY <1>3, <1>4, <1>6 DEF Treated, Without, Recomputed
<1>10. \A categories, maps : Some(f, Encode(f, categories, maps))
  BY <1>3, <1>7 DEF Encode
<1>11. \A centres : Some(f, Scaled(f, centres))
  BY <1>3, <1>5 DEF Scaled, Recomputed
<1>12. \A chosen : Some(f, Selected(f, chosen))
  BY <1>3, <1>7 DEF Selected
<1> QED
  BY <1>3, <1>8, <1>9, <1>10, <1>11, <1>12

(***************************************************************************)
(* The invariant: a row of the training frame still has its own label, and *)
(* if there are as many rows as there were, it has its own position.       *)
(***************************************************************************)
Trained == Len(cfg.training)

Configured ==
  /\ Listed(cfg.training, Trained)
  /\ Len(cfg.steps) \in Nat
  /\ \A n \in 1..Len(cfg.steps) : cfg.steps[n].name \in Cleaners

Owns(r) == r.label \in 1..Trained /\ r.who = cfg.training[r.label].who

FrameFollows ==
  /\ IsFrame(frame) /\ Len(frame.rows) <= Trained
  /\ stage = "clean" => kept = Trained /\ Len(frame.rows) = Trained /\ pairs = {}
  /\ kept = Trained => \A i \in 1..Len(frame.rows) : Owns(frame.rows[i])
  /\ kept = Trained /\ Len(frame.rows) = Trained =>
         \A i \in 1..Trained : frame.rows[i].label = i

FittingInvariant ==
  /\ stage \notin {"service", "training"} => Configured /\ FrameFollows
  /\ LabelsFollow

LEMMA StageStep ==
  ASSUME FittingInvariant, stage \notin {"service", "training"},
         UNCHANGED <<cfg, kept>>, Some(frame, frame'), stage' # "clean",
         LabelsFollow'
  PROVE  FittingInvariant'
<1>1. Configured /\ FrameFollows
  BY DEF FittingInvariant
<1>2. Configured'
  BY <1>1 DEF Configured, Trained
<1>3. Trained' = Trained /\ Trained \in Nat /\ \A r : Owns(r)' <=> Owns(r)
  BY <1>1 DEF Trained, Owns, Configured, Listed
<1>4. Len(frame.rows) \in Nat /\ Len(frame'.rows) \in Nat
  BY <1>1 DEF Some, FrameFollows, IsFrame, Listed
<1>5. FrameFollows'
  <2>1. IsFrame(frame') /\ Len(frame'.rows) <= Len(frame.rows)
    BY DEF Some
  <2>2. IsFrame(frame)'
    BY <2>1 DEF IsFrame, IsRow, Listed
  <2>3. Len(frame'.rows) <= Trained
    BY <2>1, <1>1, <1>3, <1>4 DEF FrameFollows
  <2>4. ASSUME kept = Trained, NEW i \in 1..Len(frame'.rows)
        PROVE  Owns(frame'.rows[i])
    <3>1. PICK j \in 1..Len(frame.rows) : Edited(frame.rows[j], frame'.rows[i])
      BY DEF Some
    <3>2. Owns(frame.rows[j])
      BY <1>1, <2>4 DEF FrameFollows
    <3> QED
      BY <3>1, <3>2 DEF Edited, Owns
  <2>5. ASSUME kept = Trained, Len(frame'.rows) = Trained, NEW i \in 1..Trained
        PROVE  frame'.rows[i].label = i
    <3>1. Len(frame.rows) = Trained
      BY <2>1, <2>5, <1>1, <1>3, <1>4 DEF FrameFollows
    <3>2. Edited(frame.rows[i], frame'.rows[i])
      BY <2>5, <3>1 DEF Some, Same
    <3>3. frame.rows[i].label = i
      BY <2>5, <3>1, <1>1 DEF FrameFollows
    <3> QED
      BY <3>2, <3>3 DEF Edited
  <2> QED
    BY <1>3, <2>2, <2>3, <2>4, <2>5 DEF FrameFollows
<1> QED
  BY <1>2, <1>5 DEF FittingInvariant

LEMMA FollowsStart == Init => FittingInvariant
<1>1. SUFFICES ASSUME Init PROVE FittingInvariant
  OBVIOUS
<1>2. pairs = {} /\ LabelsFollow
  BY <1>1 DEF Init, PreprocessingInit, LabelsFollow
<1>3. SUFFICES ASSUME PreprocessingInit PROVE Configured /\ FrameFollows
  BY <1>1, <1>2 DEF Init, FittingInvariant
<1>4. PICK pipeline \in Pipelines, trained \in Trainings :
         /\ cfg = [pipeline EXCEPT !.training = trained]
         /\ frame = Untrained(pipeline, trained)
         /\ stage = "clean" /\ kept = Len(trained)
  BY <1>3 DEF PreprocessingInit
<1>5. cfg.training = trained /\ cfg.steps = pipeline.steps
  <2>1. DOMAIN pipeline = DOMAIN Default
    BY PreprocessingAssumption
  <2>2. "training" \in DOMAIN pipeline /\ "steps" \in DOMAIN pipeline
    BY <2>1 DEF Default
  <2> QED
    BY <2>2, <1>4
<1>6. Listed(trained, Len(trained)) /\ DOMAIN trained = 1..Len(trained)
  <2>1. trained \in Seq(ToSet(trained))
    BY PreprocessingAssumption
  <2> HIDE DEF ToSet
  <2> QED
    BY <2>1 DEF Listed
<1>7. Configured
  <2>1. pipeline.steps \in Seq(ToSet(pipeline.steps))
    BY PreprocessingAssumption
  <2>2. Len(pipeline.steps) \in Nat /\ DOMAIN pipeline.steps = 1..Len(pipeline.steps)
    BY <2>1
  <2>3. \A n \in 1..Len(pipeline.steps) : pipeline.steps[n].name \in Cleaners
    BY <2>2, PreprocessingAssumption DEF ToSet
  <2> QED
    BY <1>5, <1>6, <2>2, <2>3 DEF Configured, Trained
<1> DEFINE m == Len(trained)
           rows == [i \in DOMAIN trained |->
                       [label |-> i, who |-> trained[i].who, cell |-> trained[i].cell]]
<1>8. m \in Nat /\ Listed(rows, m)
  BY <1>6 DEF Listed
<1>9. \A i \in 1..m : IsRow(rows[i]) /\ rows[i].label = i /\ rows[i].who = trained[i].who
  BY <1>6 DEF IsRow
<1> HIDE DEF rows
<1>10. /\ frame = [ok |-> frame.ok, cols |-> frame.cols, rows |-> frame.rows, dtype |-> frame.dtype]
       /\ frame.rows = rows
  BY <1>4 DEF Untrained, FrameOf, rows
<1>11. Len(frame.rows) = m
  BY <1>8, <1>10, Lengths
<1>12. IsFrame(frame)
  BY <1>8, <1>9, <1>10, <1>11 DEF IsFrame
<1> QED
  BY <1>4, <1>5, <1>7, <1>8, <1>9, <1>10, <1>11, <1>12, <1>2 DEF FrameFollows, Trained, Owns

LEMMA CleanStep ==
  ASSUME FittingInvariant, FitClean
  PROVE  FittingInvariant'
<1> DEFINE n == Trained
<1>1. Configured /\ FrameFollows /\ stage = "clean" /\ n \in Nat
  BY DEF FittingInvariant, FitClean, Configured, Listed
<1>2. Fewer(frame, frame')
  <2>1. IsFrame(frame)
    BY <1>1 DEF FrameFollows
  <2>2. Fewer(frame, frame)
    BY <2>1 DEF Fewer, IsFrame, Listed
  <2>3. Fewer(frame, Clean(frame))
    BY <2>1, <1>1, CleanFewer DEF Configured
  <2> QED
    BY <2>2, <2>3 DEF FitClean, Leaves
<1>3. Configured' /\ n' = n /\ \A r : Owns(r)' <=> Owns(r)
  BY <1>1 DEF FitClean, Configured, Trained, Owns
<1>4. IsFrame(frame)' /\ Len(frame'.rows) <= n
  BY <1>1, <1>2 DEF Fewer, FrameFollows, IsFrame, IsRow, Listed
<1>5. stage' # "clean" /\ kept' = Len(frame'.rows)
  BY DEF FitClean, Leaves
<1>6. ASSUME Len(frame'.rows) = n, NEW i \in 1..n
      PROVE  Owns(frame'.rows[i]) /\ frame'.rows[i].label = i
  <2>1. Len(frame.rows) = n /\ kept = n
    BY <1>1 DEF FrameFollows
  <2>2. Owns(frame.rows[i]) /\ frame.rows[i].label = i
    BY <1>1, <1>6, <2>1 DEF FrameFollows
  <2>3. /\ frame'.rows[i].who = frame.rows[i].who
        /\ frame'.rows[i].label \in {frame.rows[i].label, i}
    BY <1>2, <1>6, <2>1 DEF Fewer
  <2> QED
    BY <2>2, <2>3 DEF Owns
<1>7. FrameFollows'
  BY <1>3, <1>4, <1>5, <1>6 DEF FrameFollows
<1>8. LabelsFollow'
  <2>1. pairs' = pairs /\ cfg' = cfg
    BY DEF FitClean
  <2>2. pairs = {}
    BY <1>1 DEF FrameFollows
  <2> QED
    BY <2>1, <2>2 DEF LabelsFollow
<1> QED
  BY <1>3, <1>7, <1>8 DEF FittingInvariant

LEMMA FitStep ==
  ASSUME FittingInvariant, Fit
  PROVE  FittingInvariant'
<1> DEFINE n == Trained
<1>1. stage \notin {"service", "training"}
  BY DEF Fit, FitClean, FitImpute, FitOutliers, FitEncode, FitScale, FitSelect
<1>2. Configured /\ FrameFollows /\ LabelsFollow /\ IsFrame(frame) /\ n \in Nat
  BY <1>1 DEF FittingInvariant, FrameFollows, Configured, Listed
<1>3. LabelsFollow' <=> \A p \in pairs' : kept' = Len(cfg'.training) => p[1] = p[2]
  BY DEF LabelsFollow
<1>4. UNCHANGED <<cfg, kept, pairs>> => LabelsFollow'
  BY <1>2, <1>3 DEF LabelsFollow
<1>5. \A i \in 1..n : Labels[i] = cfg.training[i].who
  BY <1>2 DEF Configured, Listed, Labels
<1>6. DOMAIN frame.rows = 1..Len(frame.rows) /\ Len(frame.rows) \in Nat
  BY <1>2, Lengths DEF IsFrame, Listed
<1>7. CASE FitClean
  BY <1>7, CleanStep
<1>8. CASE FitImpute
  <2>1. Some(frame, frame') /\ stage' # "clean"
    BY <1>2, <1>8, StagesSome DEF FitImpute, Leaves
  <2> QED
    BY <1>1, <1>4, <1>8, <2>1, StageStep DEF FitImpute
<1>9. CASE FitOutliers
  <2>1. Some(frame, frame') /\ stage' # "clean"
    BY <1>2, <1>9, StagesSome DEF FitOutliers, Leaves
  <2> QED
    BY <1>1, <1>4, <1>9, <2>1, StageStep DEF FitOutliers
<1>10. CASE FitScale
  <2>1. Some(frame, frame') /\ stage' # "clean"
    BY <1>2, <1>10, StagesSome DEF FitScale, Leaves
  <2> QED
    BY <1>1, <1>4, <1>10, <2>1, StageStep DEF FitScale
<1>11. CASE FitEncode
  <2>1. Some(frame, frame') /\ stage' # "clean"
    BY <1>2, <1>11, StagesSome DEF FitEncode, Leaves
  <2>2. UNCHANGED <<cfg, kept>>
    BY <1>11 DEF FitEncode
  <2>3. CASE pairs' = pairs
    BY <1>1, <1>4, <2>1, <2>2, <2>3, StageStep
  <2>4. CASE /\ ~Unencodable(frame) /\ TargetEncoded
             /\ pairs' = pairs \cup {<<frame.rows[i].who, Labels[i]>> : i \in DOMAIN frame.rows}
    <3>1. Len(frame.rows) = n
      <4>1. Len(Labels) = n
        BY <1>2, Lengths DEF Labels, Configured, Listed
      <4> QED
        BY <4>1, <2>4 DEF Unencodable
    <3>2. ASSUME kept = n, NEW i \in DOMAIN frame.rows
          PROVE  frame.rows[i].who = Labels[i]
      <4>1. i \in 1..n
        BY <1>6, <3>1
      <4>2. Owns(frame.rows[i]) /\ frame.rows[i].label = i
        BY <1>2, <3>1, <3>2, <4>1 DEF FrameFollows
      <4> QED
        BY <1>5, <4>1, <4>2 DEF Owns
    <3>3. LabelsFollow'
      BY <1>2, <1>3, <2>2, <2>4, <3>2 DEF LabelsFollow, Trained
    <3> QED
      BY <1>1, <2>1, <2>2, <3>3, StageStep
  <2> QED
    BY <1>11, <2>3, <2>4 DEF FitEncode
<1>12. CASE FitSelect
  <2>1. Some(frame, frame') /\ stage' # "clean"
    BY <1>2, <1>12, StagesSome DEF FitSelect, Leaves
  <2>2. UNCHANGED <<cfg, kept>>
    BY <1>12 DEF FitSelect
  <2>3. CASE pairs' = pairs
    BY <1>1, <1>4, <2>1, <2>2, <2>3, StageStep
  <2>4. CASE pairs' = pairs \cup {<<r.who, Labels[r.label]>> : r \in ToSet(frame.rows)}
    <3>1. ASSUME kept = n, NEW r \in ToSet(frame.rows)
          PROVE  r.who = Labels[r.label]
      <4>1. PICK i \in 1..Len(frame.rows) : r = frame.rows[i]
        BY <1>6 DEF ToSet
      <4>2. Owns(r)
        BY <1>2, <3>1, <4>1 DEF FrameFollows
      <4> QED
        BY <1>5, <4>2 DEF Owns
    <3>2. LabelsFollow'
      BY <1>2, <1>3, <2>2, <2>4, <3>1 DEF LabelsFollow, Trained
    <3> QED
      BY <1>1, <2>1, <2>2, <3>2, StageStep
  <2> QED
    BY <1>12, <2>3, <2>4 DEF FitSelect
<1> QED
  BY <1>7, <1>8, <1>9, <1>10, <1>11, <1>12 DEF Fit

LEMMA FollowsNext ==
  ASSUME FittingInvariant, [Next]_vars
  PROVE  FittingInvariant'
<1>1. CASE FitLibrary
  BY <1>1, FitStep DEF FitLibrary
<1>2. CASE UNCHANGED preprocessing
  BY <1>2 DEF preprocessing, FittingInvariant, Configured, FrameFollows, LabelsFollow, Trained,
     Owns, Listed, IsFrame, IsRow
<1>3. FitLibrary \/ UNCHANGED preprocessing
  <2>1. CASE RunTraining
    BY <2>1 DEF RunTraining
  <2>2. CASE \E r \in Requests : Infer(r)
    BY <2>2 DEF Infer
  <2>3. CASE ServiceNext
    BY <2>3 DEF ServiceNext, Service, Replace, Startup, Crash, WindowEnds, RedisChanges,
       Admit, Send, Predict, Break, Report, Answer, TimeOut
  <2>4. CASE UNCHANGED vars
    BY <2>4 DEF vars
  <2> QED
    BY <2>1, <2>2, <2>3, <2>4 DEF Next
<1> QED
  BY <1>1, <1>2, <1>3

\* A stage that learns from labels learns each row's own, unless a cleaner
\* dropped rows: for any configuration of the six stages, any training frame,
\* and whatever outliers are removed and columns made in between.
THEOREM LabelsAreFollowed == Spec => []LabelsFollow
<1>1. FittingInvariant => LabelsFollow
  BY DEF FittingInvariant
<1> QED
  BY <1>1, FollowsStart, FollowsNext, PTL DEF Spec

-----------------------------------------------------------------------------
(***************************************************************************)
(* The fitted pipeline: the models are given the schema they were trained  *)
(* on.  What the stages need of arithmetic and of lists: a finite set of   *)
(* integers has its extremes, a finite set's image is finite.              *)
(***************************************************************************)

\* A finite set of integers has a least element and a greatest one.
LEMMA ExtremesOf ==
  ASSUME NEW S \in SUBSET Int, IsFiniteSet(S), S # {}
  PROVE  /\ Min(S) \in S /\ \A y \in S : Min(S) <= y
         /\ Max(S) \in S /\ \A y \in S : y <= Max(S)
<1> DEFINE Below(x) == {y \in S : y < x}
           Above(x) == {y \in S : y > x}
<1>1. \A x \in S : /\ IsFiniteSet(Below(x)) /\ Cardinality(Below(x)) \in Nat
                   /\ IsFiniteSet(Above(x)) /\ Cardinality(Above(x)) \in Nat
  <2>1. \A T \in SUBSET S : IsFiniteSet(T) /\ Cardinality(T) \in Nat
    BY FS_Subset, FS_CardinalityType
  <2> QED
    BY <2>1
<1>2. \E x \in S : \A y \in S : x <= y
  <2> DEFINE Ranks == {Cardinality(Below(x)) : x \in S}
  <2>1. Ranks \in SUBSET Nat /\ Ranks # {}
    BY <1>1
  <2>2. PICK x \in S : \A y \in S : Cardinality(Below(x)) <= Cardinality(Below(y))
    <3>1. \E m \in Ranks : \A k \in Ranks : m <= k
      BY <2>1, LeastOf
    <3> QED
      BY <3>1
  <2>3. ASSUME NEW y \in S, y < x PROVE FALSE
    <3>1. (\A z \in S : z < y => z < x) /\ ~(y < y)
      BY <2>3
    <3>2. Below(y) \in SUBSET Below(x) /\ y \in Below(x) /\ y \notin Below(y)
      BY <2>3, <3>1
    <3>3. Cardinality(Below(y)) <= Cardinality(Below(x)) /\ Cardinality(Below(y)) # Cardinality(Below(x))
      BY <3>2, <1>1, FS_Subset
    <3>4. Cardinality(Below(x)) <= Cardinality(Below(y))
      BY <2>2
    <3>5. Cardinality(Below(x)) \in Nat /\ Cardinality(Below(y)) \in Nat
      BY <1>1
    <3> HIDE DEF Below
    <3> QED
      BY <3>3, <3>4, <3>5
  <2> QED
    BY <2>3
<1>3. \E x \in S : \A y \in S : x >= y
  <2> DEFINE Ranks == {Cardinality(Above(x)) : x \in S}
  <2>1. Ranks \in SUBSET Nat /\ Ranks # {}
    BY <1>1
  <2>2. PICK x \in S : \A y \in S : Cardinality(Above(x)) <= Cardinality(Above(y))
    <3>1. \E m \in Ranks : \A k \in Ranks : m <= k
      BY <2>1, LeastOf
    <3> QED
      BY <3>1
  <2>3. ASSUME NEW y \in S, y > x PROVE FALSE
    <3>1. (\A z \in S : z > y => z > x) /\ ~(y > y)
      BY <2>3
    <3>2. Above(y) \in SUBSET Above(x) /\ y \in Above(x) /\ y \notin Above(y)
      BY <2>3, <3>1
    <3>3. Cardinality(Above(y)) <= Cardinality(Above(x)) /\ Cardinality(Above(y)) # Cardinality(Above(x))
      BY <3>2, <1>1, FS_Subset
    <3>4. Cardinality(Above(x)) <= Cardinality(Above(y))
      BY <2>2
    <3>5. Cardinality(Above(x)) \in Nat /\ Cardinality(Above(y)) \in Nat
      BY <1>1
    <3> HIDE DEF Above
    <3> QED
      BY <3>3, <3>4, <3>5
  <2> QED
    BY <2>3
<1>4. Min(S) \in S /\ \A y \in S : Min(S) <= y
  BY <1>2 DEF Min
<1>5. Max(S) \in S /\ \A y \in S : Max(S) >= y
  BY <1>3 DEF Max
<1> QED
  BY <1>4, <1>5

\* The values a function takes on a finite set are finitely many.
LEMMA ImageOf ==
  ASSUME NEW S, IsFiniteSet(S), NEW g
  PROVE  IsFiniteSet({g[x] : x \in S})
<1> DEFINE T == {g[x] : x \in S}
           h == [x \in S |-> g[x]]
<1>1. h \in Surjection(S, T)
  BY DEF Surjection
<1> QED
  BY <1>1, FS_Surjection

\* What is sifted from a list are the elements kept.
LEMMA SiftedElements ==
  ASSUME NEW m \in Nat, NEW s, Listed(s, m), NEW keep \in SUBSET (1..m)
  PROVE  ToSet(Sifted(s, keep)) = {s[i] : i \in keep}
<1> DEFINE k == Cardinality(keep)
           Upto(i) == {j \in keep : j <= i}
<1>1. /\ k \in 0..m /\ DOMAIN Sifted(s, keep) = 1..k
      /\ \A n \in 1..k : Nth(keep, n) \in keep /\ Sifted(s, keep)[n] = s[Nth(keep, n)]
  <2>1. k \in 0..m /\ Listed(Sifted(s, keep), k)
    BY SiftedOf
  <2>2. DOMAIN Sifted(s, keep) = 1..k
    BY <2>1 DEF Listed
  <2>3. \A n \in 1..k : Nth(keep, n) \in keep
    BY NthKept
  <2> QED
    BY <2>1, <2>2, <2>3 DEF Sifted
<1>2. IsFiniteSet(keep)
  <2>1. IsFiniteSet(1..m)
    BY FS_Interval
  <2> QED
    BY <2>1, FS_Subset
<1>3. \A i \in keep : i \in Nat /\ IsFiniteSet(Upto(i)) /\ Cardinality(Upto(i)) \in 1..k
  <2>1. SUFFICES ASSUME NEW i \in keep
                 PROVE  i \in Nat /\ IsFiniteSet(Upto(i)) /\ Cardinality(Upto(i)) \in 1..k
    OBVIOUS
  <2>2. i \in Nat /\ Upto(i) \in SUBSET keep /\ i \in Upto(i)
    OBVIOUS
  <2>3. IsFiniteSet(Upto(i)) /\ Cardinality(Upto(i)) <= k /\ Cardinality(Upto(i)) \in Nat
    BY <2>2, <1>2, FS_Subset, FS_CardinalityType
  <2>4. Cardinality(Upto(i)) # 0
    BY <2>2, <2>3, FS_EmptySet
  <2> QED
    BY <2>2, <2>3, <2>4, <1>1
<1>4. ASSUME NEW i \in keep, NEW j \in keep, Cardinality(Upto(i)) = Cardinality(Upto(j))
      PROVE  i = j
  <2>1. CASE i <= j
    <3>0. i \in keep /\ j \in keep /\ \A z \in keep : (z <= i => z <= j) /\ j <= j
      BY <1>3, <2>1
    <3>1. Upto(i) \in SUBSET Upto(j) /\ j \in Upto(j)
      BY <3>0
    <3>2. Upto(i) = Upto(j)
      BY <3>1, <1>3, <1>4, FS_Subset
    <3> QED
      BY <3>1, <3>2, <1>3, <2>1
  <2>2. CASE j <= i
    <3>0. i \in keep /\ j \in keep /\ \A z \in keep : (z <= j => z <= i) /\ i <= i
      BY <1>3, <2>2
    <3>1. Upto(j) \in SUBSET Upto(i) /\ i \in Upto(i)
      BY <3>0
    <3>2. Upto(j) = Upto(i)
      BY <3>1, <1>3, <1>4, FS_Subset
    <3> QED
      BY <3>1, <3>2, <1>3, <2>2
  <2> QED
    BY <2>1, <2>2, <1>3
<1>5. ASSUME NEW i \in keep
      PROVE  Nth(keep, Cardinality(Upto(i))) = i
  BY <1>4 DEF Nth
<1> HIDE DEF Upto
<1>6. ASSUME NEW i \in keep
      PROVE  \E n \in 1..k : Sifted(s, keep)[n] = s[i]
  <2>1. Cardinality(Upto(i)) \in 1..k
    BY <1>3
  <2>2. Sifted(s, keep)[Cardinality(Upto(i))] = s[Nth(keep, Cardinality(Upto(i)))]
    BY <2>1, <1>1
  <2> QED
    BY <2>1, <2>2, <1>5
<1>7. \A n \in 1..k : \E i \in keep : Sifted(s, keep)[n] = s[i]
  BY <1>1
<1>8. ToSet(Sifted(s, keep)) = {Sifted(s, keep)[n] : n \in 1..k}
  BY <1>1 DEF ToSet
<1> HIDE DEF k
<1> QED
  BY <1>6, <1>7, <1>8

(***************************************************************************)
(* A table: every row has a value, or Missing, in every column.  What a    *)
(* stage makes of a table is a table, and keeps its columns.               *)
(***************************************************************************)

\* Every row of f has a value in every column.
Table(f) ==
  /\ IsFrame(f)
  /\ \A i \in 1..Len(f.rows) : f.rows[i].cell \in [Columns(f) -> Value]

\* g is a table with the columns of f.
Keeps(f, g) == Table(g) /\ g.cols = f.cols

\* A frame without gaps in the columns of C
Full(f, C) == \A i \in 1..Len(f.rows), c \in C \cap Columns(f) : f.rows[i].cell[c] # Missing

LEMMA RowsOf ==
  ASSUME NEW f, IsFrame(f)
  PROVE  Len(f.rows) \in Nat /\ DOMAIN f.rows = 1..Len(f.rows)
BY Lengths DEF IsFrame, Listed

LEMMA RefilledCells ==
  ASSUME NEW f, IsFrame(f), NEW cells
  PROVE  LET g == Refilled(f, cells)
         IN  /\ IsFrame(g) /\ g.ok = f.ok /\ g.cols = f.cols /\ g.dtype = f.dtype
             /\ Len(g.rows) = Len(f.rows)
             /\ \A i \in 1..Len(f.rows) : g.rows[i].cell = cells[i]
<1> DEFINE rows == [i \in DOMAIN f.rows |-> [f.rows[i] EXCEPT !.cell = cells[i]]]
           g == Refilled(f, cells)
<1>1. g = [ok |-> f.ok, cols |-> f.cols, rows |-> rows, dtype |-> f.dtype]
  BY FrameExcept DEF Refilled
<1>2. \A i \in 1..Len(f.rows) : rows[i] = [f.rows[i] EXCEPT !.cell = cells[i]]
  BY RowsOf
<1>3. \A i \in 1..Len(f.rows) : rows[i].cell = cells[i]
  <2>1. SUFFICES ASSUME NEW i \in 1..Len(f.rows) PROVE rows[i].cell = cells[i]
    OBVIOUS
  <2>2. IsRow(f.rows[i])
    BY DEF IsFrame
  <2> HIDE DEF rows
  <2>3. [f.rows[i] EXCEPT !.cell = cells[i]].cell = cells[i]
    BY <2>2 DEF IsRow
  <2> QED
    BY <1>2, <2>3
<1> HIDE DEF rows
<1>4. Same(f, g)
  BY RefilledSame
<1>5. g.ok = f.ok /\ g.cols = f.cols /\ g.rows = rows /\ g.dtype = f.dtype
  BY <1>1
<1> QED
  BY <1>3, <1>4, <1>5 DEF Same

LEMMA RefilledKeeps ==
  ASSUME NEW f, Table(f), NEW cells,
         \A i \in 1..Len(f.rows) : cells[i] \in [Columns(f) -> Value]
  PROVE  Keeps(f, Refilled(f, cells))
<1> DEFINE g == Refilled(f, cells)
<1>1. /\ IsFrame(g) /\ g.cols = f.cols /\ Len(g.rows) = Len(f.rows)
      /\ \A i \in 1..Len(f.rows) : g.rows[i].cell = cells[i]
  BY RefilledCells DEF Table
<1> HIDE DEF g
<1>2. Columns(g) = Columns(f)
  BY <1>1 DEF Columns
<1>3. Table(g)
  BY <1>1, <1>2 DEF Table
<1> QED
  BY <1>1, <1>3 DEF Keeps, g

\* A frame with the columns and the rows of f, typed otherwise or raised
LEMMA AliasKeeps ==
  ASSUME NEW f, Table(f), NEW g, IsFrame(g), g.cols = f.cols, g.rows = f.rows
  PROVE  Keeps(f, g)
BY DEF Table, Keeps, Columns

LEMMA TypedKeeps ==
  ASSUME NEW f, Table(f), NEW cols, NEW type
  PROVE  /\ Keeps(f, Typed(f, cols, type)) /\ Keeps(f, Raised(f))
         /\ Typed(f, cols, type).rows = f.rows /\ Typed(f, cols, type).ok = f.ok
         /\ Raised(f).ok = FALSE
<1> DEFINE types == [c \in DOMAIN f.dtype |-> IF c \in cols THEN type ELSE f.dtype[c]]
           g == Typed(f, cols, type)
           h == Raised(f)
<1>1. IsFrame(f) /\ Same(f, f)
  BY DEF Table, Same, IsFrame, Edited
<1>2. g = [ok |-> f.ok, cols |-> f.cols, rows |-> f.rows, dtype |-> types]
  BY <1>1, FrameExcept DEF Typed
<1>3. h = [ok |-> FALSE, cols |-> f.cols, rows |-> f.rows, dtype |-> f.dtype]
  BY <1>1, FrameExcept DEF Raised
<1>4. IsFrame(g) /\ IsFrame(h)
  BY <1>1, TypedSame, RaisedSame DEF Same
<1> HIDE DEF g, h, types
<1>5. g.cols = f.cols /\ g.rows = f.rows /\ g.ok = f.ok
  BY <1>2
<1>6. h.cols = f.cols /\ h.rows = f.rows /\ h.ok = FALSE
  BY <1>3
<1> QED
  BY <1>4, <1>5, <1>6, AliasKeeps DEF g, h

LEMMA SiftedKeeps ==
  ASSUME NEW f, Table(f), NEW keep \in SUBSET DOMAIN f.rows
  PROVE  LET g == [f EXCEPT !.rows = Sifted(f.rows, keep)]
         IN  Keeps(f, g) /\ \A C : Full(f, C) => Full(g, C)
<1> DEFINE m == Len(f.rows)
           k == Cardinality(keep)
           rows == Sifted(f.rows, keep)
           g == [f EXCEPT !.rows = rows]
<1>1. IsFrame(f) /\ m \in Nat /\ DOMAIN f.rows = 1..m /\ Listed(f.rows, m)
  BY RowsOf DEF Table, IsFrame
<1>2. /\ k \in 0..m /\ Listed(rows, k)
      /\ \A n \in 1..k : Nth(keep, n) \in 1..m /\ rows[n] = f.rows[Nth(keep, n)]
  BY <1>1, SiftedOf
<1>3. g = [ok |-> f.ok, cols |-> f.cols, rows |-> rows, dtype |-> f.dtype]
  BY <1>1, FrameExcept
<1>4. IsFrame(g)
  BY <1>1, SiftedSome DEF Some
<1>5. Len(rows) = k
  BY <1>1, <1>2, Lengths
<1> HIDE DEF g, rows, k
<1>6. g.cols = f.cols /\ g.rows = rows
  BY <1>3
<1>7. \A n \in 1..Len(g.rows) : \E i \in 1..m : g.rows[n].cell = f.rows[i].cell
  BY <1>2, <1>5, <1>6
<1>8. Columns(g) = Columns(f)
  BY <1>6 DEF Columns
<1>9. Table(g)
  BY <1>4, <1>7, <1>8 DEF Table
<1>10. \A C : Full(f, C) => Full(g, C)
  BY <1>7, <1>8 DEF Full
<1> QED
  BY <1>6, <1>9, <1>10 DEF Keeps, g, rows

LEMMA RenumberedKeeps ==
  ASSUME NEW f, Table(f)
  PROVE  Keeps(f, Renumbered(f))
<1> DEFINE m == Len(f.rows)
           rows == [i \in DOMAIN f.rows |-> [f.rows[i] EXCEPT !.label = i]]
           h == Renumbered(f)
<1>1. IsFrame(f) /\ m \in Nat /\ DOMAIN f.rows = 1..m
  BY RowsOf DEF Table
<1>2. h = [ok |-> f.ok, cols |-> f.cols, rows |-> rows, dtype |-> f.dtype]
  BY <1>1, FrameExcept DEF Renumbered
<1>3. Listed(rows, m)
  BY <1>1 DEF Listed
<1>4. Len(rows) = m
  BY <1>1, <1>3, Lengths
<1>5. ASSUME NEW i \in 1..m
      PROVE  IsRow(rows[i]) /\ rows[i].cell = f.rows[i].cell
  <2>1. IsRow(f.rows[i])
    BY <1>1 DEF IsFrame
  <2>2. rows[i] = [f.rows[i] EXCEPT !.label = i]
    BY <1>1
  <2> HIDE DEF rows
  <2>3. IsRow([f.rows[i] EXCEPT !.label = i]) /\ [f.rows[i] EXCEPT !.label = i].cell = f.rows[i].cell
    BY <2>1 DEF IsRow
  <2> QED
    BY <2>2, <2>3
<1> HIDE DEF h, rows
<1>6. /\ h = [ok |-> h.ok, cols |-> h.cols, rows |-> h.rows, dtype |-> h.dtype]
      /\ h.rows = rows /\ h.cols = f.cols
  BY <1>2
<1>7. IsFrame(h)
  BY <1>3, <1>4, <1>5, <1>6 DEF IsFrame
<1>8. Columns(h) = Columns(f)
  BY <1>6 DEF Columns
<1>9. Table(h)
  BY <1>4, <1>5, <1>6, <1>7, <1>8 DEF Table
<1> QED
  BY <1>6, <1>9 DEF Keeps, h

LEMMA KeepsMore ==
  ASSUME NEW f, NEW g, Keeps(f, g), NEW h, Keeps(g, h)
  PROVE  Keeps(f, h)
BY DEF Keeps

LEMMA WordsRead ==
  ASSUME NEW v \in Value
  PROVE  Spelled(v) \in Value /\ Parsed(v) \in Value
BY PreprocessingAssumption DEF Spelled, Parsed, Value

LEMMA CleanerKeeps ==
  ASSUME NEW f, Table(f), NEW step, step.name \in Cleaners
  PROVE  Keeps(f, Cleaner(f, step))
<1> DEFINE n == Len(f.rows)
<1>1. IsFrame(f) /\ n \in Nat /\ DOMAIN f.rows = 1..n
  BY RowsOf DEF Table
<1>2. \A i \in 1..n : /\ f.rows[i].cell \in [Columns(f) -> Value]
                      /\ DOMAIN f.rows[i].cell = Columns(f)
  BY DEF Table
<1>3. \A i \in 1..n, c \in Columns(f) : f.rows[i].cell[c] \in Value
  BY <1>2
<1>4. Missing \in Value
  BY DEF Value
<1>5. \A cells : (\A i \in 1..n : cells[i] \in [Columns(f) -> Value]) => Keeps(f, Refilled(f, cells))
  BY RefilledKeeps
<1>6. \A g : Keeps(f, g) => \A cols, type : Keeps(f, Typed(g, cols, type))
  <2>1. SUFFICES ASSUME NEW g, Keeps(f, g), NEW cols, NEW type
                 PROVE  Keeps(f, Typed(g, cols, type))
    OBVIOUS
  <2>2. Table(g)
    BY <2>1 DEF Keeps
  <2>3. Keeps(g, Typed(g, cols, type))
    BY <2>2, TypedKeeps
  <2> QED
    BY <2>1, <2>3, KeepsMore
<1>7. \A g : Keeps(f, g) => \A keep \in SUBSET DOMAIN g.rows :
         Keeps(f, Renumbered([g EXCEPT !.rows = Sifted(g.rows, keep)]))
  <2>1. SUFFICES ASSUME NEW g, Keeps(f, g), NEW keep \in SUBSET DOMAIN g.rows
                 PROVE  Keeps(f, Renumbered([g EXCEPT !.rows = Sifted(g.rows, keep)]))
    OBVIOUS
  <2> DEFINE h == [g EXCEPT !.rows = Sifted(g.rows, keep)]
  <2>2. Keeps(g, h)
    BY <2>1, SiftedKeeps DEF Keeps
  <2> HIDE DEF h
  <2>3. Keeps(h, Renumbered(h))
    BY <2>2, RenumberedKeeps DEF Keeps
  <2>4. Keeps(f, Renumbered(h))
    BY <2>1, <2>2, <2>3, KeepsMore
  <2> QED
    BY <2>4 DEF h
<1>8. Keeps(f, f) /\ Keeps(f, Raised(f))
  BY TypedKeeps DEF Keeps
<1>9. Keeps(f, Normalized(f, step))
  <2> DEFINE cols == StringColumns(f, step)
             cells == [i \in DOMAIN f.rows |-> [c \in DOMAIN f.rows[i].cell |->
                 IF c \in cols THEN Spelled(f.rows[i].cell[c]) ELSE f.rows[i].cell[c]]]
  <2>1. \A i \in 1..n : cells[i] \in [Columns(f) -> Value]
    BY <1>1, <1>2, <1>3, WordsRead
  <2>2. Normalized(f, step) = Typed(Refilled(f, cells), cols, "string")
    BY DEF Normalized, Rewrite, Recomputed
  <2> HIDE DEF cells
  <2> QED
    BY <2>1, <2>2, <1>5, <1>6
<1>10. Keeps(f, Standardized(f, step))
  <2> DEFINE cols == StringColumns(f, step)
             cells == [i \in DOMAIN f.rows |-> [c \in DOMAIN f.rows[i].cell |->
                 IF c \in cols THEN IF f.rows[i].cell[c] \in Tokens THEN Missing ELSE f.rows[i].cell[c]
                 ELSE f.rows[i].cell[c]]]
  <2>1. \A i \in 1..n : cells[i] \in [Columns(f) -> Value]
    BY <1>1, <1>2, <1>3, <1>4
  <2>2. Standardized(f, step) = Refilled(f, cells)
    BY DEF Standardized, Rewrite, Recomputed
  <2> HIDE DEF cells
  <2> QED
    BY <2>1, <2>2, <1>5
<1>11. Keeps(f, ParsedAmounts(f, step))
  <2> DEFINE cols == step.columns \cap Columns(f)
             cells == [i \in DOMAIN f.rows |-> [c \in DOMAIN f.rows[i].cell |->
                 IF c \in cols THEN Parsed(f.rows[i].cell[c]) ELSE f.rows[i].cell[c]]]
  <2>1. \A i \in 1..n : cells[i] \in [Columns(f) -> Value]
    BY <1>1, <1>2, <1>3, WordsRead
  <2>2. ParsedAmounts(f, step) = Typed(Refilled(f, cells), cols, "number")
    BY DEF ParsedAmounts, Rewrite, Recomputed
  <2> HIDE DEF cells
  <2> QED
    BY <2>1, <2>2, <1>5, <1>6
<1>12. Keeps(f, Corrected(f))
  <2>1. \A cols : LET cells == [i \in DOMAIN f.rows |-> [c \in DOMAIN f.rows[i].cell |->
                      IF c \in cols THEN IF IsWord(f.rows[i].cell[c]) THEN Missing ELSE f.rows[i].cell[c]
                      ELSE f.rows[i].cell[c]]]
                  IN  Keeps(f, Typed(Refilled(f, cells), cols, "number"))
    <3>1. TAKE cols
    <3> DEFINE cells == [i \in DOMAIN f.rows |-> [c \in DOMAIN f.rows[i].cell |->
                      IF c \in cols THEN IF IsWord(f.rows[i].cell[c]) THEN Missing ELSE f.rows[i].cell[c]
                      ELSE f.rows[i].cell[c]]]
    <3>2. \A i \in 1..n : cells[i] \in [Columns(f) -> Value]
      BY <1>1, <1>2, <1>3, <1>4
    <3> HIDE DEF cells
    <3>3. Keeps(f, Typed(Refilled(f, cells), cols, "number"))
      BY <3>2, <1>5, <1>6
    <3> QED
      BY <3>3 DEF cells
  <2> QED
    BY <2>1 DEF Corrected, Rewrite, Recomputed
<1>13. Keeps(f, Validated(f, step))
  <2> DEFINE rules == {rule \in step.rules : rule.column \in Columns(f)}
             Nulled(r, c) == \E rule \in rules : /\ ~rule.drop /\ rule.column = c
                                                 /\ OutOfRange(rule, r.cell[c])
             cells == [i \in DOMAIN f.rows |-> [c \in DOMAIN f.rows[i].cell |->
                 IF Nulled(f.rows[i], c) THEN Missing ELSE f.rows[i].cell[c]]]
             nulled == Refilled(f, cells)
  <2>1. \A i \in 1..n : cells[i] \in [Columns(f) -> Value]
    BY <1>1, <1>2, <1>3, <1>4
  <2> HIDE DEF cells
  <2>2. Keeps(f, nulled)
    BY <2>1, <1>5
  <2> HIDE DEF nulled
  <2>3. \A keep \in SUBSET DOMAIN nulled.rows :
            Keeps(f, Renumbered([nulled EXCEPT !.rows = Sifted(nulled.rows, keep)]))
    BY <2>2, <1>7
  <2>4. Validated(f, step) = nulled \/ \E keep \in SUBSET DOMAIN nulled.rows :
            Validated(f, step) = Renumbered([nulled EXCEPT !.rows = Sifted(nulled.rows, keep)])
    BY DEF Validated, Without, Recomputed, nulled, cells
  <2> QED
    BY <2>2, <2>3, <2>4
<1>14. Keeps(f, Consistent(f, step))
  <2> DEFINE Violated(r) == LET l == r.cell[step.left]  m == r.cell[step.right]
                            IN  l = Missing \/ m = Missing \/ l > m
             cells == [i \in DOMAIN f.rows |-> [c \in DOMAIN f.rows[i].cell |->
                 IF c = step.left /\ Violated(f.rows[i]) THEN Missing ELSE f.rows[i].cell[c]]]
  <2>1. \A i \in 1..n : cells[i] \in [Columns(f) -> Value]
    BY <1>1, <1>2, <1>3, <1>4
  <2> HIDE DEF cells
  <2>2. Keeps(f, Refilled(f, cells))
    BY <2>1, <1>5
  <2>3. \A keep \in SUBSET DOMAIN f.rows :
            Keeps(f, Renumbered([f EXCEPT !.rows = Sifted(f.rows, keep)]))
    BY <1>7, <1>8
  <2>4. \/ Consistent(f, step) \in {f, Raised(f), Refilled(f, cells)}
        \/ \E keep \in SUBSET DOMAIN f.rows :
              Consistent(f, step) = Renumbered([f EXCEPT !.rows = Sifted(f.rows, keep)])
    BY DEF Consistent, Without, Recomputed, cells
  <2> QED
    BY <1>8, <2>2, <2>3, <2>4
<1>15. Keeps(f, Deduplicated(f))
  BY <1>7, <1>8 DEF Deduplicated
<1> QED
  BY <1>9, <1>10, <1>11, <1>12, <1>13, <1>14, <1>15 DEF Cleaner, Cleaners

LEMMA CleanKeeps ==
  ASSUME Len(cfg.steps) \in Nat,
         \A n \in 1..Len(cfg.steps) : cfg.steps[n].name \in Cleaners,
         NEW f, Table(f)
  PROVE  Keeps(f, Clean(f))
<1> DEFINE m == Len(cfg.steps)
           cleaned[n \in 0..m] ==
               IF n = 0 THEN f
               ELSE IF cleaned[n - 1].ok THEN Cleaner(cleaned[n - 1], cfg.steps[n])
               ELSE cleaned[n - 1]
<1>0. \E g : CleanedBy(g, Len(cfg.steps), f)
  BY CleanedExists
<1>1. \E g : g = [i \in 0..m |-> IF i = 0 THEN f
                      ELSE IF g[i - 1].ok THEN Cleaner(g[i - 1], cfg.steps[i]) ELSE g[i - 1]]
  BY <1>0 DEF CleanedBy
<1>2. cleaned = [i \in 0..m |-> IF i = 0 THEN f
           ELSE IF cleaned[i - 1].ok THEN Cleaner(cleaned[i - 1], cfg.steps[i]) ELSE cleaned[i - 1]]
  BY <1>1
<1>3. Clean(f) = cleaned[m]
  BY DEF Clean
<1> HIDE DEF cleaned
<1> DEFINE T == {n \in 0..m : Keeps(f, cleaned[n])}
<1>4. 0 \in T
  <2>1. cleaned[0] = f
    BY <1>2
  <2>2. Keeps(f, f)
    BY DEF Keeps
  <2> QED
    BY <2>1, <2>2
<1>5. ASSUME NEW n \in 0..(m - 1), n \in T
      PROVE  n + 1 \in T
  <2>1. n + 1 \in 1..m /\ n + 1 \in 0..m /\ n + 1 # 0 /\ (n + 1) - 1 = n
    OBVIOUS
  <2>2. cleaned[n + 1] = IF cleaned[n].ok THEN Cleaner(cleaned[n], cfg.steps[n + 1]) ELSE cleaned[n]
    BY <2>1, <1>2
  <2>3. Keeps(f, cleaned[n]) /\ Table(cleaned[n])
    BY <1>5 DEF Keeps
  <2>4. Keeps(cleaned[n], Cleaner(cleaned[n], cfg.steps[n + 1]))
    BY <2>1, <2>3, CleanerKeeps
  <2>5. Keeps(f, Cleaner(cleaned[n], cfg.steps[n + 1]))
    BY <2>3, <2>4, KeepsMore
  <2> QED
    BY <2>1, <2>2, <2>3, <2>5
<1> HIDE DEF T
<1>6. \A n \in 0..m : n \in T
  BY <1>4, <1>5, UpTo
<1> QED
  BY <1>3, <1>6 DEF T

(***************************************************************************)
(* What is learned of a column is a number or nothing.                     *)
(***************************************************************************)
LEMMA PresentOf ==
  ASSUME NEW f, Table(f), NEW c \in Columns(f)
  PROVE  /\ Present(f, c) \in SUBSET Int /\ IsFiniteSet(Present(f, c))
         /\ \A i \in 1..Len(f.rows) : f.rows[i].cell[c] # Missing => f.rows[i].cell[c] \in Present(f, c)
<1> DEFINE n == Len(f.rows)
           g == [i \in 1..n |-> f.rows[i].cell[c]]
           all == {g[i] : i \in 1..n}
<1>1. n \in Nat /\ DOMAIN f.rows = 1..n
  BY RowsOf DEF Table
<1>2. \A i \in 1..n : f.rows[i].cell[c] \in Value
  BY DEF Table
<1>3. Present(f, c) = all \ {Missing}
  BY <1>1 DEF Present, ToSet
<1>4. IsFiniteSet(all)
  <2>1. IsFiniteSet(1..n)
    BY <1>1, FS_Interval
  <2> HIDE DEF g
  <2> QED
    BY <2>1, ImageOf
<1>5. IsFiniteSet(all \ {Missing})
  BY <1>4, FS_RemoveElement
<1>6. all \ {Missing} \subseteq Int
  BY <1>2 DEF Value
<1> QED
  BY <1>1, <1>3, <1>5, <1>6

\* Some value is the most frequent one, of several the least.
LEMMA ModeOf ==
  ASSUME NEW values \in SUBSET Int, IsFiniteSet(values), values # {},
         NEW times, \A v \in values : times[v] \in Nat
  PROVE  \E v \in values : \A w \in values :
             times[v] > times[w] \/ (times[v] = times[w] /\ v <= w)
<1> DEFINE counts == {times[v] : v \in values}
           most == {v \in values : times[v] = Max(counts)}
<1>1. counts \in SUBSET Int /\ counts # {}
  <2>1. \A v \in values : times[v] \in Int
    OBVIOUS
  <2> QED
    BY <2>1
<1>2. IsFiniteSet(counts)
  BY ImageOf
<1>3. Max(counts) \in counts /\ \A k \in counts : k <= Max(counts)
  BY <1>1, <1>2, ExtremesOf
<1>4. most \in SUBSET Int /\ most \in SUBSET values /\ most # {}
  BY <1>3
<1>5. IsFiniteSet(most)
  BY <1>4, FS_Subset
<1>6. Min(most) \in most /\ \A w \in most : Min(most) <= w
  BY <1>4, <1>5, ExtremesOf
<1>7. \A w \in values : times[Min(most)] > times[w]
          \/ (times[Min(most)] = times[w] /\ Min(most) <= w)
  <2>1. SUFFICES ASSUME NEW w \in values
                 PROVE  times[Min(most)] > times[w]
                        \/ (times[Min(most)] = times[w] /\ Min(most) <= w)
    OBVIOUS
  <2>2. times[w] \in Nat /\ times[w] <= Max(counts) /\ times[Min(most)] = Max(counts) /\ Max(counts) \in Nat
    BY <1>3, <1>6
  <2>3. times[w] = Max(counts) => Min(most) <= w
    BY <1>6
  <2> HIDE DEF most, counts
  <2> QED
    BY <2>2, <2>3
<1> QED
  BY <1>4, <1>6, <1>7

LEMMA StatisticOf ==
  ASSUME NEW f, Table(f), NEW c \in Columns(f), NEW strategy
  PROVE  /\ Statistic(f, c, strategy) \in Value
         /\ Present(f, c) # {} => Statistic(f, c, strategy) \in Int
<1> DEFINE values == Present(f, c)
           n == Len(f.rows)
           Times(v) == Cardinality({i \in DOMAIN f.rows : f.rows[i].cell[c] = v})
           Below(v) == Cardinality({i \in DOMAIN f.rows :
                           f.rows[i].cell[c] # Missing /\ f.rows[i].cell[c] <= v})
           present == Cardinality({i \in DOMAIN f.rows : f.rows[i].cell[c] # Missing})
           upper == {v \in values : 2 * Below(v) >= present}
<1>1. /\ values \in SUBSET Int /\ IsFiniteSet(values)
      /\ \A i \in 1..n : f.rows[i].cell[c] # Missing => f.rows[i].cell[c] \in values
  BY PresentOf
<1>2. n \in Nat /\ DOMAIN f.rows = 1..n
  BY RowsOf DEF Table
<1>3. \A S \in SUBSET (1..n) : IsFiniteSet(S) /\ Cardinality(S) \in Nat
  <2>1. IsFiniteSet(1..n)
    BY <1>2, FS_Interval
  <2> QED
    BY <2>1, FS_Subset, FS_CardinalityType
<1>4. Statistic(f, c, strategy) =
        CASE strategy = "constant" -> 0
          [] values = {} -> Missing
          [] strategy = "mode" ->
                 CHOOSE v \in values : \A w \in values :
                     Times(v) > Times(w) \/ (Times(v) = Times(w) /\ v <= w)
          [] OTHER -> Min(upper)
  BY DEF Statistic, Count
<1>5. values # {} => \E v \in values : \A w \in values :
          Times(v) > Times(w) \/ (Times(v) = Times(w) /\ v <= w)
  <2>1. SUFFICES ASSUME values # {}
                 PROVE  \E v \in values : \A w \in values :
                            Times(v) > Times(w) \/ (Times(v) = Times(w) /\ v <= w)
    OBVIOUS
  <2> DEFINE times == [v \in values |-> Times(v)]
  <2>2. \A v \in values : times[v] = Times(v)
    OBVIOUS
  <2>3. \A v \in values : Times(v) \in Nat
    BY <1>2, <1>3
  <2> HIDE DEF times, Times, values
  <2>4. \A v \in values : times[v] \in Nat
    BY <2>2, <2>3
  <2>5. \E v \in values : \A w \in values :
            times[v] > times[w] \/ (times[v] = times[w] /\ v <= w)
    BY <1>1, <2>1, <2>4, ModeOf
  <2> QED
    BY <2>2, <2>5
<1>6. values # {} => Min(upper) \in values
  <2>1. SUFFICES ASSUME values # {} PROVE Min(upper) \in values
    OBVIOUS
  <2> DEFINE last == Max(values)
  <2>2. last \in values /\ \A v \in values : v <= last
    BY <1>1, <2>1, ExtremesOf
  <2>3. {i \in DOMAIN f.rows : f.rows[i].cell[c] # Missing /\ f.rows[i].cell[c] <= last}
          = {i \in DOMAIN f.rows : f.rows[i].cell[c] # Missing}
    BY <1>1, <1>2, <2>2
  <2>4. Below(last) = present
    BY <2>3
  <2>5. present \in Nat
    BY <1>2, <1>3
  <2> HIDE DEF present, last, Below, values
  <2>6. last \in upper
    BY <2>2, <2>4, <2>5
  <2>7. upper \in SUBSET values
    OBVIOUS
  <2>8. upper \in SUBSET Int /\ IsFiniteSet(upper)
    BY <1>1, <2>7, FS_Subset
  <2> HIDE DEF upper
  <2>9. Min(upper) \in upper
    BY <2>6, <2>8, ExtremesOf
  <2> QED
    BY <2>7, <2>9
<1> HIDE DEF values, Times, upper
<1>7. values # {} => Statistic(f, c, strategy) \in values \cup {0}
  BY <1>4, <1>5, <1>6
<1>8. values = {} => Statistic(f, c, strategy) \in {0, Missing}
  BY <1>4
<1> QED
  BY <1>1, <1>7, <1>8 DEF Value, values

(***************************************************************************)
(* Imputation leaves no gap in a column it has a value for; outliers and   *)
(* scaling make none.                                                      *)
(***************************************************************************)

LEMMA NeighbourOf ==
  ASSUME NEW f, Table(f), NEW c \in Columns(f), NEW i, NEW strategy
  PROVE  Neighbour(f, c, i, strategy) \in Value
<1> DEFINE n == Len(f.rows)
           near == {j \in DOMAIN f.rows : /\ f.rows[j].cell[c] # Missing
                                          /\ IF strategy = "ffill" THEN j < i ELSE j > i}
<1>1. n \in Nat /\ DOMAIN f.rows = 1..n
  BY RowsOf DEF Table
<1>2. \A j \in 1..n : f.rows[j].cell[c] \in Value
  BY DEF Table
<1>3. near \in SUBSET (1..n)
  BY <1>1
<1>4. near \in SUBSET Int /\ IsFiniteSet(near)
  <2>1. IsFiniteSet(1..n)
    BY <1>1, FS_Interval
  <2>2. 1..n \in SUBSET Int
    BY <1>1
  <2> HIDE DEF near
  <2> QED
    BY <2>1, <2>2, <1>3, FS_Subset
<1>5. Neighbour(f, c, i, strategy) =
        IF near = {} THEN Missing
        ELSE f.rows[IF strategy = "ffill" THEN Max(near) ELSE Min(near)].cell[c]
  BY DEF Neighbour
<1> HIDE DEF near
<1>6. near # {} => Max(near) \in 1..n /\ Min(near) \in 1..n
  BY <1>3, <1>4, ExtremesOf
<1> QED
  BY <1>2, <1>5, <1>6 DEF Value

LEMMA FillsOf ==
  ASSUME NEW f, Table(f)
  PROVE  \A c \in DOMAIN Fills(f) : Fills(f)[c].value \in Value
BY StatisticOf DEF Fills

\* What fills a column is put in every gap of it.
LEMMA ImputedKeeps ==
  ASSUME NEW f, Table(f), NEW fills, \A c \in DOMAIN fills : fills[c].value \in Value
  PROVE  LET g == Imputed(f, fills)
         IN  /\ Keeps(f, g)
             /\ g.ok => \A i \in 1..Len(g.rows), c \in DOMAIN fills \cap Columns(g) :
                    fills[c].strategy \notin Directional /\ fills[c].value # Missing
                        => g.rows[i].cell[c] # Missing
<1> DEFINE n == Len(f.rows)
           g == Imputed(f, fills)
           Fill(i, c) == IF fills[c].strategy \in Directional
                         THEN Neighbour(f, c, i, fills[c].strategy) ELSE fills[c].value
           gaps == {c \in DOMAIN fills \cap Columns(f) :
                      Cardinality({i \in DOMAIN f.rows : f.rows[i].cell[c] = Missing}) > 0}
           cells == [i \in DOMAIN f.rows |-> [c \in DOMAIN f.rows[i].cell |->
               IF c \in gaps /\ f.rows[i].cell[c] = Missing THEN Fill(i, c) ELSE f.rows[i].cell[c]]]
<1>1. IsFrame(f) /\ n \in Nat /\ DOMAIN f.rows = 1..n
  BY RowsOf DEF Table
<1>2. \A i \in 1..n : /\ f.rows[i].cell \in [Columns(f) -> Value]
                      /\ DOMAIN f.rows[i].cell = Columns(f)
  BY DEF Table
<1>3. g = Raised(f) \/ g = Refilled(f, cells)
  BY DEF Imputed, Recomputed, Count
<1>4. \A c \in gaps : c \in DOMAIN fills /\ c \in Columns(f)
  OBVIOUS
<1>5. ASSUME NEW c \in DOMAIN fills \cap Columns(f), NEW i \in 1..n, f.rows[i].cell[c] = Missing
      PROVE  c \in gaps
  <2> DEFINE missing == {j \in DOMAIN f.rows : f.rows[j].cell[c] = Missing}
  <2>1. i \in missing /\ missing \in SUBSET (1..n)
    BY <1>1, <1>5
  <2>2. IsFiniteSet(1..n)
    <3>1. 1 \in Int /\ n \in Int
      BY <1>1
    <3> HIDE DEF n
    <3> QED
      BY <3>1, FS_Interval
  <2> HIDE DEF missing
  <2>3. Cardinality(missing) \in Nat /\ Cardinality(missing) # 0
    BY <2>1, <2>2, FS_Subset, FS_CardinalityType, FS_EmptySet
  <2> QED
    BY <1>5, <2>3 DEF missing
<1> HIDE DEF gaps
<1>6. \A c \in gaps, i \in 1..n : Fill(i, c) \in Value
  BY <1>4, NeighbourOf
<1>7. \A i \in 1..n, c \in Columns(f) :
         cells[i][c] = IF c \in gaps /\ f.rows[i].cell[c] = Missing THEN Fill(i, c) ELSE f.rows[i].cell[c]
  BY <1>1, <1>2
<1>8. \A i \in 1..n : cells[i] \in [Columns(f) -> Value]
  <2>1. \A i \in 1..n : cells[i] = [c \in Columns(f) |-> cells[i][c]]
    BY <1>1, <1>2
  <2>2. \A i \in 1..n, c \in Columns(f) : f.rows[i].cell[c] \in Value
    BY <1>2
  <2> HIDE DEF Fill, cells
  <2>3. ASSUME NEW i \in 1..n, NEW c \in Columns(f)
        PROVE  cells[i][c] \in Value
    <3>1. CASE c \in gaps /\ f.rows[i].cell[c] = Missing
      <4>1. cells[i][c] = Fill(i, c)
        BY <1>7, <3>1
      <4>2. Fill(i, c) \in Value
        BY <1>6, <3>1
      <4> QED
        BY <4>1, <4>2
    <3>2. CASE ~(c \in gaps /\ f.rows[i].cell[c] = Missing)
      <4>1. cells[i][c] = f.rows[i].cell[c]
        BY <1>7, <3>2
      <4> QED
        BY <2>2, <4>1
    <3> QED
      BY <3>1, <3>2
  <2>4. SUFFICES ASSUME NEW i \in 1..n
                 PROVE  cells[i] \in [Columns(f) -> Value]
    OBVIOUS
  <2> DEFINE values == cells[i]
  <2>5. values = [c \in Columns(f) |-> values[c]]
    BY <2>1
  <2>6. \A c \in Columns(f) : values[c] \in Value
    BY <2>3
  <2> HIDE DEF values
  <2>7. values \in [Columns(f) -> Value]
    BY <2>5, <2>6
  <2> QED
    BY <2>7 DEF values
<1> HIDE DEF cells, g
<1>9. Keeps(f, Raised(f)) /\ Keeps(f, Refilled(f, cells)) /\ ~Raised(f).ok
  BY <1>8, TypedKeeps, RefilledKeeps
<1>10. ASSUME g.ok, NEW i \in 1..Len(g.rows), NEW c \in DOMAIN fills \cap Columns(g),
              fills[c].strategy \notin Directional, fills[c].value # Missing
       PROVE  g.rows[i].cell[c] # Missing
  <2>1. g = Refilled(f, cells)
    BY <1>3, <1>9, <1>10
  <2>2. /\ Len(g.rows) = n /\ g.cols = f.cols
        /\ \A j \in 1..n : g.rows[j].cell = cells[j]
    BY <2>1, <1>1, RefilledCells
  <2>3. c \in DOMAIN fills \cap Columns(f) /\ i \in 1..n
    BY <1>10, <2>2 DEF Columns
  <2>4. f.rows[i].cell[c] = Missing => c \in gaps
    BY <2>3, <1>5
  <2>5. c \in gaps => Fill(i, c) = fills[c].value
    BY <1>10
  <2> HIDE DEF Fill
  <2> QED
    BY <1>7, <1>10, <2>2, <2>3, <2>4, <2>5
<1> QED
  BY <1>3, <1>9, <1>10 DEF g

LEMMA BoundsOf ==
  ASSUME NEW f, Table(f), ~Unfit(f), NEW width \in Widths
  PROVE  \A c \in DOMAIN Bounds(f, width) :
             Bounds(f, width)[c].low \in Int /\ Bounds(f, width)[c].high \in Int
<1>1. ASSUME NEW c \in OutlierColumns(f)
      PROVE  /\ Statistic(f, c, "median") - width \in Int
             /\ Statistic(f, c, "median") + width \in Int
  <2>1. c \in Columns(f) /\ Present(f, c) # {}
    BY <1>1 DEF Unfit
  <2>2. Statistic(f, c, "median") \in Int /\ width \in Int
    BY <2>1, StatisticOf, PreprocessingAssumption
  <2> QED
    BY <2>2
<1>2. \A c \in OutlierColumns(f) :
         /\ Bounds(f, width)[c].low = Statistic(f, c, "median") - width
         /\ Bounds(f, width)[c].high = Statistic(f, c, "median") + width
  BY DEF Bounds
<1>3. DOMAIN Bounds(f, width) = OutlierColumns(f)
  BY DEF Bounds
<1> QED
  BY <1>1, <1>2, <1>3

LEMMA TreatedKeeps ==
  ASSUME NEW f, Table(f), NEW bounds,
         \A c \in DOMAIN bounds : bounds[c].low \in Int /\ bounds[c].high \in Int
  PROVE  /\ Keeps(f, Treated(f, bounds))
         /\ \A C : Full(f, C) => Full(Treated(f, bounds), C)
<1> DEFINE n == Len(f.rows)
           g == Treated(f, bounds)
           cells == [i \in DOMAIN f.rows |-> [c \in DOMAIN f.rows[i].cell |->
               IF c \in DOMAIN bounds THEN Clipped(f.rows[i].cell[c], bounds[c]) ELSE f.rows[i].cell[c]]]
<1>1. IsFrame(f) /\ n \in Nat /\ DOMAIN f.rows = 1..n
  BY RowsOf DEF Table
<1>2. \A i \in 1..n : /\ f.rows[i].cell \in [Columns(f) -> Value]
                      /\ DOMAIN f.rows[i].cell = Columns(f)
  BY DEF Table
<1>3. \/ g = Raised(f) \/ g = f \/ g = Refilled(f, cells)
      \/ \E keep \in SUBSET DOMAIN f.rows : g = [f EXCEPT !.rows = Sifted(f.rows, keep)]
  BY DEF Treated, Recomputed, Without
<1>4. \A c \in DOMAIN bounds, v \in Value :
         Clipped(v, bounds[c]) \in Value /\ (v # Missing => Clipped(v, bounds[c]) # Missing)
  BY PreprocessingAssumption DEF Clipped, Value
<1>5. \A i \in 1..n : cells[i] = [c \in Columns(f) |->
          IF c \in DOMAIN bounds THEN Clipped(f.rows[i].cell[c], bounds[c]) ELSE f.rows[i].cell[c]]
  BY <1>1, <1>2
<1> HIDE DEF cells
<1>6. \A i \in 1..n : /\ cells[i] \in [Columns(f) -> Value]
                      /\ \A c \in Columns(f) : f.rows[i].cell[c] # Missing => cells[i][c] # Missing
  <2>1. \A i \in 1..n, c \in Columns(f) : f.rows[i].cell[c] \in Value
    BY <1>2
  <2>2. \A i \in 1..n, c \in Columns(f) :
           cells[i][c] \in Value /\ (f.rows[i].cell[c] # Missing => cells[i][c] # Missing)
    <3>1. SUFFICES ASSUME NEW i \in 1..n, NEW c \in Columns(f)
                   PROVE  /\ cells[i][c] \in Value
                          /\ f.rows[i].cell[c] # Missing => cells[i][c] # Missing
      OBVIOUS
    <3> DEFINE New(d) ==
             IF d \in DOMAIN bounds THEN Clipped(f.rows[i].cell[d], bounds[d]) ELSE f.rows[i].cell[d]
    <3>2. cells[i][c] = New(c)
      <4>1. cells[i] = [d \in Columns(f) |-> New(d)]
        BY <1>5
      <4> HIDE DEF New
      <4> QED
        BY <4>1
    <3>3. f.rows[i].cell[c] \in Value
      BY <2>1
    <3> QED
      BY <3>2, <3>3, <1>4
  <2>3. \A i \in 1..n : cells[i] = [c \in Columns(f) |-> cells[i][c]]
    BY <1>5
  <2> QED
    BY <2>2, <2>3
<1> HIDE DEF g
<1>7. ASSUME g = Raised(f)
      PROVE  Keeps(f, g) /\ \A C : Full(f, C) => Full(g, C)
  <2>1. Keeps(f, Raised(f)) /\ Raised(f).rows = f.rows
    BY <1>1, TypedKeeps, FrameExcept DEF Raised
  <2> QED
    BY <1>7, <2>1 DEF Full, Keeps, Columns
<1>8. ASSUME g = f
      PROVE  Keeps(f, g) /\ \A C : Full(f, C) => Full(g, C)
  BY <1>8 DEF Keeps
<1>9. ASSUME g = Refilled(f, cells)
      PROVE  Keeps(f, g) /\ \A C : Full(f, C) => Full(g, C)
  <2>1. Keeps(f, Refilled(f, cells))
    BY <1>6, RefilledKeeps
  <2>2. /\ Len(Refilled(f, cells).rows) = n
        /\ \A i \in 1..n : Refilled(f, cells).rows[i].cell = cells[i]
    BY <1>1, RefilledCells
  <2>3. Keeps(f, g) /\ Len(g.rows) = n /\ \A i \in 1..n : g.rows[i].cell = cells[i]
    BY <1>9, <2>1, <2>2
  <2>4. g.cols = f.cols
    BY <2>3 DEF Keeps
  <2>5. ASSUME NEW C, Full(f, C), NEW i \in 1..n, NEW c \in C \cap Columns(f)
        PROVE  g.rows[i].cell[c] # Missing
    <3>1. f.rows[i].cell[c] # Missing
      BY <2>5 DEF Full
    <3> QED
      BY <1>6, <2>3, <3>1
  <2>6. ASSUME NEW C, Full(f, C)
        PROVE  Full(g, C)
    <3>1. \A i \in 1..n, c \in C \cap Columns(f) : g.rows[i].cell[c] # Missing
      BY <2>5, <2>6
    <3>2. Columns(g) = Columns(f) /\ Len(g.rows) = n
      BY <2>3, <2>4 DEF Columns
    <3> QED
      BY <3>1, <3>2 DEF Full
  <2> QED
    BY <2>3, <2>6
<1>10. ASSUME NEW keep \in SUBSET DOMAIN f.rows, g = [f EXCEPT !.rows = Sifted(f.rows, keep)]
       PROVE  Keeps(f, g) /\ \A C : Full(f, C) => Full(g, C)
  <2> DEFINE h == [f EXCEPT !.rows = Sifted(f.rows, keep)]
  <2>1. Keeps(f, h) /\ \A C : Full(f, C) => Full(h, C)
    BY SiftedKeeps
  <2>2. g = h
    BY <1>10
  <2> HIDE DEF h
  <2> QED
    BY <2>1, <2>2
<1>11. Keeps(f, g) /\ \A C : Full(f, C) => Full(g, C)
  BY <1>3, <1>7, <1>8, <1>9, <1>10
<1> QED
  BY <1>11 DEF g

LEMMA CentresOf ==
  ASSUME NEW f, Table(f)
  PROVE  \A c \in DOMAIN Centres(f) : Centres(f)[c] \in Int
<1>1. \A c \in Numbers(f) : c \in Columns(f)
  BY DEF Numbers
<1>2. \A c \in Numbers(f) : Present(f, c) # {} =>
         Min(Present(f, c)) \in Int /\ Statistic(f, c, "median") \in Int
  BY <1>1, PresentOf, ExtremesOf, StatisticOf
<1> QED
  BY <1>2 DEF Centres

LEMMA ScaledKeeps ==
  ASSUME NEW f, Table(f), NEW centres, \A c \in DOMAIN centres : centres[c] \in Int
  PROVE  /\ Keeps(f, Scaled(f, centres))
         /\ \A C : Full(f, C) => Full(Scaled(f, centres), C)
<1> DEFINE n == Len(f.rows)
           g == Scaled(f, centres)
           cells == [i \in DOMAIN f.rows |-> [c \in DOMAIN f.rows[i].cell |->
               IF c \in DOMAIN centres /\ f.rows[i].cell[c] # Missing
               THEN f.rows[i].cell[c] - centres[c] ELSE f.rows[i].cell[c]]]
           h == Refilled(f, cells)
<1>1. IsFrame(f) /\ n \in Nat /\ DOMAIN f.rows = 1..n
  BY RowsOf DEF Table
<1>2. \A i \in 1..n : /\ f.rows[i].cell \in [Columns(f) -> Value]
                      /\ DOMAIN f.rows[i].cell = Columns(f)
  BY DEF Table
<1>3. g = Raised(f) \/ g = Typed(h, DOMAIN centres, "number")
  BY DEF Scaled, Recomputed
<1>4. \A c \in DOMAIN centres, v \in Value : v # Missing => v - centres[c] \in Value \ {Missing}
  BY PreprocessingAssumption DEF Value
<1>5. \A i \in 1..n : cells[i] = [c \in Columns(f) |->
          IF c \in DOMAIN centres /\ f.rows[i].cell[c] # Missing
          THEN f.rows[i].cell[c] - centres[c] ELSE f.rows[i].cell[c]]
  BY <1>1, <1>2
<1> HIDE DEF cells
<1>6. \A i \in 1..n : /\ cells[i] \in [Columns(f) -> Value]
                      /\ \A c \in Columns(f) : f.rows[i].cell[c] # Missing => cells[i][c] # Missing
  <2>1. \A i \in 1..n, c \in Columns(f) : f.rows[i].cell[c] \in Value
    BY <1>2
  <2>2. \A i \in 1..n, c \in Columns(f) :
           cells[i][c] \in Value /\ (f.rows[i].cell[c] # Missing => cells[i][c] # Missing)
    <3>1. SUFFICES ASSUME NEW i \in 1..n, NEW c \in Columns(f)
                   PROVE  /\ cells[i][c] \in Value
                          /\ f.rows[i].cell[c] # Missing => cells[i][c] # Missing
      OBVIOUS
    <3> DEFINE New(d) ==
             IF d \in DOMAIN centres /\ f.rows[i].cell[d] # Missing
             THEN f.rows[i].cell[d] - centres[d] ELSE f.rows[i].cell[d]
    <3>2. cells[i][c] = New(c)
      <4>1. cells[i] = [d \in Columns(f) |-> New(d)]
        BY <1>5
      <4> HIDE DEF New
      <4> QED
        BY <4>1
    <3>3. f.rows[i].cell[c] \in Value
      BY <2>1
    <3> QED
      BY <3>2, <3>3, <1>4
  <2>3. \A i \in 1..n : cells[i] = [c \in Columns(f) |-> cells[i][c]]
    BY <1>5
  <2> QED
    BY <2>2, <2>3
<1>7. CASE g = Raised(f)
  <2>1. Keeps(f, Raised(f)) /\ Raised(f).rows = f.rows
    BY <1>1, TypedKeeps, FrameExcept DEF Raised
  <2> QED
    BY <1>7, <2>1 DEF Full, Keeps, Columns
<1>8. CASE g = Typed(h, DOMAIN centres, "number")
  <2>1. Keeps(f, h)
    BY <1>6, RefilledKeeps
  <2>2. Len(h.rows) = n /\ \A i \in 1..n : h.rows[i].cell = cells[i]
    BY <1>1, RefilledCells
  <2> HIDE DEF h, g
  <2>3. Table(h)
    BY <2>1 DEF Keeps
  <2>4. Keeps(h, g) /\ g.rows = h.rows
    BY <1>8, <2>3, TypedKeeps
  <2>5. Keeps(f, g)
    BY <2>1, <2>4, KeepsMore
  <2> QED
    BY <1>6, <2>2, <2>4, <2>5 DEF Full, Keeps, Columns, g
<1> QED
  BY <1>3, <1>7, <1>8

IsList(s) == s \in Seq(ToSet(s))

LEMMA ListOf ==
  ASSUME NEW s
  PROVE  /\ IsList(s) => Len(s) \in Nat /\ DOMAIN s = 1..Len(s) /\ Listed(s, Len(s))
         /\ \A m \in Nat : Listed(s, m) => IsList(s)
<1>1. ASSUME IsList(s)
      PROVE  Len(s) \in Nat /\ DOMAIN s = 1..Len(s) /\ Listed(s, Len(s))
  <2> DEFINE S == ToSet(s)
  <2>1. s \in Seq(S)
    BY <1>1 DEF IsList
  <2> HIDE DEF S
  <2> QED
    BY <2>1 DEF Listed
<1>2. ASSUME NEW m \in Nat, Listed(s, m)
      PROVE  IsList(s)
  <2> DEFINE S == {s[i] : i \in 1..m}
  <2>1. DOMAIN s = 1..m /\ s \in [1..m -> S]
    BY <1>2 DEF Listed
  <2>2. ToSet(s) = S
    BY <2>1 DEF ToSet
  <2> HIDE DEF S
  <2>3. s \in Seq(S)
    BY <2>1
  <2> QED
    BY <2>2, <2>3 DEF IsList
<1> QED
  BY <1>1, <1>2

LEMMA JoinedOf ==
  ASSUME NEW a, IsList(a), NEW b, IsList(b)
  PROVE  IsList(a \o b) /\ ToSet(a \o b) = ToSet(a) \cup ToSet(b)
<1> DEFINE S == ToSet(a) \cup ToSet(b)
           m == Len(a)
           n == Len(b)
           s == a \o b
<1>1. m \in Nat /\ n \in Nat /\ DOMAIN a = 1..m /\ DOMAIN b = 1..n
  BY ListOf
<1>2. a \in Seq(S) /\ b \in Seq(S)
  <2>1. a \in [1..m -> S] /\ b \in [1..n -> S]
    BY <1>1, ListOf DEF Listed, ToSet
  <2> HIDE DEF S, m, n
  <2> QED
    BY <1>1, <2>1
<1> HIDE DEF S
<1>3. /\ s \in Seq(S) /\ Len(s) = m + n
      /\ \A i \in 1..m + n : s[i] = IF i <= m THEN a[i] ELSE b[i - m]
  BY <1>2, ConcatProperties
<1> HIDE DEF s
<1>4. DOMAIN s = 1..m + n
  BY <1>3
<1>5. ToSet(s) = {s[i] : i \in 1..m + n} /\ ToSet(a) = {a[i] : i \in 1..m} /\ ToSet(b) = {b[i] : i \in 1..n}
  BY <1>1, <1>4 DEF ToSet
<1> HIDE DEF m, n
<1>6. \A i \in 1..m + n : s[i] \in ToSet(a) \cup ToSet(b)
  <2>1. SUFFICES ASSUME NEW i \in 1..m + n PROVE s[i] \in ToSet(a) \cup ToSet(b)
    OBVIOUS
  <2>2. CASE i <= m
    BY <1>1, <1>3, <1>5, <2>2
  <2>3. CASE ~(i <= m)
    <3>1. i - m \in 1..n /\ s[i] = b[i - m]
      BY <1>1, <1>3, <2>3
    <3> QED
      BY <3>1, <1>5
  <2> QED
    BY <2>2, <2>3
<1>7. \A i \in 1..m : a[i] \in ToSet(s)
  BY <1>1, <1>3, <1>5
<1>8. \A i \in 1..n : b[i] \in ToSet(s)
  <2>1. SUFFICES ASSUME NEW i \in 1..n PROVE b[i] \in ToSet(s)
    OBVIOUS
  <2>2. m + i \in 1..m + n /\ ~(m + i <= m) /\ (m + i) - m = i
    BY <1>1
  <2> QED
    BY <2>2, <1>3, <1>5
<1>9. ToSet(s) = ToSet(a) \cup ToSet(b)
  <2>1. ToSet(s) \subseteq ToSet(a) \cup ToSet(b)
    BY <1>5, <1>6
  <2>2. ToSet(a) \subseteq ToSet(s)
    BY <1>5, <1>7
  <2>3. ToSet(b) \subseteq ToSet(s)
    BY <1>5, <1>8
  <2> QED
    BY <2>1, <2>2, <2>3
<1>10. s = [i \in 1..m + n |-> s[i]] /\ m + n \in Nat
  BY <1>1, <1>3, <1>4
<1>11. IsList(s)
  BY <1>10, ListOf DEF Listed
<1> QED
  BY <1>9, <1>11 DEF s

(***************************************************************************)
(* Encoding: the columns it makes depend on the columns it is given and on *)
(* the categories learned, not on the rows.                                *)
(***************************************************************************)

\* What encoding needs to have been configured and learned
Catalogued(categories) == \A c \in Encoded : \E k \in Nat : DOMAIN categories[c] = 1..k
Mapped(maps) == \A i \in DOMAIN cfg.encoding : \A v \in DOMAIN maps[i] : maps[i][v] \in Int

LEMMA AddedLists ==
  ASSUME NEW categories, Catalogued(categories), NEW i \in DOMAIN cfg.encoding
  PROVE  IsList(AddedColumns(i, categories))
<1> DEFINE c == cfg.encoding[i].column
           names == [k \in DOMAIN categories[c] |-> SafeName(categories[c][k])]
           firsts == {k \in DOMAIN names : \A l \in DOMAIN names : names[l] = names[k] => k <= l}
           named == [k \in DOMAIN names |-> <<c[1], names[k]>>]
           buckets == [b \in 1..Buckets |-> <<c[1], b - 1>>]
<1>1. AddedColumns(i, categories) \in {Sifted(named, firsts), buckets, <<c>>}
  BY DEF AddedColumns
<1>2. IsList(Sifted(named, firsts))
  <2>1. c \in Encoded
    BY DEF Encoded
  <2>2. PICK k \in Nat : DOMAIN categories[c] = 1..k
    BY <2>1 DEF Catalogued
  <2>3. Listed(named, k) /\ firsts \in SUBSET (1..k)
    BY <2>2 DEF Listed
  <2> HIDE DEF named, firsts
  <2>4. Listed(Sifted(named, firsts), Cardinality(firsts)) /\ Cardinality(firsts) \in Nat
    BY <2>3, SiftedOf
  <2> QED
    BY <2>4, ListOf
<1>3. IsList(buckets)
  <2>1. Buckets \in Nat
    BY PreprocessingAssumption
  <2>2. Listed(buckets, Buckets)
    BY <2>1 DEF Listed
  <2> QED
    BY <2>1, <2>2, ListOf
<1>4. IsList(<<c>>)
  <2>1. Listed(<<c>>, 1)
    BY DEF Listed
  <2> QED
    BY <2>1, ListOf
<1> QED
  BY <1>1, <1>2, <1>3, <1>4

\* u[i] are the columns after the first i encodings.
JoinedBy(u, n, first, categories) ==
  u = [i \in 0..n |-> IF i = 0 THEN first ELSE u[i - 1] \o AddedColumns(i, categories)]

LEMMA JoinedExists ==
  ASSUME NEW n \in Nat, NEW first, NEW categories
  PROVE  \E u : JoinedBy(u, n, first, categories)
<1> DEFINE Has(k) == \E u : JoinedBy(u, k, first, categories)
           T == {k \in 0..n : Has(k)}
<1>1. Has(0)
  <2> DEFINE u == [i \in 0..0 |-> first]
  <2>1. JoinedBy(u, 0, first, categories)
    BY DEF JoinedBy
  <2> QED
    BY <2>1
<1>2. ASSUME NEW k \in 0..(n - 1), Has(k)
      PROVE  Has(k + 1)
  <2>1. PICK u : JoinedBy(u, k, first, categories)
    BY <1>2
  <2> DEFINE last == u[k] \o AddedColumns(k + 1, categories)
             h == [i \in 0..(k + 1) |-> IF i \in 0..k THEN u[i] ELSE last]
  <2>2. \A i \in 0..k : h[i] = u[i]
    OBVIOUS
  <2>3. h[k + 1] = last
    OBVIOUS
  <2>4. h = [i \in 0..(k + 1) |-> h[i]]
    OBVIOUS
  <2> HIDE DEF h
  <2>5. \A i \in 0..k : u[i] = IF i = 0 THEN first ELSE u[i - 1] \o AddedColumns(i, categories)
    BY <2>1 DEF JoinedBy
  <2>6. \A i \in 0..(k + 1) :
           h[i] = IF i = 0 THEN first ELSE h[i - 1] \o AddedColumns(i, categories)
    <3>1. SUFFICES ASSUME NEW i \in 0..(k + 1)
                   PROVE  h[i] = IF i = 0 THEN first ELSE h[i - 1] \o AddedColumns(i, categories)
      OBVIOUS
    <3>2. CASE i = 0
      BY <3>2, <2>2, <2>5
    <3>3. CASE i \in 1..k
      <4>1. h[i] = u[i] /\ h[i - 1] = u[i - 1] /\ i # 0 /\ i \in 0..k
        BY <3>3, <2>2
      <4> QED
        BY <4>1, <2>5
    <3>4. CASE i = k + 1
      <4>1. h[i] = last /\ h[i - 1] = u[k] /\ i # 0
        BY <3>4, <2>2, <2>3
      <4> QED
        BY <4>1, <3>4
    <3> QED
      BY <3>2, <3>3, <3>4
  <2>7. JoinedBy(h, k + 1, first, categories)
    BY <2>4, <2>6 DEF JoinedBy
  <2> QED
    BY <2>7
<1> HIDE DEF Has
<1>3. 0 \in T /\ \A k \in 0..(n - 1) : k \in T => k + 1 \in T
  BY <1>1, <1>2
<1> HIDE DEF T
<1>4. n \in T
  <2>1. \A k \in 0..n : k \in T
    BY <1>3, UpTo
  <2> QED
    BY <2>1
<1> QED
  BY <1>4 DEF T, Has

LEMMA ColumnsOf ==
  ASSUME NEW cols, IsList(cols), IsList(cfg.encoding), NEW categories, Catalogued(categories)
  PROVE  /\ IsList(EncodedColumns(cols, categories))
         /\ \A c : c \in ToSet(EncodedColumns(cols, categories)) <=>
                \/ c \in ToSet(cols) \ Encoded
                \/ \E i \in DOMAIN cfg.encoding : c \in ToSet(AddedColumns(i, categories))
<1> DEFINE n == Len(cfg.encoding)
           others == Sifted(cols, {k \in DOMAIN cols : cols[k] \notin Encoded})
           upto[k \in 0..n] == IF k = 0 THEN others ELSE upto[k - 1] \o AddedColumns(k, categories)
           Made(k, c) == \E i \in 1..k : c \in ToSet(AddedColumns(i, categories))
<1>1. n \in Nat /\ DOMAIN cfg.encoding = 1..n
  BY ListOf
<1>2. IsList(others) /\ ToSet(others) = ToSet(cols) \ Encoded
  <2> DEFINE keep == {k \in DOMAIN cols : cols[k] \notin Encoded}
             m == Len(cols)
  <2>1. m \in Nat /\ DOMAIN cols = 1..m /\ Listed(cols, m)
    BY ListOf
  <2>2. keep \in SUBSET (1..m)
    BY <2>1
  <2>3. ToSet(cols) \ Encoded = {cols[k] : k \in keep}
    BY DEF ToSet
  <2> HIDE DEF keep, m
  <2>4. ToSet(Sifted(cols, keep)) = {cols[k] : k \in keep}
    BY <2>1, <2>2, SiftedElements
  <2>5. Listed(Sifted(cols, keep), Cardinality(keep)) /\ Cardinality(keep) \in Nat
    BY <2>1, <2>2, SiftedOf
  <2>6. IsList(Sifted(cols, keep))
    BY <2>5, ListOf
  <2> QED
    BY <2>3, <2>4, <2>6 DEF keep
<1>3. EncodedColumns(cols, categories) = upto[n]
  BY DEF EncodedColumns
<1>4. \E u : u = [i \in 0..n |-> IF i = 0 THEN others ELSE u[i - 1] \o AddedColumns(i, categories)]
  <2> HIDE DEF others, n
  <2>1. \E u : JoinedBy(u, n, others, categories)
    BY <1>1, JoinedExists
  <2> QED
    BY <2>1 DEF JoinedBy
<1>5. upto = [i \in 0..n |-> IF i = 0 THEN others ELSE upto[i - 1] \o AddedColumns(i, categories)]
  <2> HIDE DEF others, n
  <2> QED
    BY <1>4
<1> HIDE DEF upto, others
<1> DEFINE T == {k \in 0..n :
                    /\ IsList(upto[k])
                    /\ \A c : c \in ToSet(upto[k]) <=> c \in ToSet(cols) \ Encoded \/ Made(k, c)}
<1>6. 0 \in T
  <2>1. upto[0] = others
    BY <1>1, <1>5
  <2>2. \A c : ~Made(0, c)
    OBVIOUS
  <2> QED
    BY <1>1, <1>2, <2>1, <2>2
<1>7. ASSUME NEW k \in 0..(n - 1), k \in T
      PROVE  k + 1 \in T
  <2>1. k + 1 \in 1..n /\ k + 1 \in 0..n /\ k + 1 # 0 /\ (k + 1) - 1 = k
    BY <1>1
  <2>2. upto[k + 1] = upto[k] \o AddedColumns(k + 1, categories)
    BY <2>1, <1>5
  <2>3. /\ IsList(upto[k])
        /\ \A c : c \in ToSet(upto[k]) <=> c \in ToSet(cols) \ Encoded \/ Made(k, c)
    BY <1>7
  <2>4. IsList(AddedColumns(k + 1, categories))
    BY <2>1, <1>1, AddedLists
  <2>5. /\ IsList(upto[k + 1])
        /\ ToSet(upto[k + 1]) = ToSet(upto[k]) \cup ToSet(AddedColumns(k + 1, categories))
    BY <2>2, <2>3, <2>4, JoinedOf
  <2>6. \A i : i \in 1..(k + 1) <=> i \in 1..k \/ i = k + 1
    BY <2>1
  <2>7. \A c : Made(k + 1, c) <=> Made(k, c) \/ c \in ToSet(AddedColumns(k + 1, categories))
    BY <2>6
  <2> HIDE DEF Made
  <2>8. \A c : c \in ToSet(upto[k + 1]) <=> c \in ToSet(cols) \ Encoded \/ Made(k + 1, c)
    BY <2>3, <2>5, <2>7
  <2> QED
    BY <2>1, <2>5, <2>8
<1> HIDE DEF T
<1>8. \A k \in 0..n : k \in T
  BY <1>1, <1>6, <1>7, UpTo
<1>9. /\ IsList(upto[n])
      /\ \A c : c \in ToSet(upto[n]) <=> c \in ToSet(cols) \ Encoded \/ Made(n, c)
  BY <1>1, <1>8 DEF T
<1> QED
  BY <1>1, <1>3, <1>9

LEMMA CategoriesOf ==
  ASSUME NEW f, Table(f), Encoded \subseteq Columns(f)
  PROVE  Catalogued(Categories(f))
<1>1. SUFFICES ASSUME NEW c \in Encoded
               PROVE  \E k \in Nat : DOMAIN Categories(f)[c] = 1..k
  BY DEF Catalogued
<1>2. Cardinality(Present(f, c)) \in Nat
  BY PresentOf, FS_CardinalityType
<1>3. DOMAIN Categories(f)[c] = 1..Cardinality(Present(f, c))
  BY DEF Categories, Ascending
<1> QED
  BY <1>2, <1>3

LEMMA DefaultsOf ==
  ASSUME NEW rows, IsFiniteSet(rows), NEW labels
  PROVE  Defaults(rows, labels) \in Nat
<1>1. {i \in rows : labels[i] \in Defaulted} \in SUBSET rows
  OBVIOUS
<1> QED
  BY <1>1, FS_Subset, FS_CardinalityType DEF Defaults

LEMMA MapsOf ==
  ASSUME NEW f, Table(f), Encoded \subseteq Columns(f)
  PROVE  Mapped(Maps(f))
<1>1. SUFFICES ASSUME NEW i \in DOMAIN cfg.encoding, NEW v \in DOMAIN Maps(f)[i]
               PROVE  Maps(f)[i][v] \in Int
  BY DEF Mapped, Maps
<1> DEFINE c == cfg.encoding[i].column
           values == Present(f, c)
           Rows(w) == {j \in DOMAIN f.rows : f.rows[j].cell[c] = w}
           below == {w \in values : w < v}
<1>2. c \in Columns(f)
  BY DEF Encoded
<1>3. IsFiniteSet(values)
  BY <1>2, PresentOf
<1>4. IsFiniteSet(DOMAIN f.rows)
  <2> DEFINE n == Len(f.rows)
  <2>1. n \in Nat /\ DOMAIN f.rows = 1..n
    BY RowsOf DEF Table
  <2> HIDE DEF n
  <2>2. IsFiniteSet(1..n)
    BY <2>1, FS_Interval
  <2> QED
    BY <2>1, <2>2
<1>5. Rows(v) \in SUBSET DOMAIN f.rows /\ below \in SUBSET values
  OBVIOUS
<1> HIDE DEF values
<1>6. IsFiniteSet(Rows(v)) /\ Cardinality(Rows(v)) \in Nat /\ Cardinality(below) \in Nat
  BY <1>3, <1>4, <1>5, FS_Subset, FS_CardinalityType
<1>7. Defaults(Rows(v), Labels) \in Nat
  BY <1>6, DefaultsOf
<1> HIDE DEF Rows, below
<1>8. CASE cfg.encoding[i].strategy = "frequency"
  <2>1. Maps(f)[i] = [w \in values |-> Cardinality(Rows(w))]
    BY <1>8 DEF Maps, values, Rows
  <2> QED
    BY <1>1, <1>6, <2>1
<1>9. CASE cfg.encoding[i].strategy = "target"
  <2>1. Maps(f)[i] = [w \in values |-> Defaults(Rows(w), Labels)]
    BY <1>9 DEF Maps, values, Rows
  <2> QED
    BY <1>1, <1>7, <2>1
<1>10. CASE cfg.encoding[i].strategy \in {"label", "ordinal"}
  <2>1. Maps(f)[i] = [w \in values |-> Cardinality({x \in values : x < w})]
    BY <1>10 DEF Maps, values
  <2> QED
    BY <1>1, <1>6, <2>1 DEF below
<1>11. CASE cfg.encoding[i].strategy \notin {"frequency", "target", "label", "ordinal"}
  <2>1. Maps(f)[i] = <<>>
    BY <1>11 DEF Maps
  <2> QED
    BY <1>1, <2>1
<1> QED
  BY <1>8, <1>9, <1>10, <1>11

LEMMA AddedCells ==
  ASSUME NEW categories, NEW maps, Mapped(maps), NEW i \in DOMAIN cfg.encoding,
         IsFiniteSet(DOMAIN cfg.training), NEW v, NEW col
  PROVE  AddedCell(i, categories, maps, v, col) \in Int
<1> DEFINE fallback == IF cfg.encoding[i].strategy = "target"
                       THEN Defaults(DOMAIN Labels, Labels) ELSE Unknown
           mapped == IF v \in DOMAIN maps[i] THEN maps[i][v] ELSE fallback
<1>1. DOMAIN Labels = DOMAIN cfg.training
  BY DEF Labels
<1>2. fallback \in Int
  BY <1>1, DefaultsOf DEF Unknown
<1>3. mapped \in Int
  BY <1>2 DEF Mapped
<1>4. AddedCell(i, categories, maps, v, col) \in {0, 1, mapped}
  BY DEF AddedCell
<1> QED
  BY <1>3, <1>4

\* A frame with these columns, and these cells in its rows
Recast(f, cols, dtype, cells) == Refilled([f EXCEPT !.cols = cols, !.dtype = dtype], cells)

LEMMA RecastCells ==
  ASSUME NEW f, IsFrame(f), NEW cols, NEW dtype, NEW cells
  PROVE  LET g == Recast(f, cols, dtype, cells)
         IN  /\ IsFrame(g) /\ g.ok = f.ok /\ g.cols = cols
             /\ Len(g.rows) = Len(f.rows)
             /\ \A i \in 1..Len(f.rows) : g.rows[i].cell = cells[i]
<1> DEFINE h == [f EXCEPT !.cols = cols, !.dtype = dtype]
           g == Refilled(h, cells)
<1>1. IsFrame(h)
  BY RecastSame DEF Same
<1>2. h.ok = f.ok /\ h.cols = cols /\ h.rows = f.rows
  BY DEF IsFrame
<1> HIDE DEF h
<1>3. /\ IsFrame(g) /\ g.ok = h.ok /\ g.cols = h.cols /\ Len(g.rows) = Len(h.rows)
      /\ \A i \in 1..Len(h.rows) : g.rows[i].cell = cells[i]
  BY <1>1, RefilledCells
<1> HIDE DEF g
<1>4. /\ IsFrame(g) /\ g.ok = f.ok /\ g.cols = cols /\ Len(g.rows) = Len(f.rows)
      /\ \A i \in 1..Len(f.rows) : g.rows[i].cell = cells[i]
  BY <1>2, <1>3
<1> QED
  BY <1>4 DEF g, h, Recast

LEMMA EncodeMakes ==
  ASSUME NEW f, Table(f), IsList(f.cols), IsList(cfg.encoding),
         IsFiniteSet(DOMAIN cfg.training),
         NEW categories, Catalogued(categories), NEW maps, Mapped(maps)
  PROVE  LET g == Encode(f, categories, maps)
         IN  /\ Table(g)
             /\ g.ok => /\ g.cols = EncodedColumns(f.cols, categories)
                        /\ \A C : Full(f, C) => Full(g, C)
<1> DEFINE n == Len(f.rows)
           g == Encode(f, categories, maps)
           cols == EncodedColumns(f.cols, categories)
           others == Columns(f) \ Encoded
           Source(c) == CHOOSE i \in DOMAIN cfg.encoding : c \in ToSet(AddedColumns(i, categories))
           Added(r, c) == AddedCell(Source(c), categories, maps,
                                    r.cell[cfg.encoding[Source(c)].column], c)
           types == [c \in ToSet(cols) |-> IF c \in others THEN f.dtype[c] ELSE "number"]
           cells == [j \in DOMAIN f.rows |-> [c \in ToSet(cols) |->
                        IF c \in others THEN f.rows[j].cell[c] ELSE Added(f.rows[j], c)]]
           h == Recast(f, cols, types, cells)
<1>1. IsFrame(f) /\ n \in Nat /\ DOMAIN f.rows = 1..n
  BY RowsOf DEF Table
<1>2. \A i \in 1..n, c \in Columns(f) : f.rows[i].cell[c] \in Value
  BY DEF Table
<1>3. g = Raised(f) \/ g = h
  BY DEF Encode, Recast
<1>4. \A c \in ToSet(cols) : c \in others \/ Source(c) \in DOMAIN cfg.encoding
  <2>1. SUFFICES ASSUME NEW c \in ToSet(cols), c \notin others
                 PROVE  Source(c) \in DOMAIN cfg.encoding
    OBVIOUS
  <2>2. \E i \in DOMAIN cfg.encoding : c \in ToSet(AddedColumns(i, categories))
    BY <2>1, ColumnsOf DEF Columns
  <2> QED
    BY <2>2
<1>5. \A r : \A c \in ToSet(cols) : c \in others \/ Added(r, c) \in Int
  <2> HIDE DEF Source
  <2> QED
    BY <1>4, AddedCells
<1>6. \A i \in 1..n : cells[i] = [c \in ToSet(cols) |->
          IF c \in others THEN f.rows[i].cell[c] ELSE Added(f.rows[i], c)]
  BY <1>1
<1>7. others \in SUBSET Columns(f)
  OBVIOUS
<1>8. Int \subseteq Value /\ Missing \notin Int
  BY PreprocessingAssumption DEF Value
<1> HIDE DEF cells, types, Added, Source, others, cols
<1>9. \A i \in 1..n, c \in ToSet(cols) :
         /\ cells[i][c] \in Value
         /\ cells[i][c] # Missing \/ (c \in Columns(f) /\ cells[i][c] = f.rows[i].cell[c])
  <2>1. SUFFICES ASSUME NEW i \in 1..n, NEW c \in ToSet(cols)
                 PROVE  /\ cells[i][c] \in Value
                        /\ cells[i][c] # Missing \/ (c \in Columns(f) /\ cells[i][c] = f.rows[i].cell[c])
    OBVIOUS
  <2>2. cells[i][c] = IF c \in others THEN f.rows[i].cell[c] ELSE Added(f.rows[i], c)
    BY <1>6
  <2>3. CASE c \in others
    BY <1>2, <1>7, <2>2, <2>3
  <2>4. CASE c \notin others
    BY <1>5, <1>8, <2>2, <2>4
  <2> QED
    BY <2>3, <2>4
<1>10. \A i \in 1..n : cells[i] \in [ToSet(cols) -> Value]
  <2>1. \A i \in 1..n : cells[i] = [c \in ToSet(cols) |-> cells[i][c]]
    BY <1>6
  <2> QED
    BY <1>9, <2>1
<1>11. /\ IsFrame(h) /\ h.cols = cols /\ Len(h.rows) = n
       /\ \A i \in 1..n : h.rows[i].cell = cells[i]
  BY <1>1, RecastCells
<1> HIDE DEF h, g
<1>12. CASE g = Raised(f)
  <2>1. Keeps(f, Raised(f)) /\ Raised(f).ok = FALSE
    BY TypedKeeps
  <2> QED
    BY <1>12, <2>1 DEF Keeps, g
<1>13. CASE g = h
  <2>1. Columns(h) = ToSet(cols)
    BY <1>11 DEF Columns
  <2>2. Table(h)
    BY <1>10, <1>11, <2>1 DEF Table
  <2>3. \A C : Full(f, C) => Full(h, C)
    BY <1>9, <1>11, <2>1 DEF Full
  <2> QED
    BY <1>11, <1>13, <2>2, <2>3 DEF cols, g
<1> QED
  BY <1>3, <1>12, <1>13 DEF g, cols

LEMMA SelectedMakes ==
  ASSUME NEW f, Table(f), NEW chosen
  PROVE  LET g == Selected(f, chosen)
         IN  g.ok => g.cols = chosen /\ \A C : Full(f, C) => Full(g, C)
<1> DEFINE n == Len(f.rows)
           g == Selected(f, chosen)
           types == [c \in ToSet(chosen) |-> f.dtype[c]]
           cells == [i \in DOMAIN f.rows |-> [c \in ToSet(chosen) |-> f.rows[i].cell[c]]]
           h == Recast(f, chosen, types, cells)
<1>1. IsFrame(f) /\ n \in Nat /\ DOMAIN f.rows = 1..n
  BY RowsOf DEF Table
<1>2. g = Raised(f) \/ (g = h /\ ToSet(chosen) \subseteq Columns(f))
  BY DEF Selected, Recast
<1>3. \A i \in 1..n, c \in ToSet(chosen) : cells[i][c] = f.rows[i].cell[c]
  BY <1>1
<1> HIDE DEF cells, types
<1>4. /\ h.cols = chosen /\ Len(h.rows) = n
      /\ \A i \in 1..n : h.rows[i].cell = cells[i]
  BY <1>1, RecastCells
<1>5. Raised(f).ok = FALSE
  BY TypedKeeps
<1> HIDE DEF h, g
<1>6. ASSUME g.ok PROVE g.cols = chosen /\ \A C : Full(f, C) => Full(g, C)
  <2>1. g = h /\ ToSet(chosen) \subseteq Columns(f)
    BY <1>2, <1>5, <1>6
  <2>2. Columns(h) = ToSet(chosen)
    BY <1>4 DEF Columns
  <2>3. \A C : Full(f, C) => Full(h, C)
    BY <1>3, <1>4, <2>1, <2>2 DEF Full
  <2> QED
    BY <1>4, <2>1, <2>3
<1> QED
  BY <1>6 DEF g

(***************************************************************************)
(* The invariant of the schema: what the stages have made of the frame and *)
(* learned from it.                                                        *)
(***************************************************************************)

\* The columns that encoding, if it is on, makes of these
MadeOf(cols) == IF On("encode") THEN EncodedColumns(cols, fitted.categories) ELSE cols

Prepared == Configured /\ IsList(cfg.cols) /\ IsList(cfg.encoding)

\* What is learned has a field for each of the stages.
IsFitted(l) ==
  l = [fills |-> l.fills, bounds |-> l.bounds, categories |-> l.categories, maps |-> l.maps,
       centres |-> l.centres, chosen |-> l.chosen, trained |-> l.trained]

Learned ==
  /\ IsFitted(fitted)
  /\ \A c \in DOMAIN fitted.fills : fitted.fills[c].value \in Value
  /\ On("impute") \/ DOMAIN fitted.fills = {}
  /\ \A c \in DOMAIN fitted.bounds : fitted.bounds[c].low \in Int /\ fitted.bounds[c].high \in Int
  /\ \A c \in DOMAIN fitted.centres : fitted.centres[c] \in Int
  /\ stage \in {"scale", "select", "trained"} /\ On("encode") =>
         Catalogued(fitted.categories) /\ Mapped(fitted.maps)

FrameMade ==
  /\ stage \in {"clean", "impute", "outliers", "encode"} => Table(frame) /\ frame.cols = cfg.cols
  /\ stage \in {"scale", "select"} => Table(frame) /\ frame.cols = MadeOf(cfg.cols)
  /\ stage = "trained" =>
         fitted.trained = IF On("select") THEN fitted.chosen ELSE MadeOf(cfg.cols)

Stages == {"clean", "impute", "outliers", "encode", "scale", "select", "trained"}

SchemaInvariant ==
  /\ stage \in Stages => Prepared /\ Learned /\ FrameMade
  /\ stage # "trained" => decisions = {}
  /\ SchemaHeld

\* What a pipeline that answers makes of a frame of one row
Answerable(f, g) ==
  /\ IsFrame(g)
  /\ g.cols = IF On("select") THEN fitted.chosen ELSE MadeOf(f.cols)
  /\ Len(g.rows) <= 1
  /\ \A row \in ToSet(g.rows) : row.who = f.rows[1].who
  /\ Full(g, {c \in DOMAIN fitted.fills : FilledBy(c)})

LEMMA TrainedFinite == Configured => IsFiniteSet(DOMAIN cfg.training)
<1> SUFFICES ASSUME Configured PROVE IsFiniteSet(DOMAIN cfg.training)
  OBVIOUS
<1> DEFINE m == Trained
<1>1. m \in Nat /\ DOMAIN cfg.training = 1..m
  BY DEF Configured, Listed
<1> HIDE DEF m
<1>2. 1 \in Int /\ m \in Int
  BY <1>1
<1>3. IsFiniteSet(1..m)
  BY <1>2, FS_Interval
<1> QED
  BY <1>1, <1>3

LEMMA TransformedMakes ==
  ASSUME Prepared, Learned, stage = "trained",
         NEW f, Table(f), IsList(f.cols), Len(f.rows) = 1, Transformed(f).ok
  PROVE  Answerable(f, Transformed(f))
<1> DEFINE C == {c \in DOMAIN fitted.fills : FilledBy(c)}
           f1 == Then("clean", f, Clean)
           f2 == Then("impute", f1, LAMBDA g : Imputed(g, fitted.fills))
           f3 == Then("outliers", f2, LAMBDA g : Treated(g, fitted.bounds))
           f4 == Then("encode", f3, LAMBDA g : Encode(g, fitted.categories, fitted.maps))
           f5 == Then("scale", f4, LAMBDA g : Scaled(g, fitted.centres))
           f6 == Then("select", f5, LAMBDA g : Selected(g, fitted.chosen))
<1>1. Transformed(f) = f6
  BY DEF Transformed
<1>2. f1 = IF On("clean") /\ f.ok THEN Clean(f) ELSE f
  BY DEF Then
<1>3. f2 = IF On("impute") /\ f1.ok THEN Imputed(f1, fitted.fills) ELSE f1
  BY DEF Then
<1>4. f3 = IF On("outliers") /\ f2.ok THEN Treated(f2, fitted.bounds) ELSE f2
  BY DEF Then
<1>5. f4 = IF On("encode") /\ f3.ok THEN Encode(f3, fitted.categories, fitted.maps) ELSE f3
  BY DEF Then
<1>6. f5 = IF On("scale") /\ f4.ok THEN Scaled(f4, fitted.centres) ELSE f4
  BY DEF Then
<1>7. f6 = IF On("select") /\ f5.ok THEN Selected(f5, fitted.chosen) ELSE f5
  BY DEF Then
<1> HIDE DEF f1, f2, f3, f4, f5, f6
<1>8. IsFiniteSet(DOMAIN cfg.training)
  BY TrainedFinite DEF Prepared
<1>9. Keeps(f, f1) /\ Fewer(f, f1)
  <2>1. Keeps(f, f) /\ Fewer(f, f)
    BY DEF Keeps, Table, Fewer, IsFrame, Listed
  <2>2. Keeps(f, Clean(f)) /\ Fewer(f, Clean(f))
    BY CleanKeeps, CleanFewer DEF Prepared, Configured, Table
  <2> QED
    BY <1>2, <2>1, <2>2
<1>10. Table(f1) /\ f1.cols = f.cols /\ IsFrame(f1)
  BY <1>9 DEF Keeps, Table
<1>11. Keeps(f1, f2) /\ Fewer(f1, f2) /\ (f2.ok => Full(f2, C))
  <2>1. Keeps(f1, f1)
    BY <1>10 DEF Keeps
  <2>2. Fewer(f1, f1) /\ Fewer(f1, Imputed(f1, fitted.fills))
    BY <1>10, StagesSome, SomeFewer
  <2>3. CASE On("impute") /\ f1.ok
    <3> DEFINE g == Imputed(f1, fitted.fills)
    <3>1. /\ Keeps(f1, g)
          /\ g.ok => \A i \in 1..Len(g.rows), c \in DOMAIN fitted.fills \cap Columns(g) :
                 fitted.fills[c].strategy \notin Directional /\ fitted.fills[c].value # Missing
                     => g.rows[i].cell[c] # Missing
      BY <1>10, ImputedKeeps DEF Learned
    <3> HIDE DEF g
    <3>2. g.ok => Full(g, C)
      BY <3>1 DEF Full, FilledBy
    <3>3. f2 = g
      BY <1>3, <2>3 DEF g
    <3> QED
      BY <2>2, <3>1, <3>2, <3>3 DEF g
  <2>4. CASE ~On("impute")
    <3>1. C = {} /\ f2 = f1
      BY <1>3, <2>4 DEF Learned
    <3> QED
      BY <2>1, <2>2, <3>1 DEF Full
  <2>5. CASE ~f1.ok
    BY <1>3, <2>1, <2>2, <2>5
  <2> QED
    BY <2>3, <2>4, <2>5
<1> HIDE DEF C
<1>12. Table(f2) /\ f2.cols = f.cols /\ IsFrame(f2)
  BY <1>10, <1>11 DEF Keeps, Table
<1>13. Keeps(f2, f3) /\ Fewer(f2, f3) /\ (f3.ok => Full(f3, C))
  <2>1. Keeps(f2, f2)
    BY <1>12 DEF Keeps
  <2>2. Fewer(f2, f2) /\ Fewer(f2, Treated(f2, fitted.bounds))
    BY <1>12, StagesSome, SomeFewer
  <2>3. /\ Keeps(f2, Treated(f2, fitted.bounds))
        /\ Full(f2, C) => Full(Treated(f2, fitted.bounds), C)
    BY <1>12, TreatedKeeps DEF Learned
  <2> QED
    BY <1>4, <1>11, <2>1, <2>2, <2>3
<1>14. Table(f3) /\ f3.cols = f.cols /\ IsFrame(f3)
  BY <1>12, <1>13 DEF Keeps, Table
<1>15. Table(f4) /\ Fewer(f3, f4) /\ (f4.ok => f4.cols = MadeOf(f.cols) /\ Full(f4, C))
  <2>1. Fewer(f3, f3) /\ Fewer(f3, Encode(f3, fitted.categories, fitted.maps))
    BY <1>14, StagesSome, SomeFewer
  <2>2. CASE On("encode") /\ f3.ok
    <3> DEFINE g == Encode(f3, fitted.categories, fitted.maps)
    <3>1. Catalogued(fitted.categories) /\ Mapped(fitted.maps)
      BY <2>2 DEF Learned
    <3>2. /\ Table(g)
          /\ g.ok => /\ g.cols = EncodedColumns(f3.cols, fitted.categories)
                     /\ \A D : Full(f3, D) => Full(g, D)
      BY <1>8, <1>14, <3>1, EncodeMakes DEF Prepared
    <3> HIDE DEF g
    <3>3. f4 = g /\ MadeOf(f.cols) = EncodedColumns(f3.cols, fitted.categories)
      BY <1>5, <1>14, <2>2 DEF g, MadeOf
    <3> QED
      BY <1>13, <2>1, <2>2, <3>2, <3>3 DEF g
  <2>3. CASE ~On("encode")
    BY <1>5, <1>13, <1>14, <2>1, <2>3 DEF MadeOf
  <2>4. CASE ~f3.ok
    BY <1>5, <1>14, <2>1, <2>4
  <2> QED
    BY <2>2, <2>3, <2>4
<1>16. IsFrame(f4)
  BY <1>15 DEF Table
<1>17. Keeps(f4, f5) /\ Fewer(f4, f5) /\ (f5.ok => f4.ok /\ Full(f5, C))
  <2>1. Keeps(f4, f4)
    BY <1>15 DEF Keeps
  <2>2. Fewer(f4, f4) /\ Fewer(f4, Scaled(f4, fitted.centres))
    BY <1>16, StagesSome, SomeFewer
  <2>3. /\ Keeps(f4, Scaled(f4, fitted.centres))
        /\ Full(f4, C) => Full(Scaled(f4, fitted.centres), C)
    BY <1>15, ScaledKeeps DEF Learned
  <2> QED
    BY <1>6, <1>15, <2>1, <2>2, <2>3
<1>18. Table(f5) /\ IsFrame(f5) /\ (f5.ok => f5.cols = MadeOf(f.cols))
  BY <1>15, <1>17 DEF Keeps, Table
<1>19. /\ Fewer(f5, f6)
       /\ f6.ok => /\ f6.cols = IF On("select") THEN fitted.chosen ELSE MadeOf(f.cols)
                   /\ Full(f6, C)
  <2>1. Fewer(f5, f5) /\ Fewer(f5, Selected(f5, fitted.chosen))
    BY <1>18, StagesSome, SomeFewer
  <2>2. Selected(f5, fitted.chosen).ok =>
          /\ Selected(f5, fitted.chosen).cols = fitted.chosen
          /\ Full(f5, C) => Full(Selected(f5, fitted.chosen), C)
    BY <1>18, SelectedMakes
  <2> QED
    BY <1>7, <1>17, <1>18, <2>1, <2>2
<1>20. Fewer(f, f6)
  <2>1. IsFrame(f)
    BY DEF Table
  <2>2. Fewer(f, f2)
    BY <2>1, <1>9, <1>11, FewerMore
  <2>3. Fewer(f, f3)
    BY <2>1, <2>2, <1>13, FewerMore
  <2>4. Fewer(f, f4)
    BY <2>1, <2>3, <1>15, FewerMore
  <2>5. Fewer(f, f5)
    BY <2>1, <2>4, <1>17, FewerMore
  <2> QED
    BY <2>1, <2>5, <1>19, FewerMore
<1>21. /\ IsFrame(f6) /\ Len(f6.rows) <= 1
       /\ \A row \in ToSet(f6.rows) : row.who = f.rows[1].who
  <2>1. IsFrame(f6) /\ Len(f6.rows) <= 1
        /\ (Len(f6.rows) = 1 => f6.rows[1].who = f.rows[1].who)
    BY <1>20 DEF Fewer
  <2>2. Len(f6.rows) \in Nat /\ DOMAIN f6.rows = 1..Len(f6.rows)
    BY <2>1, RowsOf
  <2>3. ASSUME NEW row \in ToSet(f6.rows)
        PROVE  row.who = f.rows[1].who
    <3>1. PICK i \in 1..Len(f6.rows) : row = f6.rows[i]
      BY <2>2 DEF ToSet
    <3> DEFINE k == Len(f6.rows)
    <3>2. k \in Nat /\ k <= 1 /\ i \in 1..k
      BY <2>1, <2>2, <3>1
    <3> HIDE DEF k
    <3>3. i = 1 /\ k = 1
      BY <3>2
    <3> QED
      BY <2>1, <3>1, <3>3 DEF k
  <2> QED
    BY <2>1, <2>3
<1> QED
  BY <1>1, <1>19, <1>21 DEF Answerable, C

(***************************************************************************)
(* The invariant holds at first, and every stage that is fitted keeps it.  *)
(***************************************************************************)

LEMMA FittedExcept ==
  ASSUME NEW l, IsFitted(l), NEW x
  PROVE  /\ [l EXCEPT !.fills = x] =
              [fills |-> x, bounds |-> l.bounds, categories |-> l.categories, maps |-> l.maps,
               centres |-> l.centres, chosen |-> l.chosen, trained |-> l.trained]
         /\ [l EXCEPT !.bounds = x] =
              [fills |-> l.fills, bounds |-> x, categories |-> l.categories, maps |-> l.maps,
               centres |-> l.centres, chosen |-> l.chosen, trained |-> l.trained]
         /\ [l EXCEPT !.categories = x] =
              [fills |-> l.fills, bounds |-> l.bounds, categories |-> x, maps |-> l.maps,
               centres |-> l.centres, chosen |-> l.chosen, trained |-> l.trained]
         /\ [l EXCEPT !.maps = x] =
              [fills |-> l.fills, bounds |-> l.bounds, categories |-> l.categories, maps |-> x,
               centres |-> l.centres, chosen |-> l.chosen, trained |-> l.trained]
         /\ [l EXCEPT !.centres = x] =
              [fills |-> l.fills, bounds |-> l.bounds, categories |-> l.categories, maps |-> l.maps,
               centres |-> x, chosen |-> l.chosen, trained |-> l.trained]
         /\ [l EXCEPT !.trained = x] =
              [fills |-> l.fills, bounds |-> l.bounds, categories |-> l.categories, maps |-> l.maps,
               centres |-> l.centres, chosen |-> l.chosen, trained |-> x]
         /\ [l EXCEPT !.chosen = x, !.trained = x] =
              [fills |-> l.fills, bounds |-> l.bounds, categories |-> l.categories, maps |-> l.maps,
               centres |-> l.centres, chosen |-> x, trained |-> x]
<1>1. DOMAIN l = {"fills", "bounds", "categories", "maps", "centres", "chosen", "trained"}
  BY DEF IsFitted
<1>2. [l EXCEPT !.fills = x] =
              [fills |-> x, bounds |-> l.bounds, categories |-> l.categories, maps |-> l.maps,
               centres |-> l.centres, chosen |-> l.chosen, trained |-> l.trained]
  BY <1>1
<1>3. [l EXCEPT !.bounds = x] =
              [fills |-> l.fills, bounds |-> x, categories |-> l.categories, maps |-> l.maps,
               centres |-> l.centres, chosen |-> l.chosen, trained |-> l.trained]
  BY <1>1
<1>4. [l EXCEPT !.categories = x] =
              [fills |-> l.fills, bounds |-> l.bounds, categories |-> x, maps |-> l.maps,
               centres |-> l.centres, chosen |-> l.chosen, trained |-> l.trained]
  BY <1>1
<1>5. [l EXCEPT !.maps = x] =
              [fills |-> l.fills, bounds |-> l.bounds, categories |-> l.categories, maps |-> x,
               centres |-> l.centres, chosen |-> l.chosen, trained |-> l.trained]
  BY <1>1
<1>6. [l EXCEPT !.centres = x] =
              [fills |-> l.fills, bounds |-> l.bounds, categories |-> l.categories, maps |-> l.maps,
               centres |-> x, chosen |-> l.chosen, trained |-> l.trained]
  BY <1>1
<1>7. [l EXCEPT !.trained = x] =
              [fills |-> l.fills, bounds |-> l.bounds, categories |-> l.categories, maps |-> l.maps,
               centres |-> l.centres, chosen |-> l.chosen, trained |-> x]
  BY <1>1
<1>8. [l EXCEPT !.chosen = x, !.trained = x] =
              [fills |-> l.fills, bounds |-> l.bounds, categories |-> l.categories, maps |-> l.maps,
               centres |-> l.centres, chosen |-> x, trained |-> x]
  <2> DEFINE h == [l EXCEPT !.chosen = x]
  <2>1. h = [fills |-> l.fills, bounds |-> l.bounds, categories |-> l.categories, maps |-> l.maps,
               centres |-> l.centres, chosen |-> x, trained |-> l.trained]
    BY <1>1
  <2>2. [l EXCEPT !.chosen = x, !.trained = x] = [h EXCEPT !.trained = x]
    OBVIOUS
  <2> HIDE DEF h
  <2>3. DOMAIN h = DOMAIN l
    BY <1>1, <2>1
  <2> QED
    BY <1>1, <2>1, <2>2, <2>3
<1> QED
  BY <1>2, <1>3, <1>4, <1>5, <1>6, <1>7, <1>8

LEMMA FittedEncoding ==
  ASSUME NEW l, IsFitted(l), NEW x, NEW y
  PROVE  [l EXCEPT !.categories = x, !.maps = y] =
              [fills |-> l.fills, bounds |-> l.bounds, categories |-> x, maps |-> y,
               centres |-> l.centres, chosen |-> l.chosen, trained |-> l.trained]
<1> DEFINE h == [l EXCEPT !.categories = x]
<1>1. h = [fills |-> l.fills, bounds |-> l.bounds, categories |-> x, maps |-> l.maps,
           centres |-> l.centres, chosen |-> l.chosen, trained |-> l.trained]
  BY FittedExcept
<1>2. [l EXCEPT !.categories = x, !.maps = y] = [h EXCEPT !.maps = y]
  OBVIOUS
<1> HIDE DEF h
<1>3. [h EXCEPT !.maps = y] =
        [fills |-> h.fills, bounds |-> h.bounds, categories |-> h.categories, maps |-> y,
         centres |-> h.centres, chosen |-> h.chosen, trained |-> h.trained]
  <2>1. IsFitted(h)
    BY <1>1 DEF IsFitted
  <2> QED
    BY <2>1, FittedExcept
<1> QED
  BY <1>1, <1>2, <1>3

LEMMA MadeSame ==
  ASSUME cfg' = cfg, fitted'.categories = fitted.categories
  PROVE  MadeOf(cfg.cols)' = MadeOf(cfg.cols)
BY DEF MadeOf, EncodedColumns, AddedColumns, Encoded, On

LEMMA MadeNow ==
  ASSUME cfg' = cfg, NEW categories, fitted'.categories = categories, On("encode")
  PROVE  MadeOf(cfg.cols)' = EncodedColumns(cfg.cols, categories)
<1>1. MadeOf(cfg.cols)' = EncodedColumns(cfg.cols, fitted.categories)'
  BY DEF MadeOf, On
<1>2. EncodedColumns(cfg.cols, fitted.categories)' = EncodedColumns(cfg.cols, categories)
  BY DEF EncodedColumns, AddedColumns, Encoded
<1> QED
  BY <1>1, <1>2

LEMMA SchemaStart == Init => SchemaInvariant
<1>1. SUFFICES ASSUME Init PROVE SchemaInvariant
  OBVIOUS
<1>2. decisions = {} /\ SchemaHeld
  BY <1>1 DEF Init, SchemaHeld
<1>3. SUFFICES ASSUME PreprocessingInit PROVE Prepared /\ Learned /\ FrameMade
  BY <1>1, <1>2 DEF Init, SchemaInvariant, Stages
<1>4. PICK pipeline \in Pipelines, trained \in Trainings :
         /\ cfg = [pipeline EXCEPT !.training = trained]
         /\ frame = Untrained(pipeline, trained)
         /\ stage = "clean" /\ kept = Len(trained)
  BY <1>3 DEF PreprocessingInit
<1>5. stage = "clean" /\ fitted = Nothing
  BY <1>3 DEF PreprocessingInit
<1>6. Learned
  <2>1. IsFitted(Nothing)
    BY DEF IsFitted, Nothing
  <2>2. DOMAIN Nothing.fills = {} /\ DOMAIN Nothing.bounds = {} /\ DOMAIN Nothing.centres = {}
    BY DEF Nothing
  <2> QED
    BY <1>5, <2>1, <2>2 DEF Learned
<1>7. Configured /\ IsFrame(frame)
  <2>1. FittingInvariant
    BY <1>1, FollowsStart
  <2> QED
    BY <1>5, <2>1 DEF FittingInvariant, FrameFollows
<1>8. cfg.training = trained /\ cfg.cols = pipeline.cols /\ cfg.encoding = pipeline.encoding
  <2>1. DOMAIN pipeline = DOMAIN Default
    BY PreprocessingAssumption
  <2>2. {"training", "cols", "encoding"} \subseteq DOMAIN pipeline
    BY <2>1 DEF Default
  <2> QED
    BY <2>2, <1>4
<1>9. Prepared
  <2>1. IsList(pipeline.cols) /\ IsList(pipeline.encoding)
    BY PreprocessingAssumption DEF IsList
  <2> QED
    BY <1>7, <1>8, <2>1 DEF Prepared
<1> DEFINE rows == [i \in DOMAIN trained |->
                       [label |-> i, who |-> trained[i].who, cell |-> trained[i].cell]]
<1>10. frame.cols = pipeline.cols /\ frame.rows = rows
  BY <1>4 DEF Untrained, FrameOf
<1>11. DOMAIN frame.rows = 1..Len(frame.rows) /\ DOMAIN frame.rows = DOMAIN trained
  BY <1>7, <1>10, RowsOf
<1>12. ASSUME NEW i \in DOMAIN trained
       PROVE  trained[i].cell \in [ToSet(pipeline.cols) -> Value]
  <2>1. trained[i] \in ToSet(trained)
    BY <1>12 DEF ToSet
  <2> QED
    BY <2>1, PreprocessingAssumption
<1>13. \A i \in 1..Len(frame.rows) : frame.rows[i].cell \in [Columns(frame) -> Value]
  BY <1>10, <1>11, <1>12 DEF Columns
<1> QED
  BY <1>5, <1>6, <1>7, <1>8, <1>9, <1>10, <1>13 DEF FrameMade, Table

\* What the six stages have in common
LEMMA FittingStep ==
  ASSUME SchemaInvariant, FitLibrary
  PROVE  /\ Prepared /\ Learned /\ FrameMade /\ decisions = {}
         /\ Prepared' /\ SchemaHeld' /\ decisions' = {}
         /\ cfg' = cfg /\ \A name : On(name)' <=> On(name)
<1>1. cfg' = cfg /\ decisions' = decisions /\ stage \in Stages /\ stage # "trained"
  BY DEF FitLibrary, Fit, FitClean, FitImpute, FitOutliers, FitEncode, FitScale, FitSelect, Stages
<1>2. Prepared /\ Learned /\ FrameMade /\ decisions = {}
  BY <1>1 DEF SchemaInvariant
<1>3. Prepared'
  BY <1>1, <1>2 DEF Prepared, Configured, Trained, Listed, IsList
<1>4. SchemaHeld' /\ decisions' = {}
  BY <1>1, <1>2 DEF SchemaHeld
<1>5. \A name : On(name)' <=> On(name)
  BY <1>1 DEF On
<1> QED
  BY <1>1, <1>2, <1>3, <1>4, <1>5

LEMMA SchemaCleaned ==
  ASSUME SchemaInvariant, FitLibrary, FitClean
  PROVE  SchemaInvariant'
<1>1. stage = "clean" /\ Table(frame) /\ frame.cols = cfg.cols /\ Learned /\ Configured
  BY FittingStep DEF FitClean, FrameMade, Prepared
<1>2. Keeps(frame, frame')
  <2>1. Keeps(frame, frame)
    BY <1>1 DEF Keeps
  <2>2. Keeps(frame, Clean(frame))
    BY <1>1, CleanKeeps DEF Configured
  <2> QED
    BY <2>1, <2>2 DEF FitClean, Leaves
<1>3. Table(frame)' /\ frame'.cols = cfg'.cols
  BY <1>1, <1>2, FittingStep DEF Keeps, Table, IsFrame, IsRow, Listed, Columns
<1>4. stage' \in {"impute", "raised"} /\ fitted' = fitted
  BY DEF FitClean, Leaves
<1>5. Learned'
  BY <1>1, <1>4, FittingStep DEF Learned, IsFitted
<1>6. FrameMade'
  BY <1>3, <1>4 DEF FrameMade
<1> QED
  BY <1>4, <1>5, <1>6, FittingStep DEF SchemaInvariant, Stages

LEMMA SchemaImputed ==
  ASSUME SchemaInvariant, FitLibrary, FitImpute
  PROVE  SchemaInvariant'
<1>1. stage = "impute" /\ Table(frame) /\ frame.cols = cfg.cols /\ Learned
  BY FittingStep DEF FitImpute, FrameMade
<1>2. stage' \in {"outliers", "raised"}
  BY DEF FitImpute, Leaves
<1>3. Keeps(frame, frame')
  <2>1. Keeps(frame, frame) /\ Keeps(frame, Raised(frame))
    BY <1>1, TypedKeeps DEF Keeps
  <2>2. Keeps(frame, Imputed(frame, Fills(frame)))
    BY <1>1, FillsOf, ImputedKeeps
  <2> QED
    BY <2>1, <2>2 DEF FitImpute, Leaves
<1>4. Table(frame)' /\ frame'.cols = cfg'.cols
  BY <1>1, <1>3, FittingStep DEF Keeps, Table, IsFrame, IsRow, Listed, Columns
<1>5. Learned'
  <2>1. CASE fitted' = fitted
    BY <1>1, <1>2, <2>1, FittingStep DEF Learned, IsFitted
  <2>2. CASE On("impute") /\ fitted' = [fitted EXCEPT !.fills = Fills(frame)]
    <3> DEFINE fills == Fills(frame)
    <3>1. \A c \in DOMAIN fills : fills[c].value \in Value
      BY <1>1, FillsOf
    <3> HIDE DEF fills
    <3>2. fitted' = [fills |-> fills, bounds |-> fitted.bounds, categories |-> fitted.categories,
                     maps |-> fitted.maps, centres |-> fitted.centres, chosen |-> fitted.chosen,
                     trained |-> fitted.trained]
      BY <1>1, <2>2, FittedExcept DEF Learned, fills
    <3> QED
      BY <1>1, <1>2, <2>2, <3>1, <3>2, FittingStep DEF Learned, IsFitted
  <2> QED
    BY <2>1, <2>2 DEF FitImpute
<1>6. FrameMade'
  BY <1>2, <1>4 DEF FrameMade
<1> QED
  BY <1>2, <1>5, <1>6, FittingStep DEF SchemaInvariant, Stages

LEMMA SchemaTreated ==
  ASSUME SchemaInvariant, FitLibrary, FitOutliers
  PROVE  SchemaInvariant'
<1>1. stage = "outliers" /\ Table(frame) /\ frame.cols = cfg.cols /\ Learned
  BY FittingStep DEF FitOutliers, FrameMade
<1>2. stage' \in {"encode", "raised"}
  BY DEF FitOutliers, Leaves
<1>3. CASE fitted' = fitted /\ frame' \in {frame, Raised(frame)}
  <2>1. Keeps(frame, frame')
    BY <1>1, <1>3, TypedKeeps DEF Keeps
  <2>2. Table(frame)' /\ frame'.cols = cfg'.cols
    BY <1>1, <2>1, FittingStep DEF Keeps, Table, IsFrame, IsRow, Listed, Columns
  <2>3. Learned'
    BY <1>1, <1>2, <1>3, FittingStep DEF Learned, IsFitted
  <2>4. FrameMade'
    BY <1>2, <2>2 DEF FrameMade
  <2> QED
    BY <1>2, <2>3, <2>4, FittingStep DEF SchemaInvariant, Stages
<1>4. ASSUME ~Unfit(frame), NEW width \in Widths,
             fitted' = [fitted EXCEPT !.bounds = Bounds(frame, width)],
             frame' = Treated(frame, Bounds(frame, width))
      PROVE  SchemaInvariant'
  <2> DEFINE bounds == Bounds(frame, width)
  <2>1. \A c \in DOMAIN bounds : bounds[c].low \in Int /\ bounds[c].high \in Int
    BY <1>1, <1>4, BoundsOf
  <2> HIDE DEF bounds
  <2>2. Keeps(frame, frame')
    BY <1>1, <1>4, <2>1, TreatedKeeps DEF bounds
  <2>3. Table(frame)' /\ frame'.cols = cfg'.cols
    BY <1>1, <2>2, FittingStep DEF Keeps, Table, IsFrame, IsRow, Listed, Columns
  <2>4. fitted' = [fills |-> fitted.fills, bounds |-> bounds, categories |-> fitted.categories,
                   maps |-> fitted.maps, centres |-> fitted.centres, chosen |-> fitted.chosen,
                   trained |-> fitted.trained]
    BY <1>1, <1>4, FittedExcept DEF Learned, bounds
  <2>5. Learned'
    BY <1>1, <1>2, <2>1, <2>4, FittingStep DEF Learned, IsFitted
  <2>6. FrameMade'
    BY <1>2, <2>3 DEF FrameMade
  <2> QED
    BY <1>2, <2>5, <2>6, FittingStep DEF SchemaInvariant, Stages
<1> QED
  BY <1>3, <1>4 DEF FitOutliers, Leaves

LEMMA SchemaScaled ==
  ASSUME SchemaInvariant, FitLibrary, FitScale
  PROVE  SchemaInvariant'
<1>1. stage = "scale" /\ Table(frame) /\ frame.cols = MadeOf(cfg.cols) /\ Learned
  BY FittingStep DEF FitScale, FrameMade
<1>2. stage' \in {"select", "raised"}
  BY DEF FitScale, Leaves
<1>3. Keeps(frame, frame')
  <2>1. Keeps(frame, frame) /\ Keeps(frame, Raised(frame))
    BY <1>1, TypedKeeps DEF Keeps
  <2>2. Keeps(frame, Scaled(frame, Centres(frame)))
    BY <1>1, CentresOf, ScaledKeeps
  <2> QED
    BY <2>1, <2>2 DEF FitScale, Leaves
<1>4. Table(frame)'
  BY <1>3 DEF Keeps, Table, IsFrame, IsRow, Listed, Columns
<1>5. Learned' /\ fitted'.categories = fitted.categories
  <2>1. CASE fitted' = fitted
    BY <1>1, <1>2, <2>1, FittingStep DEF Learned, IsFitted, Catalogued, Mapped, Encoded
  <2>2. CASE fitted' = [fitted EXCEPT !.centres = Centres(frame)]
    <3> DEFINE centres == Centres(frame)
    <3>1. \A c \in DOMAIN centres : centres[c] \in Int
      BY <1>1, CentresOf
    <3> HIDE DEF centres
    <3>2. fitted' = [fills |-> fitted.fills, bounds |-> fitted.bounds,
                     categories |-> fitted.categories, maps |-> fitted.maps,
                     centres |-> centres, chosen |-> fitted.chosen, trained |-> fitted.trained]
      BY <1>1, <2>2, FittedExcept DEF Learned, centres
    <3> QED
      BY <1>1, <1>2, <2>2, <3>1, <3>2, FittingStep DEF Learned, IsFitted, Catalogued, Mapped, Encoded
  <2> QED
    BY <2>1, <2>2 DEF FitScale
<1>6. frame'.cols = MadeOf(cfg.cols)'
  BY <1>1, <1>3, <1>5, MadeSame, FittingStep DEF Keeps
<1>7. FrameMade'
  BY <1>2, <1>4, <1>6 DEF FrameMade
<1> QED
  BY <1>2, <1>5, <1>7, FittingStep DEF SchemaInvariant, Stages

LEMMA SchemaEncoded ==
  ASSUME SchemaInvariant, FitLibrary, FitEncode
  PROVE  SchemaInvariant'
<1>1. stage = "encode" /\ Table(frame) /\ frame.cols = cfg.cols /\ Learned /\ Prepared
  BY FittingStep DEF FitEncode, FrameMade
<1>2. stage' \in {"scale", "raised"} /\ (stage' = "scale" => frame'.ok)
  BY DEF FitEncode, Leaves
<1>3. CASE ~On("encode")
  <2>1. frame' = frame /\ fitted' = fitted
    BY <1>3 DEF FitEncode, Leaves
  <2>2. MadeOf(cfg.cols)' = cfg.cols
    BY <1>3, FittingStep DEF MadeOf
  <2>3. Table(frame)' /\ frame'.cols = MadeOf(cfg.cols)'
    BY <1>1, <2>1, <2>2 DEF Table, IsFrame, IsRow, Listed, Columns
  <2>4. Learned'
    BY <1>1, <1>3, <2>1, FittingStep DEF Learned, IsFitted
  <2>5. FrameMade'
    BY <1>2, <2>3 DEF FrameMade
  <2> QED
    BY <1>2, <2>4, <2>5, FittingStep DEF SchemaInvariant, Stages
<1>4. CASE Unencodable(frame) /\ On("encode")
  <2>1. frame' = Raised(frame) /\ fitted' = fitted
    BY <1>4 DEF FitEncode, Leaves
  <2>2. stage' = "raised"
    BY <1>1, <1>2, <2>1, TypedKeeps
  <2> QED
    BY <2>2, FittingStep DEF SchemaInvariant, Stages
<1>5. CASE On("encode") /\ ~Unencodable(frame)
  <2> DEFINE categories == Categories(frame)
             maps == Maps(frame)
  <2>1. /\ fitted' = [fitted EXCEPT !.categories = categories, !.maps = maps]
        /\ frame' = Encode(frame, categories, maps)
    BY <1>5 DEF FitEncode, Leaves
  <2>2. Encoded \subseteq Columns(frame)
    BY <1>5 DEF Unencodable
  <2>3. Catalogued(categories) /\ Mapped(maps)
    BY <1>1, <2>2, CategoriesOf, MapsOf
  <2> HIDE DEF categories, maps
  <2>4. fitted' = [fills |-> fitted.fills, bounds |-> fitted.bounds, categories |-> categories,
                   maps |-> maps, centres |-> fitted.centres, chosen |-> fitted.chosen,
                   trained |-> fitted.trained]
    <3>1. IsFitted(fitted)
      BY <1>1 DEF Learned
    <3> QED
      BY <2>1, <3>1, FittedEncoding
  <2>5. Catalogued(fitted.categories)' /\ Mapped(fitted.maps)'
    BY <2>3, <2>4, FittingStep DEF Catalogued, Mapped, Encoded
  <2>6. Learned'
    BY <1>1, <2>4, <2>5, FittingStep DEF Learned, IsFitted
  <2>7. IsFiniteSet(DOMAIN cfg.training) /\ IsList(frame.cols) /\ IsList(cfg.encoding)
    BY <1>1, TrainedFinite DEF Prepared
  <2>8. Table(frame') /\ (frame'.ok => frame'.cols = EncodedColumns(cfg.cols, categories))
    BY <1>1, <2>1, <2>3, <2>7, EncodeMakes
  <2>9. EncodedColumns(cfg.cols, categories) = MadeOf(cfg.cols)'
    BY <1>5, <2>4, MadeNow, FittingStep
  <2>10. Table(frame)'
    BY <2>8 DEF Table, IsFrame, IsRow, Listed, Columns
  <2>11. FrameMade'
    BY <1>2, <2>8, <2>9, <2>10 DEF FrameMade
  <2> QED
    BY <1>2, <2>6, <2>11, FittingStep DEF SchemaInvariant, Stages
<1> QED
  BY <1>3, <1>4, <1>5

LEMMA SchemaSelected ==
  ASSUME SchemaInvariant, FitLibrary, FitSelect
  PROVE  SchemaInvariant'
<1>1. stage = "select" /\ Table(frame) /\ frame.cols = MadeOf(cfg.cols) /\ Learned
  BY FittingStep DEF FitSelect, FrameMade
<1>2. stage' \in {"trained", "raised"} /\ (stage' = "trained" => frame'.ok)
  BY DEF FitSelect, Leaves
<1>3. CASE frame' = Raised(frame)
  <2>1. stage' = "raised"
    BY <1>1, <1>2, <1>3, TypedKeeps
  <2> QED
    BY <2>1, FittingStep DEF SchemaInvariant, Stages
<1>4. ASSUME IsFitted(fitted)', fitted'.fills = fitted.fills, fitted'.bounds = fitted.bounds,
             fitted'.categories = fitted.categories, fitted'.maps = fitted.maps,
             fitted'.centres = fitted.centres,
             fitted'.trained = IF On("select") THEN fitted'.chosen ELSE frame.cols
      PROVE  SchemaInvariant'
  <2>1. Learned'
    BY <1>1, <1>4, FittingStep DEF Learned, Catalogued, Mapped, Encoded
  <2>2. FrameMade'
    BY <1>1, <1>2, <1>4, MadeSame, FittingStep DEF FrameMade
  <2> QED
    BY <1>2, <2>1, <2>2, FittingStep DEF SchemaInvariant, Stages
<1>5. CASE ~On("select") /\ fitted' = [fitted EXCEPT !.trained = frame.cols]
  <2>1. fitted' = [fills |-> fitted.fills, bounds |-> fitted.bounds,
                   categories |-> fitted.categories, maps |-> fitted.maps,
                   centres |-> fitted.centres, chosen |-> fitted.chosen, trained |-> frame.cols]
    BY <1>1, <1>5, FittedExcept DEF Learned
  <2> QED
    BY <1>4, <1>5, <2>1 DEF IsFitted
<1>6. ASSUME On("select"), NEW chosen,
             fitted' = [fitted EXCEPT !.chosen = chosen, !.trained = chosen]
      PROVE  SchemaInvariant'
  <2>1. fitted' = [fills |-> fitted.fills, bounds |-> fitted.bounds,
                   categories |-> fitted.categories, maps |-> fitted.maps,
                   centres |-> fitted.centres, chosen |-> chosen, trained |-> chosen]
    BY <1>1, <1>6, FittedExcept DEF Learned
  <2> QED
    BY <1>4, <1>6, <2>1 DEF IsFitted
<1> QED
  BY <1>3, <1>5, <1>6 DEF FitSelect, Leaves

\* The columns an encoding makes are the same, whatever the order of those it is given.
LEMMA MadeAlike ==
  ASSUME Prepared, Learned, stage = "trained", NEW cols, IsList(cols),
         ToSet(cols) = ToSet(cfg.cols)
  PROVE  ToSet(MadeOf(cols)) = ToSet(MadeOf(cfg.cols))
<1>1. CASE ~On("encode")
  BY <1>1 DEF MadeOf
<1>2. CASE On("encode")
  <2>1. Catalogued(fitted.categories) /\ IsList(cfg.cols) /\ IsList(cfg.encoding)
    BY <1>2 DEF Learned, Prepared
  <2>2. \A c : c \in ToSet(EncodedColumns(cols, fitted.categories)) <=>
               c \in ToSet(EncodedColumns(cfg.cols, fitted.categories))
    BY <2>1, ColumnsOf
  <2>3. ToSet(EncodedColumns(cols, fitted.categories)) =
        ToSet(EncodedColumns(cfg.cols, fitted.categories))
    BY <2>2
  <2> QED
    BY <1>2, <2>3 DEF MadeOf
<1> QED
  BY <1>1, <1>2

\* The frame of a request is a table of the requester's one row.
LEMMA RawTable ==
  ASSUME NEW r \in Requests
  PROVE  /\ Table(Raw(r)) /\ IsList(Raw(r).cols) /\ Raw(r).cols = r.cols
         /\ Len(Raw(r).rows) = 1 /\ Raw(r).rows[1].who = r.who
<1> DEFINE row == [label |-> 1, who |-> r.who, cell |-> r.cell]
           f == Raw(r)
<1>1. /\ f = [ok |-> f.ok, cols |-> f.cols, rows |-> f.rows, dtype |-> f.dtype]
      /\ f.cols = r.cols /\ f.rows = <<row>>
  BY DEF Raw, FrameOf
<1>2. IsList(r.cols) /\ r.cell \in [ToSet(r.cols) -> Value]
  BY InferenceAssumption DEF IsList
<1>3. Len(<<row>>) = 1 /\ <<row>>[1] = row /\ Listed(<<row>>, 1)
  BY DEF Listed
<1>4. IsRow(row) /\ row.who = r.who /\ row.cell = r.cell
  BY DEF IsRow
<1> HIDE DEF row, f
<1>5. IsFrame(f) /\ \A i \in 1..Len(f.rows) : f.rows[i] = row
  BY <1>1, <1>3, <1>4 DEF IsFrame
<1>6. Table(f)
  BY <1>1, <1>2, <1>4, <1>5 DEF Table, Columns
<1> QED
  BY <1>1, <1>2, <1>3, <1>4, <1>6 DEF f

\* What the invariant says of a decision
SchemaOf(d) ==
    ToSet(d.raw.cols) = ToSet(cfg.cols) =>
        /\ ToSet(d.row.cols) = ToSet(fitted.trained)
        /\ On("select") \/ d.raw.cols = cfg.cols => d.row.cols = fitted.trained
        /\ Len(d.row.rows) <= 1
        /\ \A row \in ToSet(d.row.rows) : /\ row.who = d.raw.rows[1].who
                                          /\ \A c \in Columns(d.row) : FilledBy(c) => row.cell[c] # Missing

LEMMA AnswerSchema ==
  ASSUME Prepared, Learned, FrameMade, stage = "trained",
         NEW r \in Requests, Transformed(Raw(r)).ok,
         NEW d, d.raw = Raw(r), d.row = Transformed(Raw(r))
  PROVE  SchemaOf(d)
<1> DEFINE f == Raw(r)
           g == Transformed(f)
           C == {c \in DOMAIN fitted.fills : FilledBy(c)}
<1>1. /\ Table(f) /\ IsList(f.cols) /\ Len(f.rows) = 1
  BY RawTable
<1>2. Answerable(f, g)
  BY <1>1, TransformedMakes
<1>3. fitted.trained = IF On("select") THEN fitted.chosen ELSE MadeOf(cfg.cols)
  BY DEF FrameMade
<1>4. IsFrame(g)
  BY <1>2 DEF Answerable
<1> HIDE DEF f, g
<1>5. SUFFICES ASSUME ToSet(f.cols) = ToSet(cfg.cols)
      PROVE  /\ ToSet(g.cols) = ToSet(fitted.trained)
             /\ On("select") \/ f.cols = cfg.cols => g.cols = fitted.trained
             /\ Len(g.rows) <= 1
             /\ \A row \in ToSet(g.rows) : /\ row.who = f.rows[1].who
                                           /\ \A c \in Columns(g) : FilledBy(c) => row.cell[c] # Missing
  BY DEF SchemaOf, f, g
<1>6. ToSet(MadeOf(f.cols)) = ToSet(MadeOf(cfg.cols))
  BY <1>1, <1>5, MadeAlike
<1>7. /\ ToSet(g.cols) = ToSet(fitted.trained)
      /\ On("select") \/ f.cols = cfg.cols => g.cols = fitted.trained
  BY <1>2, <1>3, <1>6 DEF Answerable
<1>8. ASSUME NEW row \in ToSet(g.rows), NEW c \in Columns(g), FilledBy(c)
      PROVE  row.cell[c] # Missing
  <2>1. DOMAIN g.rows = 1..Len(g.rows)
    BY <1>4, RowsOf
  <2>2. PICK i \in 1..Len(g.rows) : row = g.rows[i]
    BY <2>1 DEF ToSet
  <2>3. c \in C
    BY <1>8 DEF FilledBy
  <2> HIDE DEF C
  <2>4. Full(g, C)
    BY <1>2 DEF Answerable, C
  <2> QED
    BY <1>8, <2>2, <2>3, <2>4 DEF Full
<1> QED
  BY <1>2, <1>7, <1>8 DEF Answerable

LEMMA SchemaInferred ==
  ASSUME SchemaInvariant, NEW r \in Requests, Infer(r)
  PROVE  SchemaInvariant'
<1>1. stage = "trained" /\ UNCHANGED preprocessing
  BY DEF Infer
<1>2. Prepared /\ Learned /\ FrameMade /\ SchemaHeld
  BY <1>1 DEF SchemaInvariant, Stages
<1>3. \A d \in decisions : SchemaOf(d)
  BY <1>2 DEF SchemaHeld, SchemaOf
<1>4. \A d \in decisions' : d \in decisions \/ SchemaOf(d)
  <2>1. Transformed(Raw(r)).ok
    BY DEF Infer
  <2>2. PICK verdict : decisions' = decisions \cup
            {[raw |-> Raw(r), row |-> Transformed(Raw(r)), verdict |-> verdict]}
    BY DEF Infer
  <2> DEFINE e == [raw |-> Raw(r), row |-> Transformed(Raw(r)), verdict |-> verdict]
  <2>3. SchemaOf(e)
    <3>1. e.raw = Raw(r) /\ e.row = Transformed(Raw(r))
      OBVIOUS
    <3> HIDE DEF e
    <3> QED
      BY <1>1, <1>2, <2>1, <3>1, AnswerSchema
  <2> HIDE DEF e
  <2>4. decisions' = decisions \cup {e}
    BY <2>2 DEF e
  <2> QED
    BY <2>3, <2>4
<1>5. \A d \in decisions' : SchemaOf(d)
  BY <1>3, <1>4
<1>6. SchemaHeld'
  BY <1>1, <1>5 DEF preprocessing, SchemaHeld, SchemaOf, FilledBy, On
<1>7. Prepared' /\ Learned' /\ FrameMade'
  <2>1. UNCHANGED <<cfg, frame, fitted, stage>>
    BY <1>1 DEF preprocessing
  <2>2. Prepared'
    BY <1>2, <2>1 DEF Prepared, Configured, Trained, Listed, IsList
  <2>3. Learned'
    BY <1>2, <2>1 DEF Learned, IsFitted, Catalogued, Mapped, Encoded, On
  <2>4. MadeOf(cfg.cols)' = MadeOf(cfg.cols)
    BY <2>1, MadeSame
  <2>5. FrameMade'
    BY <1>1, <1>2, <2>1, <2>4 DEF FrameMade, On
  <2> QED
    BY <2>2, <2>3, <2>5
<1> QED
  BY <1>1, <1>6, <1>7 DEF SchemaInvariant, preprocessing

LEMMA SchemaNext ==
  ASSUME SchemaInvariant, [Next]_vars
  PROVE  SchemaInvariant'
<1>1. CASE FitLibrary
  BY <1>1, SchemaCleaned, SchemaImputed, SchemaTreated, SchemaEncoded, SchemaScaled, SchemaSelected
     DEF FitLibrary, Fit
<1>2. CASE \E r \in Requests : Infer(r)
  BY <1>2, SchemaInferred
<1>3. CASE UNCHANGED <<preprocessing, decisions>>
  <2>1. UNCHANGED <<cfg, frame, fitted, stage, decisions>>
    BY <1>3 DEF preprocessing
  <2>2. SchemaHeld'
    BY <2>1 DEF SchemaInvariant, SchemaHeld, FilledBy, On
  <2>3. CASE stage \in Stages
    <3>1. Prepared'
      BY <2>1, <2>3 DEF SchemaInvariant, Prepared, Configured, Trained, Listed, IsList
    <3>2. Learned'
      BY <2>1, <2>3 DEF SchemaInvariant, Learned, IsFitted, Catalogued, Mapped, Encoded, On
    <3>3. MadeOf(cfg.cols)' = MadeOf(cfg.cols)
      BY <2>1, MadeSame
    <3>4. Table(frame)' <=> Table(frame)
      BY <2>1 DEF Table, IsFrame, IsRow, Listed, Columns
    <3>5. FrameMade'
      BY <2>1, <2>3, <3>3, <3>4 DEF SchemaInvariant, FrameMade, On
    <3> QED
      BY <2>1, <2>2, <3>1, <3>2, <3>5 DEF SchemaInvariant
  <2> QED
    BY <2>1, <2>2, <2>3 DEF SchemaInvariant, Stages
<1>4. FitLibrary \/ (\E r \in Requests : Infer(r)) \/ UNCHANGED <<preprocessing, decisions>>
  <2>1. CASE RunTraining
    BY <2>1 DEF RunTraining
  <2>2. CASE ServiceNext
    BY <2>2 DEF ServiceNext, Service, Replace, Startup, Crash, WindowEnds, RedisChanges,
       Admit, Send, Predict, Break, Report, Answer, TimeOut
  <2>3. CASE UNCHANGED vars
    BY <2>3 DEF vars
  <2> QED
    BY <2>1, <2>2, <2>3 DEF Next
<1> QED
  BY <1>1, <1>2, <1>3, <1>4

\* Whatever words, gaps and order of columns a request has, a pipeline that
\* answers gives the models the schema they were trained on, the requester's
\* row or none, and no gap in a column that was filled at training time: for
\* any configuration of the six stages, any training frame and any requests.
THEOREM SchemaIsHeld == Spec => []SchemaHeld
<1>1. SchemaInvariant => SchemaHeld
  BY DEF SchemaInvariant
<1> QED
  BY <1>1, SchemaStart, SchemaNext, PTL DEF Spec

================================================================================
