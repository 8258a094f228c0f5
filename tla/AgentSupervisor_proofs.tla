----------------------- MODULE AgentSupervisor_proofs -----------------------
(***************************************************************************)
(* Proofs about AgentSupervisor and the event stream, for every set of     *)
(* agents, every stream bound and every number of events.                  *)
(***************************************************************************)
EXTENDS AgentSupervisor, SequenceTheorems, TLAPS

-----------------------------------------------------------------------------
(* The stream operators *)

(* What SubSeq takes from the end of a sequence.                           *)
LEMMA SuffixProperties ==
    ASSUME NEW S, NEW s \in Seq(S), NEW k \in 1 .. Len(s) + 1
    PROVE  /\ SubSeq(s, k, Len(s)) \in Seq(S)
           /\ Len(SubSeq(s, k, Len(s))) = Len(s) - k + 1
           /\ \A i \in 1 .. Len(s) - k + 1 :
                SubSeq(s, k, Len(s))[i] = s[k + i - 1]
  <1>1. Len(s) \in Nat
    BY LenProperties
  <1>2. \A i \in k .. Len(s) : s[i] \in S
    BY <1>1, ElementOfSeq
  <1>3. k \in Int /\ Len(s) \in Int
    BY <1>1
  <1>4. /\ SubSeq(s, k, Len(s)) \in Seq(S)
        /\ Len(SubSeq(s, k, Len(s))) = IF k <= Len(s) THEN Len(s) - k + 1 ELSE 0
        /\ \A i \in 1 .. Len(s) - k + 1 :
             SubSeq(s, k, Len(s))[i] = s[k + i - 1]
    BY <1>2, <1>3, SubSeqProperties
  <1> QED BY <1>1, <1>4

(* LastN never returns more than it was asked for, and elements of s.      *)
LEMMA LastNProperties ==
    ASSUME NEW S, NEW s \in Seq(S), NEW n \in Nat
    PROVE  /\ LastN(s, n) \in Seq(S)
           /\ Len(LastN(s, n)) = IF n >= Len(s) THEN Len(s) ELSE n
           /\ \A i \in 1 .. Len(LastN(s, n)) :
                LastN(s, n)[i] = s[Len(s) - Len(LastN(s, n)) + i]
  <1>1. CASE n >= Len(s)
    BY <1>1 DEF LastN
  <1>2. CASE n < Len(s)
    <2>1. Len(s) \in Nat
      BY LenProperties
    <2>2. Len(s) - n + 1 \in 1 .. Len(s) + 1
      BY <1>2, <2>1
    <2>3. LastN(s, n) = SubSeq(s, Len(s) - n + 1, Len(s))
      BY <1>2, <2>1 DEF LastN
    <2> DEFINE k == Len(s) - n + 1
    <2>4. /\ LastN(s, n) \in Seq(S)
          /\ Len(LastN(s, n)) = Len(s) - k + 1
          /\ \A i \in 1 .. Len(s) - k + 1 : LastN(s, n)[i] = s[k + i - 1]
      BY <2>2, <2>3, SuffixProperties
    <2>5. Len(s) - k + 1 = n
      BY <2>1
    <2>6. \A i \in 1 .. n : k + i - 1 = Len(s) - n + i
      BY <2>1
    <2> QED BY <1>2, <2>1, <2>4, <2>5, <2>6
  <1> QED BY <1>1, <1>2

(* Appending to the last MaxEvents elements of h and trimming gives the    *)
(* last MaxEvents elements of the longer h: the step of the suffix         *)
(* invariant, for the append of events.py.                                 *)
LEMMA StreamAppendIsLastN ==
    ASSUME NEW S, NEW h \in Seq(S), NEW e \in S
    PROVE  StreamAppend(LastN(h, MaxEvents), e)
             = LastN(Append(h, e), MaxEvents)
  <1> DEFINE t == LastN(h, MaxEvents)
             l == StreamAppend(t, e)
             r == LastN(Append(h, e), MaxEvents)
  <1>0. MaxEvents \in Nat /\ MaxEvents > 0
    BY MaxEventsPositive
  <1>1. CASE Len(h) < MaxEvents
    <2>1. t = h
      BY <1>0, <1>1 DEF LastN
    <2>2. l = Append(h, e)
      BY <1>0, <1>1, <2>1 DEF StreamAppend
    <2>3. r = Append(h, e)
      BY <1>0, <1>1 DEF LastN
    <2> QED BY <2>2, <2>3
  <1>2. CASE Len(h) >= MaxEvents
    <2>1. /\ t \in Seq(S)
          /\ Len(t) = MaxEvents
          /\ \A i \in 1 .. MaxEvents : t[i] = h[Len(h) - MaxEvents + i]
      BY <1>0, <1>2, LastNProperties
    <2>2. /\ Append(t, e) \in Seq(S) /\ Len(Append(t, e)) = MaxEvents + 1
          /\ Append(h, e) \in Seq(S) /\ Len(Append(h, e)) = Len(h) + 1
      BY <1>0, <2>1
    <2>3. /\ l = SubSeq(Append(t, e), 2, Len(Append(t, e)))
          /\ r = SubSeq(Append(h, e), Len(h) + 2 - MaxEvents, Len(Append(h, e)))
      <3> HIDE DEF t
      <3> QED BY <1>0, <1>2, <2>2 DEF StreamAppend, LastN
    <2>4. /\ l \in Seq(S) /\ Len(l) = MaxEvents
          /\ \A i \in 1 .. MaxEvents : l[i] = Append(t, e)[i + 1]
      <3>1. 2 \in 1 .. Len(Append(t, e)) + 1
        BY <1>0, <2>2
      <3> HIDE DEF t, l
      <3> QED BY <3>1, <1>0, <2>2, <2>3, SuffixProperties
    <2>5. /\ r \in Seq(S) /\ Len(r) = MaxEvents
          /\ \A i \in 1 .. MaxEvents :
               r[i] = Append(h, e)[Len(h) + 1 - MaxEvents + i]
      <3>1. Len(h) + 2 - MaxEvents \in 1 .. Len(Append(h, e)) + 1
        BY <1>0, <1>2, <2>2
      <3> DEFINE k == Len(h) + 2 - MaxEvents
      <3>2. /\ r \in Seq(S) /\ Len(r) = Len(Append(h, e)) - k + 1
            /\ \A i \in 1 .. Len(Append(h, e)) - k + 1 :
                 r[i] = Append(h, e)[k + i - 1]
        <4> HIDE DEF r, k
        <4>1. r = SubSeq(Append(h, e), k, Len(Append(h, e)))
          BY <2>3 DEF k
        <4>2. k \in 1 .. Len(Append(h, e)) + 1
          BY <3>1 DEF k
        <4> QED BY <4>1, <4>2, <2>2, SuffixProperties
      <3>3. Len(Append(h, e)) - k + 1 = MaxEvents
        BY <1>0, <2>2
      <3>4. \A i \in 1 .. MaxEvents : k + i - 1 = Len(h) + 1 - MaxEvents + i
        BY <1>0, <2>2
      <3> HIDE DEF r, k
      <3> QED BY <3>2, <3>3, <3>4
    <2>6. \A i \in 1 .. MaxEvents : l[i] = r[i]
      <3> TAKE i \in 1 .. MaxEvents
      <3>1. CASE i = MaxEvents
        BY <3>1, <1>0, <1>2, <2>1, <2>4, <2>5
      <3>2. CASE i < MaxEvents
        <4>1. l[i] = t[i + 1]
          BY <3>2, <1>0, <2>1, <2>4
        <4>2. t[i + 1] = h[Len(h) - MaxEvents + i + 1]
          BY <3>2, <1>0, <2>1
        <4>3. r[i] = h[Len(h) + 1 - MaxEvents + i]
          BY <3>2, <1>0, <1>2, <2>5
        <4> QED BY <4>1, <4>2, <4>3, <1>0
      <3> QED BY <3>1, <3>2, <1>0
    <2> QED BY <2>4, <2>5, <2>6
  <1> QED BY <1>0, <1>1, <1>2

-----------------------------------------------------------------------------
(* The error an observer folds out of a history *)

(* A lifecycle event becomes the last report; mail leaves it as it was.    *)
LEMMA LastReportOfAppend ==
    ASSUME NEW h \in Seq(Event), NEW e \in Event
    PROVE  /\ e.type \in LifecycleTypes =>
                LastReport(Append(h, e), e.type, e.error)
           /\ e.type \notin LifecycleTypes =>
                \A type, error : LastReport(h, type, error) =>
                                   LastReport(Append(h, e), type, error)
  <1> DEFINE n == Len(h) + 1
  <1>1. /\ Len(h) \in Nat /\ DOMAIN h = 1 .. Len(h)
        /\ DOMAIN Append(h, e) = 1 .. n /\ Append(h, e)[n] = e
        /\ \A i \in 1 .. Len(h) : Append(h, e)[i] = h[i]
    OBVIOUS
  <1>2. ASSUME e.type \in LifecycleTypes
        PROVE  LastReport(Append(h, e), e.type, e.error)
    <2>1. n \in DOMAIN Append(h, e)
      BY <1>1
    <2>2. \A j \in DOMAIN Append(h, e) : ~(j > n)
      BY <1>1
    <2> QED BY <1>1, <1>2, <2>1, <2>2 DEF LastReport
  <1>3. ASSUME e.type \notin LifecycleTypes,
               NEW type, NEW error, LastReport(h, type, error)
        PROVE  LastReport(Append(h, e), type, error)
    <2>1. CASE \A i \in DOMAIN h : h[i].type \notin LifecycleTypes
      <3>1. \A i \in DOMAIN Append(h, e) :
              Append(h, e)[i].type \notin LifecycleTypes
        BY <1>1, <1>3, <2>1
      <3> QED BY <1>3, <2>1, <3>1 DEF LastReport
    <2>2. CASE \E i \in DOMAIN h : h[i].type \in LifecycleTypes
      <3>1. PICK i \in DOMAIN h :
              /\ h[i].type \in LifecycleTypes
              /\ \A j \in DOMAIN h : j > i => h[j].type \notin LifecycleTypes
              /\ type = h[i].type /\ error = h[i].error
        BY <1>3, <2>2 DEF LastReport
      <3>2. i \in DOMAIN Append(h, e) /\ Append(h, e)[i] = h[i]
        BY <1>1
      <3>3. \A j \in DOMAIN Append(h, e) :
              j > i => Append(h, e)[j].type \notin LifecycleTypes
        BY <1>1, <1>3, <3>1
      <3> QED BY <3>1, <3>2, <3>3 DEF LastReport
    <2> QED BY <2>1, <2>2
  <1> QED BY <1>2, <1>3

-----------------------------------------------------------------------------
(* The inductive invariant: what a stream holds is only known together     *)
(* with the history it is a suffix of, and the id of the next event only   *)
(* from the length of that stream.                                         *)
IInv == /\ TypeOK
        /\ StreamIsRecentSuffix
        /\ EventIdsAreClosedForm
        /\ ErrorMatchesHistory

(* What one call of _append_runtime_event for agent a does to a state that *)
(* satisfies the invariant.                                                *)
LEMMA Emission ==
    ASSUME IInv, NEW a \in DOMAIN agents, NEW rec \in AgentRuntimeState,
           rec.stream = agents[a].stream,
           NEW type \in EventTypes, NEW error \in Errors \cup {NoError},
           AppendRuntimeEvent(a, rec, type, error)
    PROVE  \E e \in Event :
             /\ e.type = type /\ e.error = error
             /\ e.id = EventIdOf(Len(history[a]) + 1)
             /\ history' = [history EXCEPT ![a] = Append(history[a], e)]
             /\ agents' = [agents EXCEPT ![a] =
                   [rec EXCEPT !.stream =
                      LastN(Append(history[a], e), MaxEvents)]]
  <1> DEFINE e == NextEvent(rec, type, error)
  <1>0. MaxEvents \in Nat /\ MaxEvents > 0
    BY MaxEventsPositive
  <1>1. /\ a \in Configured /\ history[a] \in Seq(Event)
        /\ rec.stream = LastN(history[a], MaxEvents)
        /\ rec.stream \in Seq(Event)
    BY DEF IInv, TypeOK, StreamIsRecentSuffix, AgentRuntimeState
  <1>2. Len(history[a]) \in Nat
    BY <1>1, LenProperties
  <1>3. Len(rec.stream) = IF MaxEvents >= Len(history[a])
                          THEN Len(history[a]) ELSE MaxEvents
    BY <1>0, <1>1, LastNProperties
  <1>4. e = [id |-> Len(rec.stream) + 1, type |-> type, error |-> error]
    BY DEF NextEvent
  <1>5. e \in Event /\ e.id = EventIdOf(Len(history[a]) + 1)
    BY <1>0, <1>2, <1>3, <1>4 DEF Event, EventIdOf
  <1>6. StreamAppend(rec.stream, e) = LastN(Append(history[a], e), MaxEvents)
    BY <1>1, <1>5, StreamAppendIsLastN
  <1>7. /\ agents' = [agents EXCEPT ![a] =
                        [rec EXCEPT !.stream = StreamAppend(rec.stream, e)]]
        /\ history' = [history EXCEPT ![a] = Append(history[a], e)]
    BY DEF AppendRuntimeEvent, WithEvent
  <1> QED BY <1>4, <1>5, <1>6, <1>7

(* Storing and publishing an event keeps the types, the suffix and the     *)
(* closed form of the ids, whatever else the call changed in the record.   *)
LEMMA EmissionKeepsStreams ==
    ASSUME IInv, NEW a \in DOMAIN agents, NEW rec \in AgentRuntimeState,
           NEW e \in Event, e.id = EventIdOf(Len(history[a]) + 1),
           history' = [history EXCEPT ![a] = Append(history[a], e)],
           agents' = [agents EXCEPT ![a] =
             [rec EXCEPT !.stream = LastN(Append(history[a], e), MaxEvents)]]
    PROVE  TypeOK' /\ StreamIsRecentSuffix' /\ EventIdsAreClosedForm'
  <1> DEFINE h == Append(history[a], e)
             t == LastN(h, MaxEvents)
  <1>0. MaxEvents \in Nat /\ MaxEvents > 0
    BY MaxEventsPositive
  <1>1. /\ a \in Configured /\ history \in [Configured -> Seq(Event)]
        /\ DOMAIN agents \subseteq Configured
        /\ agents \in [DOMAIN agents -> AgentRuntimeState]
    BY DEF IInv, TypeOK
  <1>2. /\ h \in Seq(Event) /\ Len(h) = Len(history[a]) + 1
        /\ Len(history[a]) \in Nat
        /\ \A i \in 1 .. Len(history[a]) : h[i] = history[a][i]
        /\ h[Len(history[a]) + 1] = e
    BY <1>1
  <1>3. t \in Seq(Event) /\ Len(t) <= MaxEvents
    <2> HIDE DEF h
    <2> QED BY <1>0, <1>2, LastNProperties
  <1>4. /\ history'[a] = h
        /\ \A b \in Configured : b # a => history'[b] = history[b]
    BY <1>1
  <1>5. /\ DOMAIN agents' = DOMAIN agents
        /\ agents'[a] = [rec EXCEPT !.stream = t]
        /\ \A b \in DOMAIN agents : b # a => agents'[b] = agents[b]
    BY <1>1
  <1>6. agents'[a] \in AgentRuntimeState /\ agents'[a].stream = t
    BY <1>3, <1>5 DEF AgentRuntimeState
  <1> HIDE DEF h, t
  <1>7. TypeOK'
    <2>1. DOMAIN agents' \subseteq Configured
      BY <1>1, <1>5
    <2>2. agents' \in [DOMAIN agents' -> AgentRuntimeState]
      BY <1>1, <1>5, <1>6
    <2>3. history' \in [Configured -> Seq(Event)]
      BY <1>1, <1>2, <1>4
    <2>4. \A b \in DOMAIN agents' : Len(agents'[b].stream) <= MaxEvents
      BY <1>3, <1>5, <1>6 DEF IInv, TypeOK
    <2>5. \A b \in Configured \ DOMAIN agents' : history'[b] = << >>
      BY <1>4, <1>5 DEF IInv, TypeOK
    <2> QED BY <2>1, <2>2, <2>3, <2>4, <2>5 DEF TypeOK
  <1>8. StreamIsRecentSuffix'
    <2> SUFFICES ASSUME NEW b \in DOMAIN agents'
                 PROVE  agents'[b].stream = LastN(history'[b], MaxEvents)
      BY DEF StreamIsRecentSuffix
    <2>1. CASE b = a
      BY <2>1, <1>4, <1>6 DEF t
    <2>2. CASE b # a
      BY <2>2, <1>1, <1>4, <1>5 DEF IInv, StreamIsRecentSuffix
    <2> QED BY <2>1, <2>2
  <1>9. EventIdsAreClosedForm'
    <2> SUFFICES ASSUME NEW b \in Configured, NEW i \in DOMAIN history'[b]
                 PROVE  history'[b][i].id = EventIdOf(i)
      BY DEF EventIdsAreClosedForm, EventIdOf
    <2>1. CASE b # a
      BY <2>1, <1>4 DEF IInv, EventIdsAreClosedForm
    <2>2. CASE b = a /\ i = Len(history[a]) + 1
      BY <2>2, <1>2, <1>4
    <2>3. CASE b = a /\ i # Len(history[a]) + 1
      <3>1. i \in 1 .. Len(history[a])
        BY <2>3, <1>2, <1>4
      <3>2. i \in DOMAIN history[a]
        BY <3>1, <1>1
      <3> QED BY <2>3, <3>1, <3>2, <1>1, <1>2, <1>4 DEF IInv, EventIdsAreClosedForm
    <2> QED BY <2>1, <2>2, <2>3
  <1> QED BY <1>7, <1>8, <1>9

(* ErrorMatchesHistory for one agent with record rec and history h.        *)
Explained(rec, h) ==
    \E type \in LifecycleTypes \cup {"none"} : LastReport(h, type, rec.last_error)

LEMMA AllExplained ==
    ErrorMatchesHistory
      <=> \A a \in DOMAIN agents : Explained(agents[a], history[a])
  BY DEF ErrorMatchesHistory, Explained

(* Mail leaves every explanation as it was.                                *)
LEMMA MailKeepsExplanation ==
    ASSUME NEW rec, NEW h \in Seq(Event), NEW e \in Event,
           e.type = "MailReceived", Explained(rec, h)
    PROVE  Explained(rec, Append(h, e))
  <1>1. e.type \notin LifecycleTypes
    BY DEF LifecycleTypes
  <1>2. \A type, error : LastReport(h, type, error) =>
                            LastReport(Append(h, e), type, error)
    BY <1>1, LastReportOfAppend
  <1> QED BY <1>2 DEF Explained

(* An emission that explains the new record of its agent.                  *)
LEMMA EmissionKeepsInv ==
    ASSUME IInv, NEW a \in DOMAIN agents, NEW rec \in AgentRuntimeState,
           rec.stream = agents[a].stream,
           NEW type \in EventTypes, NEW error \in Errors \cup {NoError},
           AppendRuntimeEvent(a, rec, type, error),
           \A e \in Event : e.type = type /\ e.error = error
                            => Explained(rec, Append(history[a], e))
    PROVE  IInv'
  <1>1. PICK e \in Event :
             /\ e.type = type /\ e.error = error
             /\ e.id = EventIdOf(Len(history[a]) + 1)
             /\ history' = [history EXCEPT ![a] = Append(history[a], e)]
             /\ agents' = [agents EXCEPT ![a] =
                   [rec EXCEPT !.stream =
                      LastN(Append(history[a], e), MaxEvents)]]
    BY Emission
  <1>2. TypeOK' /\ StreamIsRecentSuffix' /\ EventIdsAreClosedForm'
    BY <1>1, EmissionKeepsStreams
  <1>3. /\ a \in Configured /\ history \in [Configured -> Seq(Event)]
        /\ DOMAIN agents \subseteq Configured
        /\ agents \in [DOMAIN agents -> AgentRuntimeState]
    BY DEF IInv, TypeOK
  <1>4. \A b \in DOMAIN agents' : Explained(agents'[b], history'[b])
    <2> SUFFICES ASSUME NEW b \in DOMAIN agents'
                 PROVE  Explained(agents'[b], history'[b])
      OBVIOUS
    <2>1. CASE b = a
      <3>1. /\ history'[b] = Append(history[a], e)
            /\ agents'[b].status = rec.status
            /\ agents'[b].last_error = rec.last_error
            /\ agents'[b].handle = rec.handle
        BY <2>1, <1>1, <1>3 DEF AgentRuntimeState
      <3>2. Explained(rec, Append(history[a], e))
        BY <1>1
      <3> QED BY <3>1, <3>2 DEF Explained
    <2>2. CASE b # a
      <3>1. b \in DOMAIN agents /\ agents'[b] = agents[b]
            /\ history'[b] = history[b]
        BY <2>2, <1>1, <1>3
      <3>2. Explained(agents[b], history[b])
        BY <3>1, AllExplained DEF IInv
      <3> QED BY <3>1, <3>2
    <2> QED BY <2>1, <2>2
  <1>5. ErrorMatchesHistory'
    BY <1>4 DEF ErrorMatchesHistory, Explained
  <1> QED BY <1>2, <1>5 DEF IInv

(* Registering S, and giving a handle to some of the entries that this     *)
(* call creates, keeps the invariant.                                      *)
LEMMA RegistrationKeepsInv ==
    ASSUME IInv, NEW S \in SUBSET Configured, UNCHANGED history,
           DOMAIN agents' = DOMAIN agents \cup S,
           agents' = [b \in DOMAIN agents' |-> agents'[b]],
           \A b \in DOMAIN agents : agents'[b] = agents[b],
           \A b \in S \ DOMAIN agents :
             agents'[b] \in {NewAgent,
                             [NewAgent EXCEPT !.handle = TRUE, !.status = "Idle"]}
    PROVE  IInv'
  <1>0. MaxEvents \in Nat /\ MaxEvents > 0
    BY MaxEventsPositive
  <1>1. /\ history \in [Configured -> Seq(Event)]
        /\ DOMAIN agents \subseteq Configured
        /\ agents \in [DOMAIN agents -> AgentRuntimeState]
        /\ \A b \in Configured \ DOMAIN agents : history[b] = << >>
    BY DEF IInv, TypeOK
  <1>2. \A b \in S \ DOMAIN agents :
          /\ agents'[b] \in AgentRuntimeState
          /\ agents'[b].stream = << >> /\ agents'[b].last_error = NoError
    <2> DEFINE up == [NewAgent EXCEPT !.handle = TRUE, !.status = "Idle"]
    <2>0. << >> \in Seq(Event)
      BY EmptySeq
    <2>1. /\ NewAgent \in AgentRuntimeState
          /\ NewAgent.stream = << >> /\ NewAgent.last_error = NoError
      BY <2>0 DEF NewAgent, AgentRuntimeState, AgentStatus
    <2>2. /\ up \in AgentRuntimeState
          /\ up.stream = << >> /\ up.last_error = NoError
      BY <2>1 DEF AgentRuntimeState, AgentStatus
    <2> HIDE DEF up
    <2>3. \A b \in S \ DOMAIN agents : agents'[b] \in {NewAgent, up}
      BY DEF up
    <2> QED BY <2>1, <2>2, <2>3
  <1>3. TypeOK'
    <2>1. agents' \in [DOMAIN agents' -> AgentRuntimeState]
      BY <1>1, <1>2
    <2>2. \A b \in DOMAIN agents' : Len(agents'[b].stream) <= MaxEvents
      BY <1>0, <1>2 DEF IInv, TypeOK
    <2> QED BY <1>1, <2>1, <2>2 DEF TypeOK
  <1>4. StreamIsRecentSuffix'
    <2>1. LastN(<< >>, MaxEvents) = << >>
      BY <1>0 DEF LastN
    <2>2. \A b \in S \ DOMAIN agents : history[b] = << >>
      BY <1>1
    <2> QED BY <1>2, <2>1, <2>2 DEF IInv, StreamIsRecentSuffix
  <1>5. EventIdsAreClosedForm'
    BY DEF IInv, EventIdsAreClosedForm, EventIdOf
  <1>6. ErrorMatchesHistory'
    <2>1. LastReport(<< >>, "none", NoError)
      BY DEF LastReport
    <2>2. \A b \in S \ DOMAIN agents : Explained(agents'[b], history[b])
      BY <1>1, <1>2, <2>1 DEF Explained
    <2>3. \A b \in DOMAIN agents : Explained(agents'[b], history[b])
      BY AllExplained DEF IInv
    <2>4. \A b \in DOMAIN agents' : Explained(agents'[b], history'[b])
      BY <2>2, <2>3
    <2> QED BY <2>4 DEF ErrorMatchesHistory, Explained
  <1> QED BY <1>3, <1>4, <1>5, <1>6 DEF IInv

-----------------------------------------------------------------------------
LEMMA InitEstablishesInv == SupervisorInit => IInv
  <1> SUFFICES ASSUME SupervisorInit PROVE IInv
    OBVIOUS
  <1>1. DOMAIN agents = {} /\ agents \in [DOMAIN agents -> AgentRuntimeState]
    BY DEF SupervisorInit
  <1>2. /\ history \in [Configured -> Seq(Event)]
        /\ \A a \in Configured : history[a] = << >>
    BY EmptySeq DEF SupervisorInit
  <1> QED BY <1>1, <1>2 DEF IInv, TypeOK, StreamIsRecentSuffix,
            EventIdsAreClosedForm, ErrorMatchesHistory

LEMMA NextKeepsInv == IInv /\ [SupervisorNext]_supervisorVars => IInv'
  <1> SUFFICES ASSUME IInv, [SupervisorNext]_supervisorVars PROVE IInv'
    OBVIOUS
  <1>0. /\ DOMAIN agents \subseteq Configured
        /\ agents \in [DOMAIN agents -> AgentRuntimeState]
        /\ history \in [Configured -> Seq(Event)]
        /\ MaxEvents \in Nat
    BY MaxEventsPositive DEF IInv, TypeOK
  <1>1. CASE EnsureAgentsRegistered
    BY <1>1, <1>0, RegistrationKeepsInv DEF EnsureAgentsRegistered, Registered
  <1>2. CASE LaunchAllAgents
    <2>1. /\ UNCHANGED history
          /\ DOMAIN agents' = DOMAIN agents \cup Configured
          /\ agents' = [b \in DOMAIN agents' |-> agents'[b]]
          /\ \A b \in DOMAIN agents : agents'[b] = agents[b]
          /\ \A b \in Configured \ DOMAIN agents :
               agents'[b] \in {NewAgent,
                 [NewAgent EXCEPT !.handle = TRUE, !.status = "Idle"]}
      BY <1>2, <1>0 DEF LaunchAllAgents, Launched, Registered
    <2> QED BY <2>1, RegistrationKeepsInv
  <1>3. ASSUME NEW a \in Configured, EnsureAgentRuntimeState(a) PROVE IInv'
    BY <1>3, <1>0, RegistrationKeepsInv DEF EnsureAgentRuntimeState, Registered
  <1>4. ASSUME NEW a \in Configured, NEW error \in Errors \cup {NoError},
               MarkAgentFailed(a, error)
        PROVE  IInv'
    <2> DEFINE rec == [agents[a] EXCEPT !.status = "Failed", !.last_error = error]
    <2>1. /\ a \in DOMAIN agents
          /\ AppendRuntimeEvent(a, rec, "AgentFailed", error)
      BY <1>4 DEF MarkAgentFailed
    <2>2. /\ rec \in AgentRuntimeState /\ rec.stream = agents[a].stream
          /\ rec.status = "Failed" /\ rec.last_error = error
      BY <1>0, <2>1 DEF AgentRuntimeState, AgentStatus
    <2>3. "AgentFailed" \in EventTypes /\ "AgentFailed" \in LifecycleTypes
      BY DEF EventTypes, LifecycleTypes
    <2> HIDE DEF rec
    <2>4. ASSUME NEW e \in Event, e.type = "AgentFailed", e.error = error
          PROVE  Explained(rec, Append(history[a], e))
      BY <2>2, <2>3, <2>4, <1>0, LastReportOfAppend DEF Explained
    <2> QED BY <2>1, <2>2, <2>3, <2>4, EmissionKeepsInv
  <1>5. ASSUME NEW a \in Configured, RestartAgent(a) PROVE IInv'
    <2> DEFINE rec == [agents[a] EXCEPT !.status = "Idle",
                         !.last_error = NoError, !.handle = TRUE]
    <2>1. /\ a \in DOMAIN agents
          /\ AppendRuntimeEvent(a, rec, "AgentRestarted", NoError)
      BY <1>5 DEF RestartAgent
    <2>2. /\ rec \in AgentRuntimeState /\ rec.stream = agents[a].stream
          /\ rec.status = "Idle" /\ rec.last_error = NoError
      BY <1>0, <2>1 DEF AgentRuntimeState, AgentStatus
    <2>3. "AgentRestarted" \in EventTypes /\ "AgentRestarted" \in LifecycleTypes
      BY DEF EventTypes, LifecycleTypes
    <2> HIDE DEF rec
    <2>4. ASSUME NEW e \in Event, e.type = "AgentRestarted", e.error = NoError
          PROVE  Explained(rec, Append(history[a], e))
      BY <2>2, <2>3, <2>4, <1>0, LastReportOfAppend DEF Explained
    <2> QED BY <2>1, <2>2, <2>3, <2>4, EmissionKeepsInv
  <1>6. ASSUME NEW a \in Configured, RecordUnreadMail(a) PROVE IInv'
    <2>1. /\ a \in DOMAIN agents /\ agents[a] \in AgentRuntimeState
          /\ AppendRuntimeEvent(a, agents[a], "MailReceived", NoError)
      BY <1>6, <1>0 DEF RecordUnreadMail
    <2>2. "MailReceived" \in EventTypes
      BY DEF EventTypes
    <2>3. ASSUME NEW e \in Event, e.type = "MailReceived", e.error = NoError
          PROVE  Explained(agents[a], Append(history[a], e))
      BY <2>1, <2>3, <1>0, AllExplained, MailKeepsExplanation DEF IInv
    <2> QED BY <2>1, <2>2, <2>3, EmissionKeepsInv
  <1>7. ASSUME NEW a \in Configured, NEW status \in AgentStatus,
               SetAgentStatus(a, status)
        PROVE  IInv'
    <2>1. /\ a \in DOMAIN agents /\ history' = history
          /\ DOMAIN agents' = DOMAIN agents
          /\ \A b \in DOMAIN agents :
               /\ agents'[b].stream = agents[b].stream
               /\ agents'[b].last_error = agents[b].last_error
               /\ agents'[b] \in AgentRuntimeState
      BY <1>7, <1>0 DEF SetAgentStatus, AgentRuntimeState
    <2>2. agents' \in [DOMAIN agents' -> AgentRuntimeState]
      BY <2>1, <1>7, <1>0 DEF SetAgentStatus
    <2>3. TypeOK' /\ StreamIsRecentSuffix' /\ EventIdsAreClosedForm'
      BY <1>0, <2>1, <2>2 DEF IInv, TypeOK, StreamIsRecentSuffix,
         EventIdsAreClosedForm, EventIdOf
    <2>4. ErrorMatchesHistory'
      BY <2>1 DEF IInv, ErrorMatchesHistory
    <2> QED BY <2>3, <2>4 DEF IInv
  <1>8. CASE UNCHANGED supervisorVars
    BY <1>8 DEF supervisorVars, IInv, TypeOK, StreamIsRecentSuffix,
       EventIdsAreClosedForm, EventIdOf, ErrorMatchesHistory
  <1> QED BY <1>1, <1>2, <1>3, <1>4, <1>5, <1>6, <1>7, <1>8 DEF SupervisorNext

LEMMA InvIsInvariant == SupervisorSpec => []IInv
  BY InitEstablishesInv, NextKeepsInv, PTL DEF SupervisorSpec

-----------------------------------------------------------------------------
(* Every state the supervisor reaches is well typed: entries only for      *)
(* configured agents, streams within MaxEvents.                            *)
THEOREM TypeCorrect == SupervisorSpec => []TypeOK
  <1>1. IInv => TypeOK
    BY DEF IInv
  <1> QED BY <1>1, InvIsInvariant, PTL

(* The retained stream is always the end of the published history.         *)
THEOREM StreamAgreesWithHistory == SupervisorSpec => []StreamIsRecentSuffix
  <1>1. IInv => StreamIsRecentSuffix
    BY DEF IInv
  <1> QED BY <1>1, InvIsInvariant, PTL

(* The i-th event of an agent has the id EventIdOf(i): MaxEvents + 1 for   *)
(* all of them once the stream is full.                                    *)
THEOREM EventIdFormula == SupervisorSpec => []EventIdsAreClosedForm
  <1>1. IInv => EventIdsAreClosedForm
    BY DEF IInv
  <1> QED BY <1>1, InvIsInvariant, PTL

(* last_error and the published events always tell the same story.         *)
THEOREM ErrorIsReported == SupervisorSpec => []ErrorMatchesHistory
  <1>1. IInv => ErrorMatchesHistory
    BY DEF IInv
  <1> QED BY <1>1, InvIsInvariant, PTL

(* The ids in a stream are unique as long as the agent has published at    *)
(* most MaxEvents + 1 events.                                              *)
THEOREM UniqueIdsUntilFull == SupervisorSpec => []IdsUniqueUntilFull
  <1>1. IInv => IdsUniqueUntilFull
    <2> SUFFICES ASSUME IInv, NEW a \in DOMAIN agents,
                        Len(history[a]) <= MaxEvents + 1,
                        NEW i \in DOMAIN agents[a].stream,
                        NEW j \in DOMAIN agents[a].stream,
                        agents[a].stream[i].id = agents[a].stream[j].id
                 PROVE  i = j
      BY DEF IdsUniqueUntilFull
    <2> DEFINE h == history[a]
               t == LastN(h, MaxEvents)
               k == Len(h) - Len(t)
    <2>0. MaxEvents \in Nat /\ MaxEvents > 0
      BY MaxEventsPositive
    <2>1. /\ a \in Configured /\ h \in Seq(Event)
          /\ agents[a].stream = t
      BY DEF IInv, TypeOK, StreamIsRecentSuffix
    <2>2. Len(h) \in Nat /\ DOMAIN h = 1 .. Len(h)
      BY <2>1
    <2>3. /\ t \in Seq(Event) /\ Len(t) <= Len(h)
          /\ \A x \in 1 .. Len(t) : t[x] = h[k + x]
      <3> HIDE DEF h
      <3> QED BY <2>0, <2>1, <2>2, LastNProperties
    <2>4. i \in 1 .. Len(t) /\ j \in 1 .. Len(t) /\ Len(t) \in Nat
      BY <2>1, <2>3
    <2>5. /\ k \in Int /\ k + Len(t) = Len(h) /\ k >= 0
          /\ Len(h) <= MaxEvents + 1
      BY <2>2, <2>3, <2>4
    <2>6. /\ t[i] = h[k + i] /\ t[j] = h[k + j] /\ t[i].id = t[j].id
          /\ \A x \in DOMAIN h : h[x].id = EventIdOf(x)
      BY <2>1, <2>3, <2>4 DEF IInv, EventIdsAreClosedForm
    <2> HIDE DEF h, t, k
    <2>7. /\ k + i \in 1 .. Len(h) /\ k + j \in 1 .. Len(h)
          /\ k + i <= MaxEvents + 1 /\ k + j <= MaxEvents + 1
      BY <2>0, <2>2, <2>4, <2>5
    <2>8. EventIdOf(k + i) = EventIdOf(k + j)
      BY <2>2, <2>6, <2>7
    <2>9. EventIdOf(k + i) = k + i /\ EventIdOf(k + j) = k + j
      BY <2>0, <2>7 DEF EventIdOf
    <2> QED BY <2>4, <2>5, <2>8, <2>9
  <1> QED BY <1>1, InvIsInvariant, PTL

(* The newest part of the newest part of s is the newest part of s.        *)
LEMMA LastNOfLastN ==
    ASSUME NEW S, NEW s \in Seq(S), NEW m \in Nat, NEW n \in Nat, n <= m
    PROVE  LastN(LastN(s, m), n) = LastN(s, n)
  <1> DEFINE t == LastN(s, m)
             l == LastN(t, n)
             r == LastN(s, n)
  <1>0. Len(s) \in Nat
    BY LenProperties
  <1>1. /\ t \in Seq(S) /\ Len(t) = IF m >= Len(s) THEN Len(s) ELSE m
        /\ \A i \in 1 .. Len(t) : t[i] = s[Len(s) - Len(t) + i]
    BY LastNProperties
  <1>2. /\ r \in Seq(S) /\ Len(r) = IF n >= Len(s) THEN Len(s) ELSE n
        /\ \A i \in 1 .. Len(r) : r[i] = s[Len(s) - Len(r) + i]
    BY LastNProperties
  <1>3. /\ l \in Seq(S) /\ Len(l) = IF n >= Len(t) THEN Len(t) ELSE n
        /\ \A i \in 1 .. Len(l) : l[i] = t[Len(t) - Len(l) + i]
    <2> HIDE DEF t
    <2> QED BY <1>1, LastNProperties
  <1> HIDE DEF t, l, r
  <1>4. Len(l) = Len(r) /\ Len(l) \in Nat /\ Len(t) \in Nat /\ Len(l) <= Len(t)
    BY <1>0, <1>1, <1>2, <1>3
  <1>5. \A i \in 1 .. Len(l) : l[i] = r[i]
    <2> SUFFICES ASSUME NEW i \in 1 .. Len(l) PROVE l[i] = r[i]
      OBVIOUS
    <2>1. Len(t) - Len(l) + i \in 1 .. Len(t)
      BY <1>4
    <2>2. l[i] = t[Len(t) - Len(l) + i]
      BY <1>3
    <2>3. t[Len(t) - Len(l) + i] = s[Len(s) - Len(t) + (Len(t) - Len(l) + i)]
      BY <1>1, <2>1
    <2>4. Len(s) - Len(t) + (Len(t) - Len(l) + i) = Len(s) - Len(r) + i
      BY <1>0, <1>4
    <2>5. r[i] = s[Len(s) - Len(r) + i]
      BY <1>2, <1>4
    <2> QED BY <2>2, <2>3, <2>4, <2>5
  <1>6. l = r
    BY <1>2, <1>3, <1>4, <1>5, SeqEqual
  <1> QED BY <1>6 DEF l, r, t

(* Every page of get_events is the newest part of what was published.      *)
THEOREM PagesAreMostRecent == SupervisorSpec => []PageIsMostRecent
  <1>1. IInv => PageIsMostRecent
    <2> SUFFICES ASSUME IInv, NEW a \in DOMAIN agents,
                        NEW limit \in -1 .. MaxEvents + 1
                 PROVE  LET wanted == IF limit < 0 THEN 0
                              ELSE IF limit > MaxEvents THEN MaxEvents ELSE limit
                        IN  GetEvents(agents[a].stream, limit)
                              = LastN(history[a], wanted)
      BY DEF PageIsMostRecent
    <2> DEFINE h == history[a]
               t == LastN(h, MaxEvents)
               wanted == IF limit < 0 THEN 0
                         ELSE IF limit > MaxEvents THEN MaxEvents ELSE limit
    <2>0. MaxEvents \in Nat /\ limit \in Int
      BY MaxEventsPositive
    <2>1. a \in Configured /\ h \in Seq(Event) /\ agents[a].stream = t
      BY DEF IInv, TypeOK, StreamIsRecentSuffix
    <2>2. wanted \in Nat /\ wanted <= MaxEvents
      BY <2>0
    <2>3. LastN(t, wanted) = LastN(h, wanted)
      <3> HIDE DEF h, wanted
      <3> QED BY <2>0, <2>1, <2>2, LastNOfLastN
    <2>4. t \in Seq(Event) /\ Len(t) \in Nat /\ Len(t) <= MaxEvents
      <3> HIDE DEF h
      <3>1. t \in Seq(Event) /\ Len(t) = IF MaxEvents >= Len(h) THEN Len(h) ELSE MaxEvents
        BY <2>0, <2>1, LastNProperties
      <3>2. Len(h) \in Nat
        BY <2>1, LenProperties
      <3> QED BY <2>0, <3>1, <3>2
    <2>5. GetEvents(t, limit) = LastN(t, wanted)
      <3> HIDE DEF t
      <3>1. CASE limit >= Len(t)
        <4>1. wanted >= Len(t)
          BY <3>1, <2>0, <2>4
        <4> QED BY <3>1, <4>1 DEF GetEvents, LastN
      <3>2. CASE limit < Len(t) /\ limit <= 0
        <4>1. wanted = 0
          BY <3>2, <2>0, <2>2
        <4>2. LastN(t, 0) = << >>
          <5>1. LastN(t, 0) \in Seq(Event) /\ Len(LastN(t, 0)) = 0
            BY <2>4, LastNProperties
          <5> QED BY <5>1, EmptySeq
        <4> QED BY <3>2, <4>1, <4>2, <2>0, <2>4 DEF GetEvents
      <3>3. CASE limit < Len(t) /\ limit > 0
        <4>1. wanted = limit
          BY <3>3, <2>0, <2>4
        <4> QED BY <3>3, <4>1, <2>0, <2>4 DEF GetEvents, LastN
      <3> QED BY <3>1, <3>2, <3>3, <2>0, <2>4
    <2> QED BY <2>1, <2>3, <2>5
  <1> QED BY <1>1, InvIsInvariant, PTL

-----------------------------------------------------------------------------
(* A sequence is the beginning of itself and of itself with one more.      *)
LEMMA PrefixOfAppend ==
    ASSUME NEW S, NEW h \in Seq(S), NEW e \in S
    PROVE  h = SubSeq(h, 1, Len(h)) /\ h = SubSeq(Append(h, e), 1, Len(h))
  <1> DEFINE n == Len(h)
             g == Append(h, e)
  <1>1. /\ n \in Nat /\ g \in Seq(S) /\ Len(g) = n + 1
        /\ \A i \in 1 .. n : g[i] = h[i]
    BY LenProperties
  <1>2. \A i \in 1 .. n : h[i] \in S
    BY ElementOfSeq
  <1>3. /\ SubSeq(h, 1, n) \in Seq(S)
        /\ Len(SubSeq(h, 1, n)) = n
        /\ \A i \in 1 .. n : SubSeq(h, 1, n)[i] = h[i]
    <2>1. 1 \in Int /\ n \in Int
      BY <1>1
    <2>2. /\ SubSeq(h, 1, n) \in Seq(S)
          /\ Len(SubSeq(h, 1, n)) = IF 1 <= n THEN n - 1 + 1 ELSE 0
          /\ \A i \in 1 .. n - 1 + 1 : SubSeq(h, 1, n)[i] = h[1 + i - 1]
      BY <1>2, <2>1, SubSeqProperties
    <2> QED BY <1>1, <2>2
  <1>4. /\ SubSeq(g, 1, n) \in Seq(S)
        /\ Len(SubSeq(g, 1, n)) = n
        /\ \A i \in 1 .. n : SubSeq(g, 1, n)[i] = g[i]
    <2>1. 1 \in Int /\ n \in Int
      BY <1>1
    <2>2. \A i \in 1 .. n : g[i] \in S
      BY <1>1, <1>2
    <2> HIDE DEF g, n
    <2>3. /\ SubSeq(g, 1, n) \in Seq(S)
          /\ Len(SubSeq(g, 1, n)) = IF 1 <= n THEN n - 1 + 1 ELSE 0
          /\ \A i \in 1 .. n - 1 + 1 : SubSeq(g, 1, n)[i] = g[1 + i - 1]
      BY <2>1, <2>2, SubSeqProperties
    <2> QED BY <1>1, <2>3
  <1> HIDE DEF g
  <1>5. h = SubSeq(h, 1, n)
    BY <1>1, <1>3, SeqEqual
  <1>6. h = SubSeq(g, 1, n)
    BY <1>1, <1>4, SeqEqual
  <1> QED BY <1>5, <1>6 DEF g

(* One emission extends the history of its agent and removes no entry.     *)
LEMMA EmissionExtends ==
    ASSUME IInv, NEW a \in DOMAIN agents, NEW rec \in AgentRuntimeState,
           rec.stream = agents[a].stream,
           NEW type \in EventTypes, NEW error \in Errors \cup {NoError},
           AppendRuntimeEvent(a, rec, type, error)
    PROVE  /\ DOMAIN agents \subseteq DOMAIN agents'
           /\ \A b \in Configured :
                history[b] = SubSeq(history'[b], 1, Len(history[b]))
  <1>1. PICK e \in Event :
             /\ history' = [history EXCEPT ![a] = Append(history[a], e)]
             /\ agents' = [agents EXCEPT ![a] =
                   [rec EXCEPT !.stream =
                      LastN(Append(history[a], e), MaxEvents)]]
    BY Emission
  <1>2. /\ a \in Configured /\ history \in [Configured -> Seq(Event)]
        /\ agents \in [DOMAIN agents -> AgentRuntimeState]
    BY DEF IInv, TypeOK
  <1>3. \A b \in Configured :
          history'[b] \in {history[b], Append(history[b], e)}
    BY <1>1, <1>2
  <1>4. \A b \in Configured :
          history[b] = SubSeq(history'[b], 1, Len(history[b]))
    <2> SUFFICES ASSUME NEW b \in Configured
                 PROVE  history[b] = SubSeq(history'[b], 1, Len(history[b]))
      OBVIOUS
    <2>1. /\ history[b] = SubSeq(history[b], 1, Len(history[b]))
          /\ history[b] = SubSeq(Append(history[b], e), 1, Len(history[b]))
      BY <1>2, PrefixOfAppend
    <2> QED BY <1>3, <2>1
  <1>5. DOMAIN agents' = DOMAIN agents
    BY <1>1, <1>2
  <1> QED BY <1>4, <1>5

(* A step without an emission that keeps every entry.                      *)
LEMMA SilentStepExtends ==
    ASSUME IInv, UNCHANGED history
    PROVE  \A b \in Configured :
             history[b] = SubSeq(history'[b], 1, Len(history[b]))
  <1> SUFFICES ASSUME NEW b \in Configured
               PROVE  history[b] = SubSeq(history'[b], 1, Len(history[b]))
    OBVIOUS
  <1>1. history[b] \in Seq(Event) /\ history'[b] = history[b]
    BY DEF IInv, TypeOK
  <1>2. \A i \in 1 .. Len(history[b]) : history[b][i] \in Event
    BY <1>1, ElementOfSeq
  <1>3. Len(history[b]) \in Nat
    BY <1>1, LenProperties
  <1>4. /\ SubSeq(history[b], 1, Len(history[b])) \in Seq(Event)
        /\ Len(SubSeq(history[b], 1, Len(history[b]))) = Len(history[b])
        /\ \A i \in 1 .. Len(history[b]) :
             SubSeq(history[b], 1, Len(history[b]))[i] = history[b][i]
    <2>1. 1 \in 1 .. Len(history[b]) + 1
      BY <1>3
    <2> QED BY <1>1, <1>3, <2>1, SuffixProperties
  <1> QED BY <1>1, <1>4, SeqEqual

(* No call removes an agent or rewrites what was published for it, and a   *)
(* registration or a launch leaves every agent it finds as it was.         *)
THEOREM NoEntryIsLost == SupervisorSpec => EntriesAreKept
  <1> DEFINE Kept ==
        /\ DOMAIN agents \subseteq DOMAIN agents'
        /\ LaunchAllAgents \/ EnsureAgentsRegistered =>
             \A a \in DOMAIN agents : agents'[a] = agents[a]
        /\ \A a \in Configured :
             history[a] = SubSeq(history'[a], 1, Len(history[a]))
  <1>1. IInv /\ [SupervisorNext]_supervisorVars => [Kept]_supervisorVars
    <2> SUFFICES ASSUME IInv, SupervisorNext PROVE Kept
      BY DEF IInv
    <2>0. /\ agents \in [DOMAIN agents -> AgentRuntimeState]
          /\ DOMAIN agents \subseteq Configured
          /\ \A a \in DOMAIN agents : agents[a] \in AgentRuntimeState
      BY DEF IInv, TypeOK
    <2>1. LaunchAllAgents \/ EnsureAgentsRegistered =>
             \A a \in DOMAIN agents : agents'[a] = agents[a]
      BY DEF LaunchAllAgents, EnsureAgentsRegistered, Launched, Registered
    <2>2. ASSUME DOMAIN agents \subseteq DOMAIN agents', UNCHANGED history
          PROVE  Kept
      BY <2>1, <2>2, SilentStepExtends
    <2>3. CASE EnsureAgentsRegistered
      BY <2>2, <2>3 DEF EnsureAgentsRegistered, Registered
    <2>4. CASE LaunchAllAgents
      BY <2>2, <2>4 DEF LaunchAllAgents, Launched, Registered
    <2>5. ASSUME NEW a \in Configured, EnsureAgentRuntimeState(a) PROVE Kept
      BY <2>2, <2>5 DEF EnsureAgentRuntimeState, Registered
    <2>6. ASSUME NEW a \in Configured, NEW error \in Errors \cup {NoError},
                 MarkAgentFailed(a, error)
          PROVE  Kept
      <3> DEFINE rec == [agents[a] EXCEPT !.status = "Failed", !.last_error = error]
      <3>1. a \in DOMAIN agents /\ AppendRuntimeEvent(a, rec, "AgentFailed", error)
        BY <2>6 DEF MarkAgentFailed
      <3>2. rec \in AgentRuntimeState /\ rec.stream = agents[a].stream
        BY <2>0, <3>1 DEF AgentRuntimeState, AgentStatus
      <3>3. "AgentFailed" \in EventTypes
        BY DEF EventTypes, LifecycleTypes
      <3> HIDE DEF rec
      <3> QED BY <2>1, <3>1, <3>2, <3>3, EmissionExtends
    <2>7. ASSUME NEW a \in Configured, RestartAgent(a) PROVE Kept
      <3> DEFINE rec == [agents[a] EXCEPT !.status = "Idle",
                           !.last_error = NoError, !.handle = TRUE]
      <3>1. a \in DOMAIN agents /\ AppendRuntimeEvent(a, rec, "AgentRestarted", NoError)
        BY <2>7 DEF RestartAgent
      <3>2. rec \in AgentRuntimeState /\ rec.stream = agents[a].stream
        BY <2>0, <3>1 DEF AgentRuntimeState, AgentStatus
      <3>3. "AgentRestarted" \in EventTypes
        BY DEF EventTypes, LifecycleTypes
      <3> HIDE DEF rec
      <3> QED BY <2>1, <3>1, <3>2, <3>3, EmissionExtends
    <2>8. ASSUME NEW a \in Configured, RecordUnreadMail(a) PROVE Kept
      <3>1. a \in DOMAIN agents
            /\ AppendRuntimeEvent(a, agents[a], "MailReceived", NoError)
        BY <2>8 DEF RecordUnreadMail
      <3>2. "MailReceived" \in EventTypes
        BY DEF EventTypes
      <3> QED BY <2>0, <2>1, <3>1, <3>2, EmissionExtends
    <2>9. ASSUME NEW a \in Configured, NEW status \in AgentStatus,
                 SetAgentStatus(a, status)
          PROVE  Kept
      BY <2>0, <2>2, <2>9 DEF SetAgentStatus
    <2> QED BY <2>3, <2>4, <2>5, <2>6, <2>7, <2>8, <2>9 DEF SupervisorNext
  <1> QED BY <1>1, InvIsInvariant, PTL DEF SupervisorSpec, EntriesAreKept

(* What EntryFollowsEvents says of agent a in one step.                    *)
Followed(a) ==
    \/ /\ history'[a] = history[a]
       /\ \/ agents'[a] = agents[a]
          \/ \E status \in AgentStatus : SetAgentStatus(a, status)
    \/ LET e == history'[a][Len(history'[a])]
       IN  /\ history'[a] = Append(history[a], e)
           /\ Tells(e, agents[a], agents'[a])

(* An emission whose event tells the new record of its agent.              *)
LEMMA EmissionIsFollowed ==
    ASSUME IInv, NEW a \in DOMAIN agents, NEW rec \in AgentRuntimeState,
           rec.stream = agents[a].stream,
           NEW type \in EventTypes, NEW error \in Errors \cup {NoError},
           AppendRuntimeEvent(a, rec, type, error),
           \A e \in Event, t \in Seq(Event) :
             e.type = type /\ e.error = error
             => Tells(e, agents[a], [rec EXCEPT !.stream = t])
    PROVE  \A b \in DOMAIN agents : Followed(b)
  <1>1. PICK e \in Event :
             /\ e.type = type /\ e.error = error
             /\ history' = [history EXCEPT ![a] = Append(history[a], e)]
             /\ agents' = [agents EXCEPT ![a] =
                   [rec EXCEPT !.stream =
                      LastN(Append(history[a], e), MaxEvents)]]
    BY Emission
  <1>2. /\ a \in Configured /\ history \in [Configured -> Seq(Event)]
        /\ DOMAIN agents \subseteq Configured
        /\ agents \in [DOMAIN agents -> AgentRuntimeState]
    BY DEF IInv, TypeOK
  <1> DEFINE t == LastN(Append(history[a], e), MaxEvents)
  <1>3. t \in Seq(Event)
    <2> DEFINE h == Append(history[a], e)
    <2>1. h \in Seq(Event) /\ MaxEvents \in Nat
      BY <1>2, MaxEventsPositive
    <2> HIDE DEF h
    <2>2. LastN(h, MaxEvents) \in Seq(Event)
      BY <2>1, LastNProperties
    <2> QED BY <2>2 DEF h
  <1>4. Tells(e, agents[a], [rec EXCEPT !.stream = t])
    BY <1>1, <1>3
  <1>5. /\ history'[a] = Append(history[a], e)
        /\ history'[a][Len(history'[a])] = e
        /\ agents'[a] = [rec EXCEPT !.stream = t]
    BY <1>1, <1>2
  <1>6. Followed(a)
    BY <1>4, <1>5 DEF Followed
  <1>7. ASSUME NEW b \in DOMAIN agents, b # a PROVE Followed(b)
    <2>1. history'[b] = history[b] /\ agents'[b] = agents[b]
      BY <1>1, <1>2, <1>7
    <2> QED BY <2>1 DEF Followed
  <1> QED BY <1>6, <1>7

(* Whatever order failures, restarts, mail and set_agent_status come in,   *)
(* an entry changes with an event that tells the change, or only in its    *)
(* status.                                                                 *)
THEOREM EntriesFollowTheirEvents == SupervisorSpec => EntryFollowsEvents
  <1>1. IInv /\ [SupervisorNext]_supervisorVars
          => [\A a \in DOMAIN agents : Followed(a)]_supervisorVars
    <2> SUFFICES ASSUME IInv, SupervisorNext
                 PROVE  \A a \in DOMAIN agents : Followed(a)
      OBVIOUS
    <2>0. /\ agents \in [DOMAIN agents -> AgentRuntimeState]
          /\ \A a \in DOMAIN agents : agents[a] \in AgentRuntimeState
      BY DEF IInv, TypeOK
    <2>1. ASSUME UNCHANGED history,
                 \A a \in DOMAIN agents : agents'[a] = agents[a]
          PROVE  \A a \in DOMAIN agents : Followed(a)
      BY <2>1 DEF Followed
    <2>2. CASE EnsureAgentsRegistered
      BY <2>1, <2>2 DEF EnsureAgentsRegistered, Registered
    <2>3. CASE LaunchAllAgents
      BY <2>1, <2>3 DEF LaunchAllAgents, Launched, Registered
    <2>4. ASSUME NEW a \in Configured, EnsureAgentRuntimeState(a)
          PROVE  \A b \in DOMAIN agents : Followed(b)
      BY <2>1, <2>4 DEF EnsureAgentRuntimeState, Registered
    <2>5. ASSUME NEW a \in Configured, NEW error \in Errors \cup {NoError},
                 MarkAgentFailed(a, error)
          PROVE  \A b \in DOMAIN agents : Followed(b)
      <3> DEFINE rec == [agents[a] EXCEPT !.status = "Failed", !.last_error = error]
      <3>1. a \in DOMAIN agents /\ AppendRuntimeEvent(a, rec, "AgentFailed", error)
        BY <2>5 DEF MarkAgentFailed
      <3>2. rec \in AgentRuntimeState /\ rec.stream = agents[a].stream
        BY <2>0, <3>1 DEF AgentRuntimeState, AgentStatus
      <3>3. "AgentFailed" \in EventTypes
        BY DEF EventTypes, LifecycleTypes
      <3>4. \A e \in Event, t \in Seq(Event) :
              e.type = "AgentFailed" /\ e.error = error
              => Tells(e, agents[a], [rec EXCEPT !.stream = t])
        BY <2>0, <3>1 DEF Tells, AgentRuntimeState
      <3> HIDE DEF rec
      <3> QED BY <3>1, <3>2, <3>3, <3>4, EmissionIsFollowed
    <2>6. ASSUME NEW a \in Configured, RestartAgent(a)
          PROVE  \A b \in DOMAIN agents : Followed(b)
      <3> DEFINE rec == [agents[a] EXCEPT !.status = "Idle",
                           !.last_error = NoError, !.handle = TRUE]
      <3>1. a \in DOMAIN agents /\ AppendRuntimeEvent(a, rec, "AgentRestarted", NoError)
        BY <2>6 DEF RestartAgent
      <3>2. rec \in AgentRuntimeState /\ rec.stream = agents[a].stream
        BY <2>0, <3>1 DEF AgentRuntimeState, AgentStatus
      <3>3. "AgentRestarted" \in EventTypes
        BY DEF EventTypes, LifecycleTypes
      <3>4. \A e \in Event, t \in Seq(Event) :
              e.type = "AgentRestarted" /\ e.error = NoError
              => Tells(e, agents[a], [rec EXCEPT !.stream = t])
        BY <2>0, <3>1 DEF Tells, AgentRuntimeState
      <3> HIDE DEF rec
      <3> QED BY <3>1, <3>2, <3>3, <3>4, EmissionIsFollowed
    <2>7. ASSUME NEW a \in Configured, RecordUnreadMail(a)
          PROVE  \A b \in DOMAIN agents : Followed(b)
      <3>1. a \in DOMAIN agents
            /\ AppendRuntimeEvent(a, agents[a], "MailReceived", NoError)
        BY <2>7 DEF RecordUnreadMail
      <3>2. "MailReceived" \in EventTypes
        BY DEF EventTypes
      <3>3. \A e \in Event, t \in Seq(Event) :
              e.type = "MailReceived" /\ e.error = NoError
              => Tells(e, agents[a], [agents[a] EXCEPT !.stream = t])
        BY <2>0, <3>1 DEF Tells, AgentRuntimeState
      <3> QED BY <2>0, <3>1, <3>2, <3>3, EmissionIsFollowed
    <2>8. ASSUME NEW a \in Configured, NEW status \in AgentStatus,
                 SetAgentStatus(a, status)
          PROVE  \A b \in DOMAIN agents : Followed(b)
      <3>1. \A b \in DOMAIN agents : history'[b] = history[b]
                                    /\ (b # a => agents'[b] = agents[b])
        BY <2>0, <2>8 DEF SetAgentStatus
      <3>2. Followed(a)
        BY <2>8, <3>1 DEF Followed, SetAgentStatus
      <3> QED BY <3>1, <3>2 DEF Followed
    <2> QED BY <2>2, <2>3, <2>4, <2>5, <2>6, <2>7, <2>8 DEF SupervisorNext
  <1>2. [\A a \in DOMAIN agents : Followed(a)]_supervisorVars
          => [\A a \in DOMAIN agents :
                \/ /\ history'[a] = history[a]
                   /\ \/ agents'[a] = agents[a]
                      \/ \E status \in AgentStatus : SetAgentStatus(a, status)
                \/ LET e == history'[a][Len(history'[a])]
                   IN  /\ history'[a] = Append(history[a], e)
                       /\ Tells(e, agents[a], agents'[a])]_supervisorVars
    BY DEF Followed
  <1> QED BY <1>1, <1>2, InvIsInvariant, PTL DEF SupervisorSpec, EntryFollowsEvents
=============================================================================
