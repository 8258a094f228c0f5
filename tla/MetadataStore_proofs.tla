------------------------ MODULE MetadataStore_proofs ------------------------
(***************************************************************************)
(* For every number of processes and agents, and wherever they are killed  *)
(* or lose power: nobody finds half a file; and as long as commands do not *)
(* overlap and the power stays on, nobody works on a swarm that is not the *)
(* one on disk.                                                            *)
(***************************************************************************)
EXTENDS MetadataStore, SequenceTheorems, TLAPS

States == Live \cup {"idle", "refused", "failed", "dead"}

(* The process p writes to a file of the store, what it has put into its   *)
(* temporary file is what belongs there, and the file is whole and synced  *)
(* by the time it is renamed.                                              *)
WriterInv(p) ==
    pc[p] \in Writing =>
      /\ conf[p] \in [swarm_id : SwarmIds, agents : 0 .. MaxAgents]
      /\ todo[p] \in Seq(Files) /\ todo[p] # << >>
      /\ pc[p] # "mkstemp" => temp[p] \in Written(Head(todo[p]))
      /\ pc[p] \in {"fsync", "replace"} => temp[p].whole
      /\ pc[p] = "replace" => temp[p].synced

(* A name never had a version that was renamed into place unfinished: it   *)
(* is the fsync before the rename that makes this survive a power failure. *)
StoreInv ==
    /\ pc \in [Processes -> States]
    /\ conf = [p \in Processes |-> conf[p]] /\ todo = [p \in Processes |-> todo[p]]
    /\ temp = [p \in Processes |-> temp[p]]
    /\ files = [f \in Files |-> files[f]] /\ versions = [f \in Files |-> versions[f]]
    /\ \A p \in Processes : WriterInv(p)
    /\ \A f \in Files :
         /\ files[f] \in versions[f]
         /\ \A g \in versions[f] :
              g = Absent \/ (g \in Written(f) /\ g.whole /\ g.synced)

(* What the temporary file of a writer becomes when it is renamed.         *)
LEMMA ReadReplaced ==
    ASSUME StoreInv, NEW p \in Processes, pc[p] = "replace"
    PROVE  /\ Head(todo[p]) \in Files
           /\ temp[p] \in Written(Head(todo[p]))
           /\ temp[p].whole /\ temp[p].synced
           /\ Read(temp[p]) = temp[p].data
           /\ temp[p].data \in Content[Head(todo[p])]
  <1>1. /\ todo[p] \in Seq(Files) /\ todo[p] # << >>
        /\ temp[p] \in Written(Head(todo[p])) /\ temp[p].whole /\ temp[p].synced
    BY DEF StoreInv, WriterInv, Writing
  <1>2. Head(todo[p]) \in Files
    BY <1>1
  <1>3. temp[p] # Absent
    BY <1>1, <1>2, AbsentIsNoFile
  <1> QED BY <1>1, <1>2, <1>3 DEF Read, Written

(* A power failure finds every version whole.                              *)
LEMMA SurvivorsAreVersions ==
    ASSUME StoreInv, PowerFails
    PROVE  /\ files' = [f \in Files |-> files'[f]]
           /\ \A f \in Files : files'[f] \in versions[f]
  <1> DEFINE left == [f \in Files |-> UNION {Survivors(g) : g \in versions[f]}]
  <1>1. files' \in {g \in [Files -> UNION {left[f] : f \in Files}] :
                         \A f \in Files : g[f] \in left[f]}
    BY DEF PowerFails
  <1>2. \A f \in Files : \A g \in versions[f] : Survivors(g) = {g}
    BY DEF StoreInv, Survivors
  <1>3. \A f \in Files : left[f] = versions[f]
    BY <1>2
  <1> HIDE DEF left
  <1> QED BY <1>1, <1>3

LEMMA InitEstablishesStoreInv == Init => StoreInv
  <1> SUFFICES ASSUME Init PROVE StoreInv
    OBVIOUS
  <1>1. /\ pc \in [Processes -> States]
        /\ \A p \in Processes : pc[p] = "idle"
    BY DEF Init, States
  <1>2. \A p \in Processes : WriterInv(p)
    BY <1>1 DEF WriterInv, Writing
  <1>3. /\ conf = [p \in Processes |-> conf[p]]
        /\ todo = [p \in Processes |-> todo[p]]
        /\ temp = [p \in Processes |-> temp[p]]
        /\ files = [f \in Files |-> files[f]]
        /\ versions = [f \in Files |-> versions[f]]
    BY DEF Init
  <1>4. \A f \in Files : files[f] = Absent /\ versions[f] = {Absent}
    BY DEF Init
  <1> QED BY <1>1, <1>2, <1>3, <1>4 DEF StoreInv

(* What a step of process p that leaves the named files alone has to show. *)
LEMMA WriterSteps ==
    ASSUME StoreInv, NEW p \in Processes, NEW where \in States,
           pc' = [pc EXCEPT ![p] = where],
           conf' = [q \in Processes |-> conf'[q]],
           todo' = [q \in Processes |-> todo'[q]],
           temp' = [q \in Processes |-> temp'[q]],
           \A q \in Processes \ {p} :
             conf'[q] = conf[q] /\ todo'[q] = todo[q] /\ temp'[q] = temp[q],
           WriterInv(p)',
           UNCHANGED << files, versions >>
    PROVE  StoreInv'
  <1>1. pc' \in [Processes -> States]
    BY DEF StoreInv
  <1>2. ASSUME NEW q \in Processes, q # p PROVE WriterInv(q)'
    BY <1>2 DEF StoreInv, WriterInv
  <1>3. \A q \in Processes : WriterInv(q)'
    BY <1>2
  <1> QED BY <1>1, <1>3 DEF StoreInv

LEMMA NextKeepsStoreInv == StoreInv /\ [Next]_storeVars => StoreInv'
  <1> SUFFICES ASSUME StoreInv, [Next]_storeVars PROVE StoreInv'
    OBVIOUS
  <1>0. /\ pc \in [Processes -> States]
        /\ conf = [p \in Processes |-> conf[p]] /\ todo = [p \in Processes |-> todo[p]]
        /\ temp = [p \in Processes |-> temp[p]]
        /\ \A p \in Processes : WriterInv(p)
    BY DEF StoreInv
  <1>1. ASSUME NEW p \in Processes, NEW swarm_id \in SwarmIds, NEW n \in 0 .. MaxAgents,
               CreateStarts(p, swarm_id, n)
        PROVE  StoreInv'
    <2>1. /\ pc'[p] = "mkstemp" /\ todo'[p] = Plan(n)
          /\ conf'[p] = [swarm_id |-> swarm_id, agents |-> n]
      BY <1>0, <1>1 DEF CreateStarts
    <2>2. Plan(n) \in Seq(Files) /\ Plan(n) # << >>
      BY MaxAgentsNat DEF Plan, Files
    <2>3. WriterInv(p)'
      BY <2>1, <2>2 DEF WriterInv
    <2>4. "mkstemp" \in States
      BY DEF States, Live, Busy, Writing
    <2> QED BY <1>0, <1>1, <2>3, <2>4, WriterSteps DEF CreateStarts
  <1>2. ASSUME NEW p \in Processes, NEW where \in States \ Writing,
               pc' = [pc EXCEPT ![p] = where],
               conf' = [q \in Processes |-> conf'[q]], UNCHANGED todo,
               temp' = [q \in Processes |-> temp'[q]],
               \A q \in Processes \ {p} : conf'[q] = conf[q] /\ temp'[q] = temp[q],
               UNCHANGED << files, versions >>
        PROVE  StoreInv'
    <2>1. WriterInv(p)'
      BY <1>0, <1>2 DEF WriterInv
    <2> QED BY <1>0, <1>2, <2>1, WriterSteps
  <1>3. ASSUME NEW p \in Processes,
               \/ CreateRefused(p) \/ ResumeRefused(p) \/ WriteRaises(p)
               \/ Load(p) \/ LoadRaises(p) \/ Dies(p)
               \/ \E swarm_id \in SwarmIds : ResumeStarts(p, swarm_id)
        PROVE  StoreInv'
    <2>1. {"refused", "failed", "running", "dead", "load"} \subseteq States \ Writing
      BY DEF States, Live, Busy, Writing
    <2> QED BY <1>0, <1>2, <1>3, <2>1 DEF CreateRefused, ResumeRefused, WriteRaises,
            Load, LoadRaises, Dies, ResumeStarts
  <1>4. ASSUME NEW p \in Processes, MakeTemp(p) PROVE StoreInv'
    <2>1. /\ conf[p] \in [swarm_id : SwarmIds, agents : 0 .. MaxAgents]
          /\ todo[p] \in Seq(Files) /\ todo[p] # << >> /\ Head(todo[p]) \in Files
      BY <1>0, <1>4 DEF MakeTemp, WriterInv, Writing
    <2>2. Rendered(p, Head(todo[p])) \in Content[Head(todo[p])]
      BY <2>1 DEF Rendered, Content, SwarmMetadata, AgentMetadata
    <2>3. /\ pc'[p] = "dump" /\ temp'[p] \in Written(Head(todo[p]))
          /\ todo' = todo /\ conf' = conf
      BY <1>0, <1>4, <2>2 DEF MakeTemp, Written
    <2>4. WriterInv(p)'
      BY <2>1, <2>3 DEF WriterInv
    <2>5. "dump" \in States
      BY DEF States, Live, Busy, Writing
    <2> QED BY <1>0, <1>4, <2>4, <2>5, WriterSteps DEF MakeTemp
  <1>5. ASSUME NEW p \in Processes, WriteTemp(p) \/ SyncTemp(p) PROVE StoreInv'
    <2>1. /\ conf[p] \in [swarm_id : SwarmIds, agents : 0 .. MaxAgents]
          /\ todo[p] \in Seq(Files) /\ todo[p] # << >>
          /\ temp[p] \in Written(Head(todo[p]))
          /\ pc[p] = "fsync" => temp[p].whole
      BY <1>0, <1>5 DEF WriteTemp, SyncTemp, WriterInv, Writing
    <2>2. CASE WriteTemp(p)
      <3>1. /\ pc'[p] = "fsync" /\ temp'[p] = [temp[p] EXCEPT !.whole = TRUE]
            /\ todo' = todo /\ conf' = conf
        BY <1>0, <2>2 DEF WriteTemp
      <3>2. WriterInv(p)'
        BY <2>1, <3>1 DEF WriterInv, Written
      <3>3. "fsync" \in States
        BY DEF States, Live, Busy, Writing
      <3> QED BY <1>0, <2>2, <3>2, <3>3, WriterSteps DEF WriteTemp
    <2>3. CASE SyncTemp(p)
      <3>1. /\ pc[p] = "fsync" /\ pc'[p] = "replace"
            /\ temp'[p] = [temp[p] EXCEPT !.synced = TRUE]
            /\ todo' = todo /\ conf' = conf
        BY <1>0, <2>3 DEF SyncTemp
      <3>2. WriterInv(p)'
        BY <2>1, <3>1 DEF WriterInv, Written
      <3>3. "replace" \in States
        BY DEF States, Live, Busy, Writing
      <3> QED BY <1>0, <2>3, <3>2, <3>3, WriterSteps DEF SyncTemp
    <2> QED BY <1>5, <2>2, <2>3
  <1>6. ASSUME NEW p \in Processes, Replace(p) PROVE StoreInv'
    <2> DEFINE f == Head(todo[p])
    <2>1. /\ f \in Files /\ temp[p] \in Written(f)
          /\ temp[p].whole /\ temp[p].synced
      BY <1>6, ReadReplaced DEF Replace
    <2>2. /\ files' = [files EXCEPT ![f] = temp[p]]
          /\ versions' = [versions EXCEPT ![f] = @ \cup {temp[p]}]
          /\ temp' = [temp EXCEPT ![p] = Absent]
          /\ todo' = [todo EXCEPT ![p] = Tail(todo[p])] /\ conf' = conf
          /\ \/ pc' = [pc EXCEPT ![p] = "running"]
             \/ Tail(todo[p]) # << >> /\ pc' = [pc EXCEPT ![p] = "mkstemp"]
      BY <1>6 DEF Replace
    <2>3. /\ conf[p] \in [swarm_id : SwarmIds, agents : 0 .. MaxAgents]
          /\ todo[p] \in Seq(Files) /\ todo[p] # << >>
      BY <1>0, <1>6 DEF Replace, WriterInv, Writing
    <2>4. WriterInv(p)'
      <3>1. Tail(todo[p]) \in Seq(Files)
        BY <2>3
      <3>2. todo'[p] = Tail(todo[p])
        BY <1>0, <2>2
      <3>3. pc'[p] = "running" \/ (pc'[p] = "mkstemp" /\ Tail(todo[p]) # << >>)
        BY <1>0, <2>2
      <3> QED BY <2>2, <2>3, <3>1, <3>2, <3>3 DEF WriterInv, Writing
    <2>5. ASSUME NEW q \in Processes, q # p PROVE WriterInv(q)'
      BY <1>0, <2>2, <2>5 DEF WriterInv
    <2>6. pc' \in [Processes -> States]
      BY <1>0, <2>2 DEF States, Live, Busy, Writing
    <2>7. \A g \in Files :
            /\ files'[g] \in versions'[g]
            /\ \A v \in versions'[g] :
                 v = Absent \/ (v \in Written(g) /\ v.whole /\ v.synced)
      BY <2>1, <2>2 DEF StoreInv
    <2>8. /\ files' = [g \in Files |-> files'[g]]
          /\ versions' = [g \in Files |-> versions'[g]]
          /\ todo' = [q \in Processes |-> todo'[q]]
          /\ temp' = [q \in Processes |-> temp'[q]]
      BY <1>0, <2>2 DEF StoreInv
    <2>9. \A q \in Processes : WriterInv(q)'
      BY <2>4, <2>5
    <2> QED BY <1>0, <2>2, <2>6, <2>7, <2>8, <2>9 DEF StoreInv
  <1>7. CASE PowerFails
    <2>1. /\ files' = [f \in Files |-> files'[f]]
          /\ \A f \in Files : files'[f] \in versions[f]
      BY <1>7, SurvivorsAreVersions
    <2>2. /\ versions' = [f \in Files |-> {files'[f]}]
          /\ pc' = [p \in Processes |-> IF pc[p] \in Live THEN "dead" ELSE pc[p]]
          /\ conf' = conf /\ todo' = todo /\ temp' = temp
      BY <1>7 DEF PowerFails
    <2>3. pc' \in [Processes -> States]
      BY <1>0, <2>2 DEF States
    <2>4. \A p \in Processes : pc'[p] \notin Writing
      BY <1>0, <2>2 DEF States, Live, Busy, Writing
    <2>5. \A p \in Processes : WriterInv(p)'
      BY <2>4 DEF WriterInv
    <2>6. \A f \in Files :
            /\ files'[f] \in versions'[f]
            /\ \A g \in versions'[f] :
                 g = Absent \/ (g \in Written(f) /\ g.whole /\ g.synced)
      BY <2>1, <2>2 DEF StoreInv
    <2> QED BY <1>0, <2>1, <2>2, <2>3, <2>5, <2>6 DEF StoreInv
  <1>8. CASE UNCHANGED storeVars
    BY <1>8 DEF storeVars, StoreInv, WriterInv
  <1> QED BY <1>1, <1>3, <1>4, <1>5, <1>6, <1>7, <1>8 DEF Next

LEMMA StoreInvIsInvariant == Spec => []StoreInv
  BY InitEstablishesStoreInv, NextKeepsStoreInv, PTL DEF Spec

-----------------------------------------------------------------------------
(* What a reader finds, and what a power failure may leave it to find.     *)
found   == [f \in Files |-> Read(files[f])]
may     == [f \in Files |-> {Read(g) : g \in versions[f]}]

LEMMA StepsOfTheStore ==
    StoreInv /\ [Next]_storeVars => [Atomic!Next]_Atomic!storeVars
  <1> SUFFICES ASSUME StoreInv, [Next]_storeVars
               PROVE  [Atomic!Next]_Atomic!storeVars
    OBVIOUS
  <1>1. ASSUME UNCHANGED << files, versions >> PROVE [Atomic!Next]_Atomic!storeVars
    <2>1. UNCHANGED << found, may >>
      BY <1>1 DEF found, may
    <2> QED BY <2>1 DEF Atomic!storeVars, found, may
  <1>2. ASSUME NEW p \in Processes, Replace(p) PROVE Atomic!Next
    <2> DEFINE f == Head(todo[p])
    <2>1. /\ f \in Files /\ Read(temp[p]) = temp[p].data
          /\ temp[p].data \in Content[f]
      BY <1>2, ReadReplaced DEF Replace
    <2>2. /\ files' = [files EXCEPT ![f] = temp[p]]
          /\ versions' = [versions EXCEPT ![f] = @ \cup {temp[p]}]
          /\ files = [g \in Files |-> files[g]]
          /\ versions = [g \in Files |-> versions[g]]
      BY <1>2 DEF Replace, StoreInv
    <2> HIDE DEF f
    <2>3. found' = [found EXCEPT ![f] = temp[p].data]
      BY <2>1, <2>2 DEF found
    <2>4. may' = [may EXCEPT ![f] = @ \cup {temp[p].data}]
      <3>1. may'[f] = may[f] \cup {temp[p].data}
        BY <2>1, <2>2 DEF may
      <3>2. \A g \in Files : g # f => may'[g] = may[g]
        BY <2>2 DEF may
      <3> QED BY <2>1, <3>1, <3>2 DEF may
    <2>5. \E n \in Files : Atomic!Write(n)
      BY <2>1, <2>3, <2>4 DEF Atomic!Write, found, may
    <2> QED BY <2>5 DEF Atomic!Next
  <1>3. ASSUME PowerFails PROVE Atomic!Next
    <2>1. /\ files' = [f \in Files |-> files'[f]]
          /\ \A f \in Files : files'[f] \in versions[f]
          /\ versions' = [f \in Files |-> {files'[f]}]
      BY <1>3, SurvivorsAreVersions DEF PowerFails
    <2>2. \A f \in Files : found'[f] \in may[f]
      BY <2>1 DEF found, may
    <2>3. may' = [f \in Files |-> {found'[f]}]
      BY <2>1 DEF found, may
    <2>4. found' = [f \in Files |-> found'[f]]
      BY DEF found
    <2> QED BY <2>2, <2>3, <2>4 DEF Atomic!Next, Atomic!PowerFails, found, may
  <1>4. CASE \E p \in Processes :
              \/ \E swarm_id \in SwarmIds :
                   \/ \E n \in 0 .. MaxAgents : CreateStarts(p, swarm_id, n)
                   \/ ResumeStarts(p, swarm_id)
              \/ CreateRefused(p) \/ ResumeRefused(p)
              \/ MakeTemp(p) \/ WriteTemp(p) \/ SyncTemp(p) \/ WriteRaises(p)
              \/ Load(p) \/ LoadRaises(p) \/ Dies(p)
    <2>1. UNCHANGED << files, versions >>
      BY <1>4 DEF CreateStarts, ResumeStarts, CreateRefused, ResumeRefused, MakeTemp,
         WriteTemp, SyncTemp, WriteRaises, Load, LoadRaises, Dies
    <2> QED BY <2>1, <1>1
  <1>5. CASE UNCHANGED storeVars
    BY <1>1, <1>5 DEF storeVars
  <1> QED BY <1>2, <1>3, <1>4, <1>5 DEF Next

(* The metadata store implements the atomic store: whatever processes do   *)
(* at the same time, wherever they fail, are killed or lose power, every   *)
(* file that can be found under its name is one that was written whole.    *)
THEOREM WritesAreAtomic == Spec => AtomicContract
  <1>1. Init => Atomic!Init
    <2> SUFFICES ASSUME Init PROVE Atomic!Init
      OBVIOUS
    <2>1. \A f \in Files : found[f] = Absent /\ may[f] = {Absent}
      BY DEF Init, found, may, Read
    <2> QED BY <2>1 DEF Atomic!Init, found, may
  <1> QED BY <1>1, StoreInvIsInvariant, StepsOfTheStore, PTL
          DEF Spec, AtomicContract, Atomic!Spec

-----------------------------------------------------------------------------
(* What is on disk while a process writes or runs.                         *)

(* The files from k on, of a swarm of n agents, in the order of Plan.      *)
From(k, n) == [i \in 1 .. n + 1 - k |-> k + i - 1]

LEMMA FromIsPlan ==
    ASSUME NEW n \in Nat, NEW k \in 0 .. n
    PROVE  /\ Plan(n) = From(0, n)
           /\ From(k, n) # << >> /\ Head(From(k, n)) = k
           /\ Tail(From(k, n)) = IF k = n THEN << >> ELSE From(k + 1, n)
  <1> DEFINE s == From(k, n)
             t == From(k + 1, n)
  <1>1. Plan(n) = From(0, n)
    BY DEF Plan, From
  <1>2. /\ s \in Seq(Nat) /\ Len(s) = n + 1 - k
        /\ \A i \in 1 .. Len(s) : s[i] = k + i - 1
    BY DEF From
  <1>3. /\ t \in Seq(Nat) /\ Len(t) = n - k
        /\ \A i \in 1 .. Len(t) : t[i] = k + i
    BY DEF From
  <1> HIDE DEF s, t
  <1>4. s # << >> /\ s[1] = k
    BY <1>2, EmptySeq
  <1>5. /\ Head(s) = s[1] /\ Tail(s) \in Seq(Nat) /\ Len(Tail(s)) = Len(s) - 1
        /\ \A i \in 1 .. Len(Tail(s)) : Tail(s)[i] = s[i + 1]
    BY <1>2, <1>4, HeadTailProperties
  <1>6. Tail(s) = IF k = n THEN << >> ELSE t
    <2>1. CASE k = n
      <3>1. Tail(s) \in Seq(Nat) /\ Len(Tail(s)) = 0
        BY <2>1, <1>2, <1>5
      <3>2. Tail(s) = << >>
        BY <3>1, EmptySeq
      <3> QED BY <2>1, <3>2
    <2>2. CASE k # n
      <3>1. Len(Tail(s)) = Len(t)
        BY <1>2, <1>3, <1>5
      <3>2. \A i \in 1 .. Len(t) : Tail(s)[i] = t[i]
        BY <1>2, <1>3, <1>5, <3>1
      <3> QED BY <2>2, <3>1, <3>2, <1>3, <1>5, SeqEqual
    <2> QED BY <2>1, <2>2
  <1> QED BY <1>1, <1>4, <1>5, <1>6 DEF s, t

(* A writer has what remains of its plan before it and the files it has    *)
(* done with on disk; a runner has all its files on disk.                  *)
ProgressOf(p) ==
    /\ pc[p] \in Live => conf[p] \in [swarm_id : SwarmIds, agents : 0 .. MaxAgents]
    /\ pc[p] = "load" => conf[p].agents = 0
    /\ pc[p] \in Writing =>
         /\ Head(todo[p]) \in 0 .. conf[p].agents
         /\ todo[p] = From(Head(todo[p]), conf[p].agents)
         /\ \A f \in Files : f < Head(todo[p]) => files[f] # Absent
    /\ pc[p] \in Writing \ {"mkstemp"} => temp[p].data = Rendered(p, Head(todo[p]))
    /\ pc[p] = "running" => \A f \in Files : f <= conf[p].agents => files[f] # Absent

DiskInv == StoreInv /\ DOMAIN holds = Processes /\ \A p \in Processes : ProgressOf(p)

(* The steps of others keep what is on disk there, short of a power        *)
(* failure, which no process survives.                                     *)
LEMMA OthersKeepProgress ==
    ASSUME NEW q \in Processes, ProgressOf(q),
           pc'[q] = pc[q], conf'[q] = conf[q], todo'[q] = todo[q], temp'[q] = temp[q],
           \A f \in Files : files[f] # Absent => files'[f] # Absent
    PROVE  ProgressOf(q)'
  BY DEF ProgressOf, Rendered

(* No step changes for which processes there is a holds.                   *)
LEMMA HoldsIsKept == [Next]_storeVars => DOMAIN holds' = DOMAIN holds
  <1>1. CASE \E p \in Processes :
          \/ \E swarm_id \in SwarmIds :
               \/ \E n \in 0 .. MaxAgents : CreateStarts(p, swarm_id, n)
               \/ ResumeStarts(p, swarm_id)
          \/ CreateRefused(p) \/ ResumeRefused(p)
          \/ MakeTemp(p) \/ WriteTemp(p) \/ SyncTemp(p) \/ WriteRaises(p)
          \/ LoadRaises(p) \/ Dies(p)
    BY <1>1 DEF CreateStarts, ResumeStarts, CreateRefused, ResumeRefused, MakeTemp,
       WriteTemp, SyncTemp, WriteRaises, LoadRaises, Dies
  <1>2. CASE \E p \in Processes : Replace(p)
    BY <1>2 DEF Replace
  <1>3. CASE \E p \in Processes : Load(p)
    BY <1>3 DEF Load
  <1>4. CASE PowerFails \/ UNCHANGED storeVars
    BY <1>4 DEF PowerFails, storeVars
  <1> QED BY <1>1, <1>2, <1>3, <1>4 DEF Next

LEMMA NextKeepsDiskInv == DiskInv /\ [Next]_storeVars => DiskInv'
  <1> SUFFICES ASSUME DiskInv, [Next]_storeVars
               PROVE  \A p \in Processes : ProgressOf(p)'
    BY HoldsIsKept, NextKeepsStoreInv DEF DiskInv
  <1>0. /\ StoreInv
        /\ pc \in [Processes -> States]
        /\ conf = [p \in Processes |-> conf[p]] /\ todo = [p \in Processes |-> todo[p]]
        /\ temp = [p \in Processes |-> temp[p]]
        /\ files = [f \in Files |-> files[f]]
        /\ \A p \in Processes : WriterInv(p) /\ ProgressOf(p)
        /\ MaxAgents \in Nat
    BY MaxAgentsNat DEF DiskInv, StoreInv
  <1>1. ASSUME NEW p \in Processes, NEW q \in Processes,
               NEW swarm_id \in SwarmIds, NEW n \in 0 .. MaxAgents,
               CreateStarts(p, swarm_id, n)
        PROVE  ProgressOf(q)'
    <2>1. CASE q = p
      <3>1. /\ pc'[p] = "mkstemp" /\ todo'[p] = Plan(n)
            /\ conf'[p] = [swarm_id |-> swarm_id, agents |-> n]
        BY <1>0, <1>1 DEF CreateStarts
      <3>2. n \in Nat /\ 0 \in 0 .. n
        BY <1>0
      <3>3. Plan(n) = From(0, n) /\ Head(Plan(n)) = 0
        BY <3>2, FromIsPlan
      <3>4. \A f \in Files : ~(f < 0)
        BY <1>0 DEF Files
      <3> QED BY <2>1, <3>1, <3>2, <3>3, <3>4 DEF ProgressOf
    <2>2. CASE q # p
      BY <1>0, <1>1, <2>2, OthersKeepProgress DEF CreateStarts
    <2> QED BY <2>1, <2>2
  <1>2. ASSUME NEW p \in Processes, NEW q \in Processes, NEW swarm_id \in SwarmIds,
               ResumeStarts(p, swarm_id)
        PROVE  ProgressOf(q)'
    <2>1. CASE q = p
      <3>1. pc'[p] = "load" /\ conf'[p] = [swarm_id |-> swarm_id, agents |-> 0]
        BY <1>0, <1>2 DEF ResumeStarts
      <3>2. 0 \in 0 .. MaxAgents /\ "load" \notin Writing
        BY <1>0 DEF Writing
      <3> QED BY <2>1, <3>1, <3>2 DEF ProgressOf
    <2>2. CASE q # p
      BY <1>0, <1>2, <2>2, OthersKeepProgress DEF ResumeStarts
    <2> QED BY <2>1, <2>2
  <1>3. ASSUME NEW p \in Processes, NEW q \in Processes,
               \/ CreateRefused(p) \/ ResumeRefused(p) \/ WriteRaises(p)
               \/ LoadRaises(p) \/ Dies(p)
        PROVE  ProgressOf(q)'
    <2>1. CASE q = p
      <3>1. pc'[p] \in {"refused", "failed", "dead"}
        BY <1>0, <1>3 DEF CreateRefused, ResumeRefused, WriteRaises, LoadRaises, Dies
      <3> QED BY <2>1, <3>1 DEF ProgressOf, Live, Busy, Writing
    <2>2. CASE q # p
      <3>1. /\ pc'[q] = pc[q] /\ conf'[q] = conf[q] /\ todo'[q] = todo[q]
            /\ temp'[q] = temp[q] /\ files' = files
        BY <1>0, <1>3, <2>2 DEF CreateRefused, ResumeRefused, WriteRaises, LoadRaises, Dies
      <3> QED BY <1>0, <3>1, OthersKeepProgress
    <2> QED BY <2>1, <2>2
  <1>4. ASSUME NEW p \in Processes, NEW q \in Processes, MakeTemp(p)
        PROVE  ProgressOf(q)'
    <2>1. CASE q = p
      <3>1. /\ pc[p] = "mkstemp" /\ pc'[p] = "dump"
            /\ temp'[p].data = Rendered(p, Head(todo[p]))
            /\ conf' = conf /\ todo' = todo /\ files' = files
        BY <1>0, <1>4 DEF MakeTemp
      <3> QED BY <1>0, <2>1, <3>1 DEF ProgressOf, Rendered, Live, Busy, Writing
    <2>2. CASE q # p
      BY <1>0, <1>4, <2>2, OthersKeepProgress DEF MakeTemp
    <2> QED BY <2>1, <2>2
  <1>5. ASSUME NEW p \in Processes, NEW q \in Processes, WriteTemp(p) \/ SyncTemp(p)
        PROVE  ProgressOf(q)'
    <2>1. CASE q = p
      <3>1. /\ pc[p] \in {"dump", "fsync"} /\ pc'[p] \in {"fsync", "replace"}
            /\ \/ temp'[p] = [temp[p] EXCEPT !.whole = TRUE]
               \/ temp'[p] = [temp[p] EXCEPT !.synced = TRUE]
            /\ conf' = conf /\ todo' = todo /\ files' = files
        BY <1>0, <1>5 DEF WriteTemp, SyncTemp
      <3>2. temp[p] \in Written(Head(todo[p]))
        BY <1>0, <3>1 DEF WriterInv, Writing
      <3>3. temp'[p].data = temp[p].data
        BY <3>1, <3>2 DEF Written
      <3> QED BY <1>0, <2>1, <3>1, <3>3 DEF ProgressOf, Rendered, Live, Busy, Writing
    <2>2. CASE q # p
      BY <1>0, <1>5, <2>2, OthersKeepProgress DEF WriteTemp, SyncTemp
    <2> QED BY <2>1, <2>2
  <1>6. ASSUME NEW p \in Processes, NEW q \in Processes, Replace(p)
        PROVE  ProgressOf(q)'
    <2> DEFINE k == Head(todo[p])
               n == conf[p].agents
    <2>1. /\ k \in Files /\ temp[p] # Absent
      BY <1>0, <1>6, ReadReplaced, AbsentIsNoFile DEF Replace
    <2>2. /\ files' = [files EXCEPT ![k] = temp[p]] /\ conf' = conf
          /\ temp' = [temp EXCEPT ![p] = Absent]
          /\ todo' = [todo EXCEPT ![p] = Tail(todo[p])]
          /\ \/ Tail(todo[p]) # << >> /\ pc' = [pc EXCEPT ![p] = "mkstemp"]
             \/ Tail(todo[p]) = << >> /\ pc' = [pc EXCEPT ![p] = "running"]
      BY <1>6 DEF Replace
    <2>3. \A f \in Files : files[f] # Absent => files'[f] # Absent
      BY <1>0, <2>1, <2>2
    <2>4. CASE q = p
      <3>1. /\ conf[p] \in [swarm_id : SwarmIds, agents : 0 .. MaxAgents]
            /\ k \in 0 .. n /\ todo[p] = From(k, n)
            /\ \A f \in Files : f < k => files[f] # Absent
        BY <1>0, <1>6 DEF Replace, ProgressOf, Live, Busy, Writing
      <3>2. n \in Nat /\ n <= MaxAgents
        BY <1>0, <3>1
      <3>3. \A f \in Files : f <= k => files'[f] # Absent
        <4> SUFFICES ASSUME NEW f \in Files, f <= k PROVE files'[f] # Absent
          OBVIOUS
        <4>1. f < k \/ f = k
          BY <2>1 DEF Files
        <4> QED BY <1>0, <2>1, <2>2, <2>3, <3>1, <4>1
      <3>4. Tail(todo[p]) = IF k = n THEN << >> ELSE From(k + 1, n)
        <4> HIDE DEF k, n
        <4>1. Tail(From(k, n)) = IF k = n THEN << >> ELSE From(k + 1, n)
          BY <3>1, <3>2, FromIsPlan
        <4> QED BY <3>1, <4>1
      <3> HIDE DEF k, n
      <3>5. CASE k = n
        <4>1. pc'[p] = "running" /\ conf'[p] = conf[p]
          BY <1>0, <2>2, <3>4, <3>5
        <4> QED BY <2>4, <3>1, <3>3, <3>5, <4>1 DEF ProgressOf, Writing, n
      <3>6. CASE k # n
        <4>1. k + 1 \in 0 .. n
          BY <3>1, <3>2, <3>6
        <4>2. From(k + 1, n) # << >> /\ Head(From(k + 1, n)) = k + 1
          BY <3>2, <4>1, FromIsPlan
        <4>3. /\ pc'[p] = "mkstemp" /\ conf'[p] = conf[p]
              /\ todo'[p] = From(k + 1, n)
          BY <1>0, <2>2, <3>4, <3>6, <4>2
        <4>4. \A f \in Files : f < k + 1 => files'[f] # Absent
          BY <2>1, <3>3 DEF Files
        <4> QED BY <2>4, <3>1, <4>1, <4>2, <4>3, <4>4 DEF ProgressOf, Writing, n
      <3> QED BY <3>5, <3>6
    <2>5. CASE q # p
      BY <1>0, <2>2, <2>3, <2>5, OthersKeepProgress
    <2> QED BY <2>4, <2>5
  <1>7. ASSUME NEW p \in Processes, NEW q \in Processes, Load(p)
        PROVE  ProgressOf(q)'
    <2>1. CASE q = p
      <3>1. /\ pc[p] = "load" /\ pc'[p] = "running" /\ conf' = conf /\ files' = files
            /\ files[Swarm] # Absent
        BY <1>0, <1>7 DEF Load, Loadable
      <3>2. /\ conf[p] \in [swarm_id : SwarmIds, agents : 0 .. MaxAgents]
            /\ conf[p].agents = 0
        BY <1>0, <3>1 DEF ProgressOf, Live, Busy
      <3>3. \A f \in Files : f <= 0 => f = Swarm
        BY <1>0 DEF Files, Swarm
      <3> QED BY <2>1, <3>1, <3>2, <3>3 DEF ProgressOf, Writing
    <2>2. CASE q # p
      BY <1>0, <1>7, <2>2, OthersKeepProgress DEF Load
    <2> QED BY <2>1, <2>2
  <1>8. ASSUME PowerFails, NEW q \in Processes PROVE ProgressOf(q)'
    <2>1. pc'[q] \notin Live
      BY <1>0, <1>8 DEF PowerFails, Live, Busy, Writing
    <2> QED BY <2>1 DEF ProgressOf, Live, Busy
  <1>9. ASSUME UNCHANGED storeVars, NEW q \in Processes PROVE ProgressOf(q)'
    BY <1>0, <1>9, OthersKeepProgress DEF storeVars
  <1> QED BY <1>1, <1>2, <1>3, <1>4, <1>5, <1>6, <1>7, <1>8, <1>9 DEF Next

LEMMA DiskInvIsInvariant == Spec => []DiskInv
  <1>1. Init => DiskInv
    <2>1. Init => \A p \in Processes : ProgressOf(p)
      BY DEF Init, ProgressOf, Live, Busy, Writing
    <2>2. Init => DOMAIN holds = Processes
      BY DEF Init
    <2> QED BY <2>1, <2>2, InitEstablishesStoreInv DEF DiskInv
  <1> QED BY <1>1, NextKeepsDiskInv, PTL DEF Spec

(* A daemon that runs finds the files of its swarm, whole, however many    *)
(* processes share the directory and wherever they die.                    *)
THEOREM RunnersHaveTheirFiles == Spec => []RunningIsOnDisk
  <1>1. DiskInv => RunningIsOnDisk
    <2> SUFFICES ASSUME DiskInv, NEW p \in Processes, pc[p] = "running",
                        NEW f \in 0 .. conf[p].agents
                 PROVE  files[f] # Absent /\ files[f].whole
      BY DEF RunningIsOnDisk
    <2>1. conf[p] \in [swarm_id : SwarmIds, agents : 0 .. MaxAgents]
      BY DEF DiskInv, ProgressOf, Live
    <2>2. f \in Files /\ f <= conf[p].agents
      BY <2>1, MaxAgentsNat DEF Files
    <2>3. files[f] # Absent
      BY <2>2 DEF DiskInv, ProgressOf
    <2> QED BY <2>2, <2>3 DEF DiskInv, StoreInv
  <1> QED BY <1>1, DiskInvIsInvariant, PTL

-----------------------------------------------------------------------------
(* While no two start-ups overlap and the power stays on.                  *)

(* At most one process is starting up; a writer wrote the swarm.json that  *)
(* is there, unless it has still to write it and there is none; runners    *)
(* hold it; and it names every agent file.                                 *)
SerialInv ==
    /\ \A p, q \in Processes : pc[p] \in Busy /\ pc[q] \in Busy => p = q
    /\ \A p \in Processes :
         /\ pc[p] \in Writing =>
              IF Head(todo[p]) = Swarm THEN files[Swarm] = Absent
              ELSE files[Swarm].data = Rendered(p, Swarm)
         /\ pc[p] = "running" => files[Swarm].data = holds[p]
    /\ \A f \in Files \ {Swarm} : files[f] # Absent =>
         files[Swarm] # Absent /\ f <= files[Swarm].data.agents

SerialPart == happened = {} => SerialInv

(* What a process finds before and behind it.                              *)
LEMMA ProgressFacts ==
    ASSUME DiskInv, NEW p \in Processes
    PROVE  /\ pc[p] \in Writing =>
                /\ Head(todo[p]) \in Nat /\ Head(todo[p]) <= conf[p].agents
                /\ Head(todo[p]) # Swarm => files[Swarm] # Absent
           /\ pc[p] = "running" => files[Swarm] # Absent
  <1>1. ProgressOf(p) /\ MaxAgents \in Nat
    BY MaxAgentsNat DEF DiskInv
  <1>2. pc[p] \in Live => conf[p].agents \in Nat
    BY <1>1 DEF ProgressOf
  <1>3. 0 \in Files
    BY <1>1 DEF Files
  <1> QED BY <1>1, <1>2, <1>3 DEF ProgressOf, Live, Busy, Swarm

LEMMA NextKeepsSerialInv ==
    DiskInv /\ SerialPart /\ [Next]_storeVars => SerialPart'
  <1> SUFFICES ASSUME DiskInv, happened = {} => SerialInv, [Next]_storeVars,
                      happened' = {}
               PROVE  SerialInv'
    BY DEF SerialPart
  <1>0. happened = {}
    BY DEF Next, Begins, CreateStarts, CreateRefused, ResumeStarts, ResumeRefused,
       MakeTemp, WriteTemp, SyncTemp, Replace, WriteRaises, Load, LoadRaises, Dies,
       PowerFails, storeVars
  <1>1. /\ StoreInv /\ SerialInv
        /\ pc \in [Processes -> States]
        /\ conf = [p \in Processes |-> conf[p]] /\ todo = [p \in Processes |-> todo[p]]
        /\ temp = [p \in Processes |-> temp[p]]
        /\ files = [f \in Files |-> files[f]]
        /\ \A p \in Processes : WriterInv(p) /\ ProgressOf(p)
        /\ MaxAgents \in Nat /\ Swarm \in Files /\ DOMAIN holds = Processes
    BY <1>0, MaxAgentsNat DEF DiskInv, StoreInv, Files, Swarm
  <1>2. ASSUME NEW p \in Processes, NEW swarm_id \in SwarmIds, NEW n \in 0 .. MaxAgents,
               CreateStarts(p, swarm_id, n)
        PROVE  SerialInv'
    <2>1. /\ \A q \in Processes : pc[q] \notin Busy
          /\ files[Swarm] = Absent /\ files' = files /\ holds' = holds
          /\ pc' = [pc EXCEPT ![p] = "mkstemp"] /\ todo'[p] = Plan(n)
      BY <1>1, <1>2 DEF CreateStarts, Begins
    <2>2. Head(Plan(n)) = Swarm
      <3>1. n \in Nat /\ 0 \in 0 .. n
        BY <1>1
      <3> QED BY <3>1, FromIsPlan DEF Swarm
    <2>3. \A q \in Processes : pc[q] # "running"
      BY <2>1, ProgressFacts
    <2>4. \A q \in Processes : q # p => pc'[q] \notin Busy /\ pc'[q] # "running"
      BY <1>1, <2>1, <2>3
    <2>5. pc'[p] = "mkstemp"
      BY <1>1, <2>1
    <2> QED BY <1>1, <2>1, <2>2, <2>4, <2>5 DEF SerialInv, Busy
  <1>3. ASSUME NEW p \in Processes, NEW swarm_id \in SwarmIds,
               ResumeStarts(p, swarm_id)
        PROVE  SerialInv'
    <2>1. /\ \A q \in Processes : pc[q] \notin Busy
          /\ files' = files /\ holds' = holds
          /\ pc' = [pc EXCEPT ![p] = "load"]
      BY <1>1, <1>3 DEF ResumeStarts, Begins
    <2>2. \A q \in Processes : q # p => pc'[q] = pc[q]
      BY <1>1, <2>1
    <2>3. pc'[p] = "load"
      BY <1>1, <2>1
    <2> QED BY <1>1, <2>1, <2>2, <2>3 DEF SerialInv, Busy, Writing
  <1>4. ASSUME NEW p \in Processes, NEW where \in {"refused", "failed", "dead"},
               pc' = [pc EXCEPT ![p] = where], UNCHANGED << conf, todo, files, holds >>
        PROVE  SerialInv'
    <2>1. \A q \in Processes : pc'[q] = pc[q] \/ pc'[q] = where
      BY <1>1, <1>4
    <2>2. where \notin Live
      BY DEF Live, Busy, Writing
    <2> QED BY <1>1, <1>4, <2>1, <2>2 DEF SerialInv, Rendered, Live, Busy
  <1>5. ASSUME NEW p \in Processes,
               \/ CreateRefused(p) \/ ResumeRefused(p) \/ WriteRaises(p)
               \/ LoadRaises(p) \/ Dies(p)
        PROVE  SerialInv'
    BY <1>4, <1>5 DEF CreateRefused, ResumeRefused, WriteRaises, LoadRaises, Dies
  <1>6. ASSUME NEW p \in Processes, MakeTemp(p) \/ WriteTemp(p) \/ SyncTemp(p)
        PROVE  SerialInv'
    <2>1. /\ pc[p] \in Writing /\ pc'[p] \in Writing
          /\ \A q \in Processes \ {p} : pc'[q] = pc[q]
          /\ UNCHANGED << conf, todo, files, holds >>
      BY <1>1, <1>6 DEF MakeTemp, WriteTemp, SyncTemp, Writing
    <2>2. \A q \in Processes : /\ pc'[q] \in Busy <=> pc[q] \in Busy
                               /\ pc'[q] \in Writing <=> pc[q] \in Writing
                               /\ pc'[q] = "running" => pc[q] = "running"
      BY <2>1 DEF Busy, Writing
    <2> QED BY <1>1, <2>1, <2>2 DEF SerialInv, Rendered
  <1>7. ASSUME NEW p \in Processes, Replace(p) PROVE SerialInv'
    <2> DEFINE k == Head(todo[p])
               n == conf[p].agents
    <2>1. /\ k \in Files /\ temp[p] # Absent /\ pc[p] \in Writing
          /\ temp[p].data = Rendered(p, k)
          /\ k \in Nat /\ k <= n /\ k \in 0 .. n
          /\ k # Swarm => files[Swarm] # Absent
      <3>1. k \in Files /\ temp[p] # Absent /\ pc[p] = "replace"
        BY <1>1, <1>7, ReadReplaced, AbsentIsNoFile DEF Replace
      <3>2. pc[p] \in Writing \ {"mkstemp"}
        BY <3>1 DEF Writing
      <3>3. temp[p].data = Rendered(p, k) /\ k \in 0 .. n
        BY <1>1, <3>2 DEF ProgressOf
      <3>4. k \in Nat /\ k <= n /\ (k # Swarm => files[Swarm] # Absent)
        BY <3>2, ProgressFacts
      <3> QED BY <3>1, <3>2, <3>3, <3>4
    <2>2. /\ files' = [files EXCEPT ![k] = temp[p]] /\ conf' = conf
          /\ todo' = [todo EXCEPT ![p] = Tail(todo[p])]
          /\ \/ /\ Tail(todo[p]) # << >> /\ pc' = [pc EXCEPT ![p] = "mkstemp"]
                /\ holds' = holds
             \/ /\ Tail(todo[p]) = << >> /\ pc' = [pc EXCEPT ![p] = "running"]
                /\ holds' = [holds EXCEPT ![p] = Rendered(p, Swarm)]
      BY <1>7 DEF Replace
    <2>3. todo[p] = From(k, n) /\ n \in Nat
      BY <1>1, <2>1 DEF ProgressOf, Live, Busy
    <2> HIDE DEF k, n
    <2>4. Tail(todo[p]) # << >> => Head(Tail(todo[p])) # Swarm
      <3>1. CASE k = n
        BY <2>1, <2>3, <3>1, FromIsPlan
      <3>2. CASE k # n
        <4>1. k + 1 \in 0 .. n
          BY <2>1, <2>3, <3>2
        <4>2. Head(From(k + 1, n)) = k + 1
          BY <2>3, <4>1, FromIsPlan
        <4>3. Tail(todo[p]) = From(k + 1, n)
          BY <2>1, <2>3, <3>2, FromIsPlan
        <4>4. k + 1 # Swarm
          BY <2>1 DEF Swarm
        <4> QED BY <4>2, <4>3, <4>4
      <3> QED BY <3>1, <3>2
    <2>5. files'[Swarm] # Absent /\ files'[Swarm].data = Rendered(p, Swarm)
      <3>1. CASE k = Swarm
        BY <1>1, <2>1, <2>2, <3>1
      <3>2. CASE k # Swarm
        BY <1>1, <2>1, <2>2, <3>2 DEF SerialInv, k
      <3> QED BY <3>1, <3>2
    <2>6. files[Swarm] # Absent => k # Swarm /\ files'[Swarm] = files[Swarm]
      BY <1>1, <2>1, <2>2 DEF SerialInv, k
    <2>7. Rendered(p, Swarm)' = Rendered(p, Swarm) /\ Rendered(p, Swarm).agents = n
      BY <2>2 DEF Rendered, n
    <2>8. \A q \in Processes \ {p} :
            /\ pc'[q] = pc[q] /\ pc'[q] \notin Busy
            /\ pc[q] = "running" => files[Swarm] # Absent
            /\ holds'[q] = holds[q]
      <3>1. pc[p] \in Busy
        BY <2>1 DEF Busy
      <3>2. \A q \in Processes \ {p} : pc[q] \notin Busy
        BY <1>1, <3>1 DEF SerialInv
      <3>3. \A q \in Processes \ {p} : pc'[q] = pc[q]
        BY <1>1, <2>2
      <3>4. \A q \in Processes \ {p} : holds'[q] = holds[q]
        BY <1>1, <2>2
      <3> QED BY <3>2, <3>3, <3>4, ProgressFacts
    <2>9. \A q, r \in Processes : pc'[q] \in Busy /\ pc'[r] \in Busy => q = r
      BY <2>8
    <2>10. \A q \in Processes : pc'[q] \in Writing =>
             /\ Head(todo'[q]) # Swarm
             /\ files'[Swarm].data = Rendered(q, Swarm)'
      <3>1. \A q \in Processes : pc'[q] \in Writing => q = p
        BY <2>8 DEF Busy
      <3>2. pc'[p] \in Writing => Tail(todo[p]) # << >>
        BY <1>1, <2>2 DEF Writing
      <3>3. todo'[p] = Tail(todo[p])
        BY <1>1, <2>2
      <3> QED BY <2>4, <2>5, <2>7, <3>1, <3>2, <3>3
    <2>11. \A q \in Processes : pc'[q] = "running" => files'[Swarm].data = holds'[q]
      <3>1. ASSUME NEW q \in Processes, q # p, pc'[q] = "running"
            PROVE  files'[Swarm].data = holds'[q]
        BY <1>1, <2>6, <2>8, <3>1 DEF SerialInv
      <3>2. ASSUME pc'[p] = "running" PROVE files'[Swarm].data = holds'[p]
        <4>1. holds' = [holds EXCEPT ![p] = Rendered(p, Swarm)]
          BY <1>1, <2>2, <3>2
        <4>2. p \in DOMAIN holds
          BY DEF DiskInv
        <4> QED BY <2>5, <4>1, <4>2
      <3> QED BY <3>1, <3>2
    <2>12. \A f \in Files \ {Swarm} : files'[f] # Absent =>
             f <= files'[Swarm].data.agents
      <3> SUFFICES ASSUME NEW f \in Files \ {Swarm}, files'[f] # Absent
                   PROVE  f <= files'[Swarm].data.agents
        OBVIOUS
      <3>1. CASE f = k
        BY <2>1, <2>5, <2>7, <3>1
      <3>2. CASE f # k
        BY <1>1, <2>2, <2>6, <3>2 DEF SerialInv
      <3> QED BY <3>1, <3>2
    <2> QED BY <2>5, <2>9, <2>10, <2>11, <2>12 DEF SerialInv
  <1>8. ASSUME NEW p \in Processes, Load(p) PROVE SerialInv'
    <2>1. /\ pc[p] = "load" /\ pc' = [pc EXCEPT ![p] = "running"]
          /\ UNCHANGED << conf, todo, files >>
          /\ holds' = [holds EXCEPT ![p] = files[Swarm].data]
      BY <1>8 DEF Load
    <2>2. \A q \in Processes : /\ pc'[q] = IF q = p THEN "running" ELSE pc[q]
                               /\ pc'[q] \in Busy => pc[q] \in Busy
                               /\ pc'[q] \in Writing => pc[q] \in Writing
      BY <1>1, <2>1 DEF Busy, Writing
    <2>3. \A q \in Processes : pc'[q] = "running" => files'[Swarm].data = holds'[q]
      <3>1. \A q \in Processes : holds'[q] = IF q = p THEN files[Swarm].data ELSE holds[q]
        BY <2>1 DEF DiskInv
      <3> QED BY <1>1, <2>1, <2>2, <3>1 DEF SerialInv
    <2> QED BY <1>1, <2>1, <2>2, <2>3 DEF SerialInv, Rendered
  <1>9. ~PowerFails
    BY DEF PowerFails
  <1>10. CASE UNCHANGED storeVars
    BY <1>1, <1>10 DEF storeVars, SerialInv, Rendered
  <1> QED BY <1>2, <1>3, <1>5, <1>6, <1>7, <1>8, <1>9, <1>10 DEF Next

LEMMA SerialInvIsInvariant == Spec => [](DiskInv /\ SerialPart)
  <1>1. Init => SerialPart
    BY DEF Init, SerialPart, SerialInv, Busy, Writing
  <1>2. Init => DiskInv
    <2>1. Init => \A p \in Processes : ProgressOf(p)
      BY DEF Init, ProgressOf, Live, Busy, Writing
    <2>2. Init => DOMAIN holds = Processes
      BY DEF Init
    <2> QED BY <2>1, <2>2, InitEstablishesStoreInv DEF DiskInv
  <1> QED BY <1>1, <1>2, NextKeepsDiskInv, NextKeepsSerialInv, PTL DEF Spec

(* Every daemon that runs has in memory the swarm that is on disk, as long *)
(* as start-ups did not overlap and the power was on.                      *)
THEOREM RunnersAgree == Spec => []RunnersAgreeWithDisk
  <1>1. SerialPart => RunnersAgreeWithDisk
    BY DEF SerialPart, RunnersAgreeWithDisk, SerialInv
  <1> QED BY <1>1, SerialInvIsInvariant, PTL

(* Under the same provisos an agent file never lacks its swarm.json, for   *)
(* every way in which a create may fail or die half-way.                   *)
THEOREM NoOrphanedAgentFile == Spec => []AgentFilesFollowSwarm
  <1>1. SerialPart => AgentFilesFollowSwarm
    BY DEF SerialPart, AgentFilesFollowSwarm, SerialInv
  <1> QED BY <1>1, SerialInvIsInvariant, PTL

(* Under the same provisos a swarm.json is never written over.             *)
THEOREM SerialCreatesWriteOnce == Spec => SerialCreateWritesOnce
  <1> DEFINE Kept == happened' = {} /\ files[Swarm] # Absent =>
                       files'[Swarm] = files[Swarm]
  <1>1. DiskInv /\ SerialPart /\ [Next]_storeVars => [Kept]_storeVars
    <2> SUFFICES ASSUME DiskInv, happened = {} => SerialInv, Next,
                        happened' = {}, files[Swarm] # Absent
                 PROVE  files'[Swarm] = files[Swarm]
      BY DEF SerialPart, storeVars
    <2>1. ASSUME NEW p \in Processes, Replace(p) PROVE files'[Swarm] = files[Swarm]
      <3>1. /\ happened = {} /\ pc[p] \in Writing
            /\ files' = [files EXCEPT ![Head(todo[p])] = temp[p]]
        BY <2>1 DEF Replace, Writing
      <3>2. Head(todo[p]) # Swarm
        BY <3>1 DEF SerialInv
      <3>3. Swarm \in Files /\ files = [f \in Files |-> files[f]]
        BY MaxAgentsNat DEF DiskInv, StoreInv, Files, Swarm
      <3> QED BY <3>1, <3>2, <3>3
    <2>2. ~PowerFails
      BY DEF PowerFails
    <2> QED BY <2>1, <2>2 DEF Next, CreateStarts, CreateRefused, ResumeStarts,
            ResumeRefused, MakeTemp, WriteTemp, SyncTemp, WriteRaises, Load,
            LoadRaises, Dies
  <1> QED BY <1>1, SerialInvIsInvariant, PTL DEF Spec, SerialCreateWritesOnce

-----------------------------------------------------------------------------
(* Types *)

LEMMA NextKeepsTypes == DiskInv /\ StoreTypeOK /\ [Next]_storeVars => StoreTypeOK'
  <1> SUFFICES ASSUME DiskInv, DiskInv', StoreTypeOK, [Next]_storeVars PROVE StoreTypeOK'
    BY NextKeepsDiskInv
  <1> DEFINE ConfOK(p)  == conf[p] # Absent =>
                             conf[p] \in [swarm_id : SwarmIds, agents : 0 .. MaxAgents]
             TempOK(p)  == temp[p] # Absent => temp[p] \in UNION {Written(f) : f \in Files}
             HoldsOK(p) == holds[p] # Absent => holds[p] \in SwarmMetadata
  <1>0. /\ StoreInv /\ StoreInv' /\ MaxAgents \in Nat /\ Swarm \in Files
        /\ \A p \in Processes : WriterInv(p) /\ ProgressOf(p)
        /\ \A p \in Processes : ConfOK(p) /\ TempOK(p) /\ HoldsOK(p)
        /\ \A p \in Processes : todo[p] \in Seq(Files)
        /\ conf = [p \in Processes |-> conf[p]] /\ todo = [p \in Processes |-> todo[p]]
        /\ temp = [p \in Processes |-> temp[p]] /\ DOMAIN holds = Processes
    BY MaxAgentsNat DEF DiskInv, StoreInv, StoreTypeOK, Files, Swarm
  <1>1. pc' \in [Processes -> Live \cup {"idle", "refused", "failed", "dead"}]
    BY <1>0 DEF StoreInv, States
  <1>2. \A f \in Files : /\ versions'[f] \subseteq Written(f) \cup {Absent}
                         /\ files'[f] \in versions'[f]
    BY <1>0 DEF StoreInv
  <1>3. \A p \in Processes : /\ pc'[p] \in Writing => todo'[p] # << >>
                             /\ pc'[p] \in Writing \ {"mkstemp"} =>
                                  temp'[p] \in Written(Head(todo'[p]))
    BY <1>0 DEF StoreInv, WriterInv
  <1>4. happened' \subseteq {"overlap", "power"}
    <2>1. /\ happened \subseteq {"overlap", "power"}
          /\ happened' \in {happened, happened \cup {"overlap"}, happened \cup {"power"}}
      BY DEF StoreTypeOK, Next, Begins, CreateStarts, CreateRefused, ResumeStarts,
         ResumeRefused, MakeTemp, WriteTemp, SyncTemp, Replace, WriteRaises, Load,
         LoadRaises, Dies, PowerFails, storeVars
    <2> QED BY <2>1
  <1>5. ASSUME NEW p \in Processes
        PROVE  ConfOK(p)' /\ TempOK(p)' /\ HoldsOK(p)' /\ todo'[p] \in Seq(Files)
    <2>0. ConfOK(p) /\ TempOK(p) /\ HoldsOK(p) /\ todo[p] \in Seq(Files)
      BY <1>0
    <2>1. ASSUME NEW q \in Processes, NEW swarm_id \in SwarmIds,
                 NEW n \in 0 .. MaxAgents, CreateStarts(q, swarm_id, n)
          PROVE  ConfOK(p)' /\ TempOK(p)' /\ HoldsOK(p)' /\ todo'[p] \in Seq(Files)
      <3>1. Plan(n) \in Seq(Files)
        BY MaxAgentsNat DEF Plan, Files
      <3> QED BY <1>0, <2>0, <2>1, <3>1 DEF CreateStarts
    <2>2. ASSUME NEW q \in Processes, NEW swarm_id \in SwarmIds, ResumeStarts(q, swarm_id)
          PROVE  ConfOK(p)' /\ TempOK(p)' /\ HoldsOK(p)' /\ todo'[p] \in Seq(Files)
      <3>1. 0 \in 0 .. MaxAgents
        BY <1>0
      <3> QED BY <1>0, <2>0, <2>2, <3>1 DEF ResumeStarts
    <2>3. ASSUME NEW q \in Processes, MakeTemp(q) \/ WriteTemp(q) \/ SyncTemp(q)
          PROVE  ConfOK(p)' /\ TempOK(p)' /\ HoldsOK(p)' /\ todo'[p] \in Seq(Files)
      <3>1. UNCHANGED << conf, todo, holds >> /\ pc'[q] \in Writing \ {"mkstemp"}
        BY <1>0, <2>3 DEF MakeTemp, WriteTemp, SyncTemp, Writing, StoreInv
      <3>2. temp'[q] \in Written(Head(todo'[q])) /\ Head(todo'[q]) \in Files
        <4>1. todo'[q] \in Seq(Files) /\ todo'[q] # << >>
          BY <1>0, <1>3, <3>1
        <4> QED BY <1>3, <3>1, <4>1
      <3>3. q # p => temp'[p] = temp[p]
        BY <1>0, <2>3 DEF MakeTemp, WriteTemp, SyncTemp
      <3> QED BY <2>0, <3>1, <3>2, <3>3
    <2>4. ASSUME NEW q \in Processes, Replace(q)
          PROVE  ConfOK(p)' /\ TempOK(p)' /\ HoldsOK(p)' /\ todo'[p] \in Seq(Files)
      <3>1. /\ temp' = [temp EXCEPT ![q] = Absent] /\ conf' = conf
            /\ todo' = [todo EXCEPT ![q] = Tail(todo[q])]
            /\ holds' = holds \/ holds' = [holds EXCEPT ![q] = Rendered(q, Swarm)]
        BY <2>4 DEF Replace
      <3>2. conf[q] \in [swarm_id : SwarmIds, agents : 0 .. MaxAgents] /\ todo[q] # << >>
        BY <1>0, <2>4 DEF Replace, WriterInv, Writing
      <3>3. Rendered(q, Swarm) \in SwarmMetadata
        BY <3>2 DEF Rendered, SwarmMetadata
      <3>4. Tail(todo[q]) \in Seq(Files)
        BY <1>0, <3>2
      <3> QED BY <1>0, <2>0, <3>1, <3>3, <3>4
    <2>5. ASSUME NEW q \in Processes, Load(q)
          PROVE  ConfOK(p)' /\ TempOK(p)' /\ HoldsOK(p)' /\ todo'[p] \in Seq(Files)
      <3>1. /\ UNCHANGED << conf, todo, temp >> /\ files[Swarm] # Absent
            /\ holds' = [holds EXCEPT ![q] = files[Swarm].data]
        BY <2>5 DEF Load, Loadable
      <3>2. files[Swarm] \in Written(Swarm)
        BY <1>0, <3>1 DEF StoreInv
      <3>3. files[Swarm].data \in SwarmMetadata
        BY <1>0, <3>2 DEF Written, Content
      <3> QED BY <1>0, <2>0, <3>1, <3>3
    <2>6. ASSUME NEW q \in Processes,
                 \/ CreateRefused(q) \/ ResumeRefused(q) \/ WriteRaises(q)
                 \/ LoadRaises(q) \/ Dies(q)
          PROVE  ConfOK(p)' /\ TempOK(p)' /\ HoldsOK(p)' /\ todo'[p] \in Seq(Files)
      <3>1. UNCHANGED << conf, todo, holds >>
            /\ temp' \in {temp, [temp EXCEPT ![q] = Absent]}
        BY <2>6 DEF CreateRefused, ResumeRefused, WriteRaises, LoadRaises, Dies
      <3> QED BY <1>0, <2>0, <3>1
    <2>7. CASE PowerFails \/ UNCHANGED storeVars
      <3>1. UNCHANGED << conf, todo, holds, temp >>
        BY <2>7 DEF PowerFails, storeVars
      <3> QED BY <2>0, <3>1
    <2> HIDE DEF ConfOK, TempOK, HoldsOK
    <2> QED BY <2>1, <2>2, <2>3, <2>4, <2>5, <2>6, <2>7 DEF Next
  <1> QED BY <1>1, <1>2, <1>3, <1>4, <1>5 DEF StoreTypeOK

(* Every state of the store is well typed, power failures included.        *)
THEOREM StoreTypeCorrect == Spec => []StoreTypeOK
  <1>1. Init => StoreTypeOK
    <2> SUFFICES ASSUME Init PROVE StoreTypeOK
      OBVIOUS
    <2>1. << >> \in Seq(Files)
      BY EmptySeq
    <2> QED BY <2>1 DEF Init, StoreTypeOK, Writing
  <1> QED BY <1>1, NextKeepsTypes, DiskInvIsInvariant, PTL DEF Spec
=============================================================================
