------------------------- MODULE EventFanout_proofs -------------------------
(***************************************************************************)
(* The subscription maps agree, and clients are notified only of what they *)
(* are subscribed to, for every set of connections, every set of requests  *)
(* and every number of events.                                             *)
(***************************************************************************)
EXTENDS EventFanout, SequenceTheorems, TLAPS

(* Where the handler of a connection may be, before its end and at all.    *)
Running       == {"recv", "drain", "ensure_open", "raising"}
HandlerStates == Running \cup {"none", "done"}

(* The inductive invariant adds to RegistryAgreement what makes a new      *)
(* subscription id new: no map knows an id that was not handed out.  An id *)
(* may stay in the set of a connection after another connection has        *)
(* unsubscribed it; that it is never reused keeps it harmless.             *)
RegistryInv ==
    /\ nextSub \in Nat
    /\ handler \in [Clients -> HandlerStates]
    /\ \A s \in DOMAIN subClients :
         s \in Nat /\ s < nextSub /\ subClients[s] \in Clients
    /\ DOMAIN clientSubs \subseteq Clients
    /\ clientSubs = [c \in DOMAIN clientSubs |-> clientSubs[c]]
    /\ \A c \in DOMAIN clientSubs : \A s \in clientSubs[c] : s \in Nat /\ s < nextSub
    /\ RegistryAgreement

-----------------------------------------------------------------------------
LEMMA HandlerMoves ==
    ASSUME handler \in [Clients -> HandlerStates],
           NEW c \in Clients, NEW p \in Running,
           handler' = [handler EXCEPT ![c] = p]
    PROVE  /\ handler' \in [Clients -> HandlerStates]
           /\ \A d \in Clients :
                handler'[d] \in {"none", "done"} => handler'[d] = handler[d]
  <1>1. p \in HandlerStates /\ p \notin {"none", "done"}
    BY DEF Running, HandlerStates
  <1> QED BY <1>1

(* A step that touches no map, and ends no handler, keeps the invariant.   *)
LEMMA HandlersGoOn ==
    ASSUME RegistryInv, UNCHANGED registryVars,
           handler' \in [Clients -> HandlerStates],
           \A c \in Clients : handler'[c] \in {"none", "done"} => handler'[c] = handler[c]
    PROVE  RegistryInv'
  BY DEF RegistryInv, RegistryAgreement, registryVars

LEMMA RegisterKeepsInv ==
    ASSUME RegistryInv, NEW c \in Clients, NEW agent_ids,
           handler[c] \notin {"none", "done"},
           RegisterSubscription(c, agent_ids),
           handler' \in [Clients -> HandlerStates],
           \A d \in Clients : handler'[d] \in {"none", "done"} => handler'[d] = handler[d]
    PROVE  RegistryInv'
  <1> DEFINE own == IF c \in DOMAIN clientSubs THEN clientSubs[c] ELSE {}
  <1>1. /\ nextSub \in Nat /\ nextSub' = nextSub + 1
        /\ nextSub \notin DOMAIN subClients /\ nextSub \notin own
      BY DEF RegistryInv, RegisterSubscription
  <1>2. /\ DOMAIN subscriptions' = DOMAIN subscriptions \cup {nextSub}
        /\ DOMAIN subClients' = DOMAIN subClients \cup {nextSub}
        /\ subClients'[nextSub] = c
        /\ \A s \in DOMAIN subClients : subClients'[s] = subClients[s]
    BY <1>1 DEF RegisterSubscription, With
  <1>3. /\ DOMAIN clientSubs' = DOMAIN clientSubs \cup {c}
        /\ clientSubs'[c] = {nextSub} \cup own
        /\ \A d \in DOMAIN clientSubs \ {c} : clientSubs'[d] = clientSubs[d]
        /\ clientSubs' = [d \in DOMAIN clientSubs' |-> clientSubs'[d]]
    BY DEF RegisterSubscription, With
  <1>4. \A d \in DOMAIN clientSubs' : \A s \in clientSubs'[d] :
          \/ s = nextSub /\ d = c
          \/ d \in DOMAIN clientSubs /\ s \in clientSubs[d]
    BY <1>3
  <1> HIDE DEF own
  <1>5. /\ nextSub' \in Nat
        /\ \A s \in DOMAIN subClients' :
             s \in Nat /\ s < nextSub' /\ subClients'[s] \in Clients
        /\ DOMAIN clientSubs' \subseteq Clients
        /\ clientSubs' = [d \in DOMAIN clientSubs' |-> clientSubs'[d]]
        /\ \A d \in DOMAIN clientSubs' : \A s \in clientSubs'[d] :
             s \in Nat /\ s < nextSub'
    BY <1>1, <1>2, <1>3, <1>4 DEF RegistryInv
  <1>6. RegistryAgreement'
    <2>1. DOMAIN subClients' = DOMAIN subscriptions'
      BY <1>2 DEF RegistryInv, RegistryAgreement
    <2>2. ASSUME NEW s \in DOMAIN subClients'
          PROVE  /\ subClients'[s] \in DOMAIN clientSubs'
                 /\ s \in clientSubs'[subClients'[s]]
      <3>1. CASE s = nextSub
        BY <3>1, <1>2, <1>3
      <3>2. CASE s # nextSub
        <4>1. /\ s \in DOMAIN subClients /\ subClients'[s] = subClients[s]
              /\ subClients[s] \in DOMAIN clientSubs
              /\ s \in clientSubs[subClients[s]]
          BY <3>2, <1>2 DEF RegistryInv, RegistryAgreement
        <4> QED BY <4>1, <1>3 DEF own
      <3> QED BY <3>1, <3>2
    <2>3. ASSUME NEW d \in DOMAIN clientSubs'
          PROVE  /\ handler'[d] \notin {"none", "done"}
                 /\ \A s \in clientSubs'[d] \cap DOMAIN subClients' :
                      subClients'[s] = d
      <3>1. handler'[d] \notin {"none", "done"}
        BY <1>3, <1>5 DEF RegistryInv, RegistryAgreement
      <3>2. \A s \in clientSubs'[d] \cap DOMAIN subClients' : subClients'[s] = d
        BY <1>1, <1>2, <1>4 DEF RegistryInv, RegistryAgreement
      <3> QED BY <3>1, <3>2
    <2> QED BY <2>1, <2>2, <2>3 DEF RegistryAgreement
  <1> QED BY <1>5, <1>6 DEF RegistryInv

LEMMA DropKeepsInv ==
    ASSUME RegistryInv, NEW c \in Clients, NEW sub,
           DropSubscription(c, sub),
           handler' \in [Clients -> HandlerStates],
           \A d \in Clients : handler'[d] \in {"none", "done"} => handler'[d] = handler[d]
    PROVE  RegistryInv'
  <1>1. /\ nextSub' = nextSub
        /\ DOMAIN subscriptions' = DOMAIN subscriptions \ {sub}
        /\ DOMAIN subClients' = DOMAIN subClients \ {sub}
        /\ \A s \in DOMAIN subClients \ {sub} : subClients'[s] = subClients[s]
    BY DEF DropSubscription, Without
  <1>2. /\ DOMAIN clientSubs' = DOMAIN clientSubs
        /\ \A d \in DOMAIN clientSubs : /\ clientSubs'[d] \subseteq clientSubs[d]
                                        /\ clientSubs[d] \subseteq clientSubs'[d] \cup {sub}
        /\ clientSubs' = [d \in DOMAIN clientSubs' |-> clientSubs'[d]]
    BY DEF DropSubscription, RegistryInv
  <1>3. RegistryAgreement'
    <2>1. DOMAIN subClients' = DOMAIN subscriptions'
      BY <1>1 DEF RegistryInv, RegistryAgreement
    <2>2. ASSUME NEW s \in DOMAIN subClients'
          PROVE  /\ subClients'[s] \in DOMAIN clientSubs'
                 /\ s \in clientSubs'[subClients'[s]]
      BY <1>1, <1>2 DEF RegistryInv, RegistryAgreement
    <2>3. ASSUME NEW d \in DOMAIN clientSubs'
          PROVE  /\ handler'[d] \notin {"none", "done"}
                 /\ \A s \in clientSubs'[d] \cap DOMAIN subClients' :
                      subClients'[s] = d
      BY <1>1, <1>2 DEF RegistryInv, RegistryAgreement
    <2> QED BY <2>1, <2>2, <2>3 DEF RegistryAgreement
  <1> QED BY <1>1, <1>2, <1>3 DEF RegistryInv

LEMMA CleanupKeepsInv ==
    ASSUME RegistryInv, NEW c \in Clients, Cleanup(c),
           handler' = [handler EXCEPT ![c] = "done"]
    PROVE  RegistryInv'
  <1> DEFINE own == IF c \in DOMAIN clientSubs THEN clientSubs[c] ELSE {}
  <1>1. /\ nextSub' = nextSub
        /\ DOMAIN subscriptions' = DOMAIN subscriptions \ own
        /\ DOMAIN subClients' = DOMAIN subClients \ own
        /\ \A s \in DOMAIN subClients \ own : subClients'[s] = subClients[s]
        /\ DOMAIN clientSubs' = DOMAIN clientSubs \ {c}
        /\ \A d \in DOMAIN clientSubs \ {c} : clientSubs'[d] = clientSubs[d]
        /\ clientSubs' = [d \in DOMAIN clientSubs' |-> clientSubs'[d]]
    BY DEF Cleanup, Without
  <1>2. \A s \in DOMAIN subClients : subClients[s] = c => s \in own
    BY DEF RegistryInv, RegistryAgreement
  <1> HIDE DEF own
  <1>3. RegistryAgreement'
    <2>1. DOMAIN subClients' = DOMAIN subscriptions'
      BY <1>1 DEF RegistryInv, RegistryAgreement
    <2>2. ASSUME NEW s \in DOMAIN subClients'
          PROVE  /\ subClients'[s] \in DOMAIN clientSubs'
                 /\ s \in clientSubs'[subClients'[s]]
      BY <1>1, <1>2 DEF RegistryInv, RegistryAgreement
    <2>3. ASSUME NEW d \in DOMAIN clientSubs'
          PROVE  /\ handler'[d] \notin {"none", "done"}
                 /\ \A s \in clientSubs'[d] \cap DOMAIN subClients' :
                      subClients'[s] = d
      BY <1>1 DEF RegistryInv, RegistryAgreement
    <2> QED BY <2>1, <2>2, <2>3 DEF RegistryAgreement
  <1>4. handler' \in [Clients -> HandlerStates]
    BY DEF RegistryInv, HandlerStates
  <1> QED BY <1>1, <1>3, <1>4 DEF RegistryInv

-----------------------------------------------------------------------------
LEMMA InitEstablishesRegistryInv == Init => RegistryInv
  <1> SUFFICES ASSUME Init PROVE RegistryInv
    OBVIOUS
  <1>1. /\ DOMAIN subscriptions = {} /\ DOMAIN subClients = {}
        /\ DOMAIN clientSubs = {} /\ nextSub = 1
        /\ clientSubs = [c \in DOMAIN clientSubs |-> clientSubs[c]]
    BY DEF Init
  <1>2. handler \in [Clients -> HandlerStates]
    BY DEF Init, HandlerStates
  <1> QED BY <1>1, <1>2 DEF RegistryInv, RegistryAgreement

LEMMA NextKeepsRegistryInv == RegistryInv /\ [Next]_fanoutVars => RegistryInv'
  <1> SUFFICES ASSUME RegistryInv, [Next]_fanoutVars PROVE RegistryInv'
    OBVIOUS
  <1>0. handler \in [Clients -> HandlerStates]
    BY DEF RegistryInv
  <1>1. ASSUME NEW c \in Clients, HandleRequest(c) PROVE RegistryInv'
    <2>1. /\ handler' \in [Clients -> HandlerStates]
          /\ \A d \in Clients :
               handler'[d] \in {"none", "done"} => handler'[d] = handler[d]
      <3>1. PICK p \in Running : handler' = [handler EXCEPT ![c] = p]
        <4>1. CASE handler' = [handler EXCEPT ![c] = IF Waits(c) THEN "drain" ELSE "recv"]
          BY <4>1 DEF Running
        <4>2. CASE handler' = [handler EXCEPT ![c] = "ensure_open"]
          BY <4>2 DEF Running
        <4>3. CASE handler' = [handler EXCEPT ![c] = "raising"]
          BY <4>3 DEF Running
        <4> QED BY <1>1, <4>1, <4>2, <4>3 DEF HandleRequest
      <3> QED BY <1>0, <3>1, HandlerMoves
    <2>2. handler[c] = "recv" /\ Dispatch(c, Head(inbox[c]))
      BY <1>1 DEF HandleRequest
    <2> DEFINE request == Head(inbox[c])
    <2>3. \/ RegisterSubscription(c, request.agents)
          \/ DropSubscription(c, request.sub)
          \/ UNCHANGED registryVars
      BY <2>2 DEF Dispatch
    <2> HIDE DEF request
    <2>4. CASE RegisterSubscription(c, request.agents)
      BY <2>1, <2>2, <2>4, RegisterKeepsInv
    <2>5. CASE DropSubscription(c, request.sub)
      BY <2>1, <2>5, DropKeepsInv
    <2>6. CASE UNCHANGED registryVars
      BY <2>1, <2>6, HandlersGoOn
    <2> QED BY <2>3, <2>4, <2>5, <2>6
  <1>2. ASSUME NEW c \in Clients, HandlerEnds(c) PROVE RegistryInv'
    BY <1>2, CleanupKeepsInv DEF HandlerEnds
  <1>3. ASSUME NEW c \in Clients,
               \/ Connect(c) \/ CloseConnection(c) \/ ConnectionClosed(c)
               \/ ConnectionLost(c) \/ Resume(c)
               \/ \E request \in Requests : SendRequest(c, request)
        PROVE  RegistryInv'
    <2>1. /\ UNCHANGED registryVars
          /\ \/ handler' = handler
             \/ \E p \in Running : handler' = [handler EXCEPT ![c] = p]
      BY <1>3 DEF Connect, CloseConnection, ConnectionClosed, ConnectionLost,
         Resume, SendRequest, Running
    <2>2. /\ handler' \in [Clients -> HandlerStates]
          /\ \A d \in Clients :
               handler'[d] \in {"none", "done"} => handler'[d] = handler[d]
      BY <1>0, <2>1, HandlerMoves
    <2> QED BY <2>1, <2>2, HandlersGoOn
  <1>4. ASSUME NEW c \in Clients,
               HandlerRaises(c) \/ DrainReturns(c) \/ DrainRaises(c)
        PROVE  RegistryInv'
    <2>1. /\ UNCHANGED registryVars
          /\ \/ handler' = handler
             \/ \E p \in Running : handler' = [handler EXCEPT ![c] = p]
      BY <1>4 DEF HandlerRaises, DrainReturns, DrainRaises, Running
    <2>2. /\ handler' \in [Clients -> HandlerStates]
          /\ \A d \in Clients :
               handler'[d] \in {"none", "done"} => handler'[d] = handler[d]
      BY <1>0, <2>1, HandlerMoves
    <2> QED BY <2>1, <2>2, HandlersGoOn
  <1>5. ASSUME NEW a \in Agents, Emit(a) PROVE RegistryInv'
    BY <1>0, <1>5, HandlersGoOn DEF Emit
  <1>6. ASSUME NEW t \in DOMAIN tasks, Publishing(t) PROVE RegistryInv'
    <2>1. UNCHANGED registryVars /\ handler' = handler
      BY <1>6 DEF Publishing, StartPublish, PublishSkips, PublishSends, PublishEnds,
         PublishAwaitRaises
    <2> QED BY <1>0, <2>1, HandlersGoOn
  <1>7. CASE StopBegins
    BY <1>0, <1>7, HandlersGoOn DEF StopBegins
  <1>8. CASE StopEnds
    <2>1. \A c \in Clients : handler[c] \in {"none", "done"}
      BY <1>8 DEF StopEnds
    <2>2. DOMAIN clientSubs = {} /\ DOMAIN subClients = {}
      BY <2>1 DEF RegistryInv, RegistryAgreement
    <2>3. /\ DOMAIN clientSubs' = {} /\ DOMAIN subClients' = {}
          /\ clientSubs' = [c \in DOMAIN clientSubs' |-> clientSubs'[c]]
          /\ handler' = handler /\ subscriptions' = subscriptions /\ nextSub' = nextSub
      BY <1>8, <2>2 DEF StopEnds, Without
    <2> QED BY <2>2, <2>3 DEF RegistryInv, RegistryAgreement
  <1>9. CASE UNCHANGED fanoutVars
    BY <1>0, <1>9, HandlersGoOn DEF fanoutVars
  <1> QED BY <1>1, <1>2, <1>3, <1>4, <1>5, <1>6, <1>7, <1>8, <1>9 DEF Next

(* The registry, the routing map and the per-connection sets agree in      *)
(* every state, and nothing is left in them of a connection whose handler  *)
(* has ended.                                                              *)
THEOREM RegistriesAgree == Spec => []RegistryAgreement
  <1>1. RegistryInv => RegistryAgreement
    BY DEF RegistryInv
  <1> QED BY <1>1, InitEstablishesRegistryInv, NextKeepsRegistryInv, PTL DEF Spec

-----------------------------------------------------------------------------
(* What is written to a connection                                         *)

AnySeq(w) == \E S : w \in Seq(S)

(* The last that w says of subscription s is not that it was dropped.      *)
AckedIn(w, s) ==
    \E j \in 1 .. Len(w) :
        /\ IsAck(w[j], "subscribed", s)
        /\ \A k \in j + 1 .. Len(w) : ~IsAck(w[k], "unsubscribed", s)

Sensible(w) ==
    \A i \in DOMAIN w : w[i].kind = "notify" =>
        \E j \in 1 .. i - 1 :
            /\ IsAck(w[j], "subscribed", w[i].sub)
            /\ \A k \in j + 1 .. i - 1 : ~IsAck(w[k], "unsubscribed", w[i].sub)

(* One more frame at the end of w.                                         *)
LEMMA AppendFrame ==
    ASSUME NEW w, AnySeq(w), NEW f
    PROVE  /\ AnySeq(Append(w, f))
           /\ Len(w) \in Nat /\ DOMAIN w = 1 .. Len(w)
           /\ DOMAIN Append(w, f) = 1 .. Len(w) + 1 /\ Len(Append(w, f)) = Len(w) + 1
           /\ Append(w, f)[Len(w) + 1] = f
           /\ \A i \in 1 .. Len(w) : Append(w, f)[i] = w[i]
  <1>1. PICK S : w \in Seq(S)
    BY DEF AnySeq
  <1>2. w \in Seq(S \cup {f}) /\ Len(w) \in Nat /\ DOMAIN w = 1 .. Len(w)
    BY <1>1
  <1>3. Append(w, f) \in Seq(S \cup {f})
    BY <1>2, AppendProperties
  <1>4. /\ Len(Append(w, f)) = Len(w) + 1 /\ Append(w, f)[Len(w) + 1] = f
        /\ \A i \in 1 .. Len(w) : Append(w, f)[i] = w[i]
    BY <1>2, AppendProperties
  <1>5. DOMAIN Append(w, f) = 1 .. Len(w) + 1
    BY <1>3, <1>4, LenProperties
  <1> QED BY <1>2, <1>3, <1>4, <1>5 DEF AnySeq

LEMMA AppendAcks ==
    ASSUME NEW w, AnySeq(w), NEW f, NEW s
    PROVE  /\ AckedIn(w, s) /\ ~IsAck(f, "unsubscribed", s) => AckedIn(Append(w, f), s)
           /\ IsAck(f, "subscribed", s) => AckedIn(Append(w, f), s)
  <1> DEFINE g == Append(w, f)
             n == Len(w)
  <1>1. /\ n \in Nat /\ Len(g) = n + 1 /\ g[n + 1] = f
        /\ \A i \in 1 .. n : g[i] = w[i]
    BY AppendFrame
  <1> HIDE DEF g
  <1>2. ASSUME AckedIn(w, s), ~IsAck(f, "unsubscribed", s) PROVE AckedIn(g, s)
    <2>1. PICK j \in 1 .. n :
            /\ IsAck(w[j], "subscribed", s)
            /\ \A k \in j + 1 .. n : ~IsAck(w[k], "unsubscribed", s)
      BY <1>2 DEF AckedIn
    <2>2. \A k \in j + 1 .. n + 1 : ~IsAck(g[k], "unsubscribed", s)
      <3> SUFFICES ASSUME NEW k \in j + 1 .. n + 1
                   PROVE  ~IsAck(g[k], "unsubscribed", s)
        OBVIOUS
      <3>1. CASE k = n + 1
        BY <1>1, <1>2, <3>1
      <3>2. CASE k # n + 1
        <4>1. k \in j + 1 .. n /\ k \in 1 .. n
          BY <1>1, <3>2
        <4> QED BY <1>1, <2>1, <4>1
      <3> QED BY <3>1, <3>2
    <2>3. IsAck(g[j], "subscribed", s) /\ j \in 1 .. n + 1
      BY <1>1, <2>1
    <2> QED BY <1>1, <2>2, <2>3 DEF AckedIn
  <1>3. ASSUME IsAck(f, "subscribed", s) PROVE AckedIn(g, s)
    <2>1. n + 1 \in 1 .. Len(g) /\ IsAck(g[n + 1], "subscribed", s)
      BY <1>1, <1>3
    <2>2. \A k \in n + 1 + 1 .. Len(g) : FALSE
      BY <1>1
    <2> QED BY <2>1, <2>2 DEF AckedIn
  <1> QED BY <1>2, <1>3 DEF g

LEMMA AppendSensibly ==
    ASSUME NEW w, AnySeq(w), Sensible(w), NEW f,
           f.kind = "notify" => AckedIn(w, f.sub)
    PROVE  Sensible(Append(w, f))
  <1> DEFINE g == Append(w, f)
             n == Len(w)
  <1>1. /\ n \in Nat /\ DOMAIN w = 1 .. n /\ DOMAIN g = 1 .. n + 1 /\ g[n + 1] = f
        /\ \A i \in 1 .. n : g[i] = w[i]
    BY AppendFrame
  <1> HIDE DEF g, n
  <1> SUFFICES ASSUME NEW i \in DOMAIN g, g[i].kind = "notify"
               PROVE  \E j \in 1 .. i - 1 :
                        /\ IsAck(g[j], "subscribed", g[i].sub)
                        /\ \A k \in j + 1 .. i - 1 :
                             ~IsAck(g[k], "unsubscribed", g[i].sub)
    BY DEF Sensible, g
  <1>2. \E j \in 1 .. i - 1 :
          /\ IsAck(w[j], "subscribed", g[i].sub)
          /\ \A k \in j + 1 .. i - 1 : ~IsAck(w[k], "unsubscribed", g[i].sub)
    <2>1. CASE i = n + 1
      BY <1>1, <2>1 DEF AckedIn, n
    <2>2. CASE i # n + 1
      <3>1. i \in 1 .. n /\ g[i] = w[i]
        BY <1>1, <2>2
      <3> QED BY <1>1, <3>1 DEF Sensible
    <2> QED BY <2>1, <2>2
  <1>3. \A j \in 1 .. i - 1 : g[j] = w[j]
    BY <1>1
  <1> QED BY <1>1, <1>2, <1>3

(* Nobody handles connection c, nor waits for its write buffer.            *)
Unserved(c) == handler[c] = "none" /\ drain[c] = << >>

(* A subscription of an open connection has been acknowledged to it, and   *)
(* not been dropped since: this is why a publish task may write to it.     *)
WireInv ==
    /\ RegistryInv
    /\ conn = [c \in Clients |-> conn[c]] /\ written = [c \in Clients |-> written[c]]
    /\ drain = [c \in Clients |-> drain[c]]
    /\ \A c \in Clients :
         /\ AnySeq(written[c]) /\ Sensible(written[c])
         /\ conn[c] = "absent" => Unserved(c)
    /\ \A s \in DOMAIN subClients :
         conn[subClients[s]] = "open" => AckedIn(written[subClients[s]], s)

(* A step that writes nothing, adds no subscription and opens nothing.     *)
LEMMA SilentKeepsWire ==
    ASSUME WireInv, RegistryInv', UNCHANGED written,
           conn' = [c \in Clients |-> conn'[c]],
           drain' = [c \in Clients |-> drain'[c]],
           \A c \in Clients :
             /\ conn'[c] = "open" => conn[c] = "open"
             /\ conn'[c] = "absent" => Unserved(c)',
           \A s \in DOMAIN subClients' :
             s \in DOMAIN subClients /\ subClients'[s] = subClients[s]
    PROVE  WireInv'
  <1>1. \A s \in DOMAIN subClients : subClients[s] \in Clients
    BY DEF WireInv, RegistryInv
  <1> QED BY <1>1 DEF WireInv

(* A step that writes frame f to connection c.                             *)
LEMMA WriteKeepsWire ==
    ASSUME WireInv, RegistryInv', NEW c \in Clients, NEW f,
           written' = [written EXCEPT ![c] = Append(@, f)],
           drain' = [d \in Clients |-> drain'[d]],
           UNCHANGED conn,
           \A d \in Clients : conn[d] = "absent" => Unserved(d)',
           f.kind = "notify" => AckedIn(written[c], f.sub),
           \A s \in DOMAIN subClients' :
             \/ subClients'[s] = c /\ IsAck(f, "subscribed", s)
             \/ /\ s \in DOMAIN subClients /\ subClients'[s] = subClients[s]
                /\ ~IsAck(f, "unsubscribed", s)
    PROVE  WireInv'
  <1>1. /\ written'[c] = Append(written[c], f)
        /\ \A d \in Clients \ {c} : written'[d] = written[d]
        /\ written' = [d \in Clients |-> written'[d]]
    BY DEF WireInv
  <1>2. AnySeq(written'[c]) /\ Sensible(written'[c])
    BY <1>1, AppendFrame, AppendSensibly DEF WireInv
  <1>3. \A d \in Clients : AnySeq(written'[d]) /\ Sensible(written'[d])
    BY <1>1, <1>2 DEF WireInv
  <1>4. ASSUME NEW s \in DOMAIN subClients', conn[subClients'[s]] = "open"
        PROVE  AckedIn(written'[subClients'[s]], s)
    <2>0. AnySeq(written[c])
      BY DEF WireInv
    <2>1. CASE subClients'[s] = c /\ IsAck(f, "subscribed", s)
      BY <1>1, <2>0, <2>1, AppendAcks
    <2>2. CASE /\ s \in DOMAIN subClients /\ subClients'[s] = subClients[s]
               /\ ~IsAck(f, "unsubscribed", s)
      <3>1. AckedIn(written[subClients[s]], s) /\ subClients[s] \in Clients
        BY <1>4, <2>2 DEF WireInv, RegistryInv
      <3>2. CASE subClients[s] = c
        BY <1>1, <2>0, <2>2, <3>1, <3>2, AppendAcks
      <3>3. CASE subClients[s] # c
        BY <1>1, <2>2, <3>1, <3>3
      <3> QED BY <3>2, <3>3
    <2> QED BY <2>1, <2>2
  <1> QED BY <1>1, <1>3, <1>4 DEF WireInv

LEMMA NextKeepsWire == WireInv /\ [Next]_fanoutVars => WireInv'
  <1> SUFFICES ASSUME WireInv, [Next]_fanoutVars PROVE WireInv'
    OBVIOUS
  <1>0. /\ RegistryInv /\ RegistryInv'
        /\ conn = [c \in Clients |-> conn[c]] /\ written = [c \in Clients |-> written[c]]
        /\ drain = [c \in Clients |-> drain[c]]
        /\ handler \in [Clients -> HandlerStates]
        /\ \A c \in Clients : conn[c] = "absent" => Unserved(c)
    BY NextKeepsRegistryInv DEF WireInv, RegistryInv
  <1>1. ASSUME NEW c \in Clients, Connect(c) PROVE WireInv'
    <2>1. /\ conn' = [conn EXCEPT ![c] = "open"] /\ handler[c] = "none"
          /\ handler' = [handler EXCEPT ![c] = "recv"]
          /\ UNCHANGED << written, drain, subClients >>
      BY <1>0, <1>1 DEF Connect, registryVars, Unserved
    <2>2. \A s \in DOMAIN subClients : subClients[s] \in Clients \ {c}
      BY <1>0, <2>1 DEF RegistryInv, RegistryAgreement
    <2>3. \A d \in Clients \ {c} : conn'[d] = conn[d] /\ handler'[d] = handler[d]
      BY <1>0, <2>1
    <2>4. conn'[c] = "open" /\ conn' = [d \in Clients |-> conn'[d]]
      BY <1>0, <2>1
    <2> QED BY <1>0, <2>1, <2>2, <2>3, <2>4 DEF WireInv, Unserved
  <1>2. ASSUME NEW c \in Clients,
               \/ CloseConnection(c) \/ ConnectionClosed(c) \/ ConnectionLost(c)
               \/ Resume(c) \/ \E request \in Requests : SendRequest(c, request)
               \/ HandlerRaises(c) \/ DrainReturns(c) \/ DrainRaises(c)
        PROVE  WireInv'
    <2>1. /\ UNCHANGED << written, subClients >>
          /\ \/ conn' = conn
             \/ conn[c] # "absent" /\ conn' = [conn EXCEPT ![c] = "closing"]
             \/ conn[c] # "absent" /\ conn' = [conn EXCEPT ![c] = "closed"]
      BY <1>2 DEF CloseConnection, ConnectionClosed, ConnectionLost, Resume, SendRequest,
         HandlerRaises, DrainReturns, DrainRaises, registryVars
    <2>2. \/ UNCHANGED << handler, drain >>
          \/ /\ ~Unserved(c)
             /\ handler' = handler \/ \E p \in Running : handler' = [handler EXCEPT ![c] = p]
             /\ drain' = drain \/ drain' = [drain EXCEPT ![c] = Tail(@)]
      BY <1>2 DEF CloseConnection, ConnectionClosed, ConnectionLost, Resume, SendRequest,
         HandlerRaises, DrainReturns, DrainRaises, Running, Unserved
    <2>3. /\ conn' = [d \in Clients |-> conn'[d]]
          /\ \A d \in Clients : conn'[d] = "open" => conn[d] = "open"
          /\ \A d \in Clients : conn'[d] = "absent" => conn[d] = "absent"
      BY <1>0, <2>1
    <2>4. drain' = [d \in Clients |-> drain'[d]]
      BY <1>0, <2>2
    <2>5. \A d \in Clients : Unserved(d) => Unserved(d)'
      BY <1>0, <2>2 DEF Unserved
    <2> QED BY <1>0, <2>1, <2>3, <2>4, <2>5, SilentKeepsWire
  <1>3. ASSUME NEW c \in Clients, HandlerEnds(c) PROVE WireInv'
    <2>1. /\ Cleanup(c) /\ UNCHANGED << written, drain >> /\ ~Unserved(c)
          /\ handler' = [handler EXCEPT ![c] = "done"]
          /\ conn' = [conn EXCEPT ![c] = IF @ = "open" THEN "closing" ELSE @]
      BY <1>0, <1>3 DEF HandlerEnds, Unserved
    <2>2. \A s \in DOMAIN subClients' :
            s \in DOMAIN subClients /\ subClients'[s] = subClients[s]
      BY <2>1 DEF Cleanup, Without
    <2>3. \A d \in Clients : Unserved(d) => Unserved(d)'
      BY <1>0, <2>1 DEF Unserved
    <2> QED BY <1>0, <2>1, <2>2, <2>3, SilentKeepsWire
  <1>4. ASSUME NEW c \in Clients, HandleRequest(c) PROVE WireInv'
    <2> DEFINE request == Head(inbox[c])
               f == Response(request)
    <2>1. /\ handler[c] = "recv" /\ Dispatch(c, request) /\ UNCHANGED conn
          /\ \A d \in Clients \ {c} : handler'[d] = handler[d]
      BY <1>0, <1>4 DEF HandleRequest
    <2>6. /\ drain' = [d \in Clients |-> drain'[d]]
          /\ \A d \in Clients \ {c} : drain'[d] = drain[d]
      BY <1>0, <1>4 DEF HandleRequest, Write
    <2>7. \A d \in Clients : conn[d] = "absent" => Unserved(d)'
      BY <1>0, <2>1, <2>6 DEF Unserved
    <2>2. \A s \in DOMAIN subClients' :
            \/ /\ subClients'[s] = c /\ IsAck(f, "subscribed", s)
            \/ /\ s \in DOMAIN subClients /\ subClients'[s] = subClients[s]
               /\ ~IsAck(f, "unsubscribed", s)
      <3>1. CASE request.kind = "subscribe"
        <4>1. RegisterSubscription(c, request.agents)
              /\ f.kind = "subscribed" /\ f.sub = nextSub
          BY <2>1, <3>1 DEF Dispatch, Response
        <4> QED BY <4>1 DEF RegisterSubscription, With, IsAck
      <3>2. CASE request.kind = "unsubscribe"
        <4>1. DropSubscription(c, request.sub) /\ f.sub = request.sub
          BY <2>1, <3>2 DEF Dispatch, Response
        <4> QED BY <4>1 DEF DropSubscription, Without, IsAck
      <3>3. CASE request.kind \notin {"subscribe", "unsubscribe"}
        <4>1. UNCHANGED subClients /\ f.kind # "unsubscribed"
          BY <2>1, <3>3 DEF Dispatch, Response, Other, registryVars
        <4> QED BY <4>1 DEF IsAck
      <3> QED BY <3>1, <3>2, <3>3
    <2>3. f.kind # "notify"
      BY DEF Response, Other
    <2>4. CASE written' = [written EXCEPT ![c] = Append(@, f)]
      <3> HIDE DEF f, request
      <3> QED BY <1>0, <2>1, <2>2, <2>3, <2>4, <2>6, <2>7, WriteKeepsWire
    <2>5. CASE UNCHANGED written /\ conn[c] # "open"
      <3> HIDE DEF f, request
      <3>1. ASSUME NEW s \in DOMAIN subClients', conn[subClients'[s]] = "open"
            PROVE  AckedIn(written[subClients'[s]], s)
        BY <2>2, <2>5, <3>1 DEF WireInv
      <3> QED BY <1>0, <2>1, <2>5, <2>6, <2>7, <3>1 DEF WireInv
    <2> QED BY <1>4, <2>4, <2>5 DEF HandleRequest, Write
  <1>5. ASSUME NEW t \in DOMAIN tasks, Publishing(t) PROVE WireInv'
    <2>1. UNCHANGED << handler, subClients >>
      BY <1>5 DEF Publishing, StartPublish, PublishSkips, PublishSends, PublishEnds,
         PublishAwaitRaises, registryVars
    <2>2. CASE UNCHANGED << conn, written, drain >>
      BY <1>0, <2>1, <2>2, SilentKeepsWire DEF Unserved
    <2>3. ASSUME NEW s, s \in DOMAIN subClients, PublishWrites(t, s)
          PROVE  WireInv'
      <3> DEFINE c == subClients[s]
                 f == Notification(t, s)
      <3>1. /\ f.kind = "notify" /\ f.sub = s
            /\ \A x : ~IsAck(f, "unsubscribed", x)
        BY DEF Notification, IsAck
      <3>2. /\ conn[c] = "open" /\ UNCHANGED conn
            /\ written' = [written EXCEPT ![c] = Append(@, f)]
        BY <2>3 DEF PublishWrites, Write
      <3>3. c \in Clients /\ AckedIn(written[c], s)
        BY <1>0, <2>3, <3>2 DEF WireInv, RegistryInv
      <3>4. /\ drain' = [d \in Clients |-> drain'[d]]
            /\ \A d \in Clients \ {c} : drain'[d] = drain[d]
        BY <1>0, <2>3 DEF PublishWrites, Write
      <3>5. \A d \in Clients : conn[d] = "absent" => Unserved(d)'
        BY <1>0, <2>1, <3>2, <3>4 DEF Unserved
      <3> HIDE DEF c, f
      <3> QED BY <1>0, <2>1, <3>1, <3>2, <3>3, <3>4, <3>5, WriteKeepsWire
    <2>4. \/ UNCHANGED << conn, written, drain >>
          \/ \E s \in DOMAIN subClients : PublishWrites(t, s)
      BY <1>5 DEF Publishing, StartPublish, PublishSkips, PublishSends, PublishEnds,
         PublishAwaitRaises, PublishAwaitsClose, PublishRaises, connectionVars
    <2> QED BY <2>2, <2>3, <2>4
  <1>6. ASSUME NEW a \in Agents, Emit(a) PROVE WireInv'
    BY <1>0, <1>6, SilentKeepsWire DEF Emit, connectionVars, registryVars, Unserved
  <1>7. CASE StopBegins
    BY <1>0, <1>7, SilentKeepsWire DEF StopBegins, registryVars, Unserved
  <1>8. CASE StopEnds
    <2>1. DOMAIN subClients' = {}
      BY <1>8 DEF StopEnds, Without
    <2> QED BY <1>0, <1>8, <2>1, SilentKeepsWire DEF StopEnds, connectionVars, Unserved
  <1>9. CASE UNCHANGED fanoutVars
    BY <1>0, <1>9, SilentKeepsWire DEF fanoutVars, connectionVars, registryVars, Unserved
  <1> QED BY <1>1, <1>2, <1>3, <1>4, <1>5, <1>6, <1>7, <1>8, <1>9 DEF Next

LEMMA InitEstablishesWireInv == Init => WireInv
  <1> SUFFICES ASSUME Init PROVE WireInv
    OBVIOUS
  <1>1. RegistryInv
    BY InitEstablishesRegistryInv
  <1>2. AnySeq(<< >>) /\ Sensible(<< >>)
    BY EmptySeq DEF AnySeq, Sensible
  <1> QED BY <1>1, <1>2 DEF Init, WireInv, Unserved

(* Every notification a client is sent comes after the answer that told it *)
(* the subscription, and before any answer that ended it.                  *)
THEOREM NotificationsMakeSense == Spec => []NotifiedOnlyWhileSubscribed
  <1>1. WireInv => NotifiedOnlyWhileSubscribed
    BY DEF WireInv, Sensible, NotifiedOnlyWhileSubscribed
  <1> QED BY <1>1, InitEstablishesWireInv, NextKeepsWire, PTL DEF Spec
=============================================================================
