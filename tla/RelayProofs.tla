----------------------------- MODULE RelayProofs -----------------------------
(***************************************************************************)
(* Proofs about Relay, for any keys, connections and capacities: the hub   *)
(* names exactly the pumping connections whose session is not revoked, and *)
(* it implements the registry.                                             *)
(*                                                                         *)
(* Frames play no part here.  Lemma HubSteps reduces a step to what it     *)
(* does to the hub, the sessions and the places of the server's tasks.     *)
(***************************************************************************)
EXTENDS Relay, SequenceTheorems, TLAPS

hubVars == <<key, srv, active, peers, retired>>

HubType ==
    /\ key \in [Conns -> Keys \cup {None}]
    /\ srv \in [Conns -> Pumping \cup {"none", "auth", "hello", "ack", "done"}]
    /\ active \subseteq Conns
    /\ peers \in [Keys -> Conns \cup {None}]
    /\ retired \subseteq Conns

\* A connection that has a task was dialled by somebody.
Owned == \A c \in Conns : srv[c] # "none" <=> key[c] \in Keys

\* Before its registration a connection has never been in the hub, and from the
\* proof of its identity on it has a session.
Newcomers ==
    \A c \in Conns :
        /\ srv[c] \in {"none", "auth", "hello", "ack"} => c \notin retired
        /\ srv[c] \in {"hello", "ack"} => c \in active
        /\ srv[c] \in {"none", "auth", "done"} => c \notin active

\* A connection that is in the hub has not left it before.
NoReturn == \A k \in Keys : peers[k] \notin retired

IInv == HubType /\ Owned /\ Newcomers /\ NoReturn /\ RegisteredIsActive

-----------------------------------------------------------------------------

\* The task goes from select to write or back.
Switch(c) ==
    /\ srv[c] \in Pumping
    /\ \E p \in Pumping : srv' = [srv EXCEPT ![c] = p]
    /\ UNCHANGED <<key, active, peers, retired>>

\* The task of an accepted connection ends.
End(c) == srv[c] \in Pumping \cup {"auth", "hello", "ack"} /\ EndServer(c)

HubStep(c) ==
    \/ \E k \in Keys : Dial(k, c)
    \/ ServerConfirm(c)
    \/ ServerInfo(c)
    \/ Register(c)
    \/ End(c)
    \/ Switch(c)

\* Every step leaves the hub and the server's tasks alone, or is one of the six
\* kinds of HubStep.
LEMMA HubSteps ==
    ASSUME [Next]_vars
    PROVE  UNCHANGED hubVars \/ \E c \in Conns : HubStep(c)
<1>1. CASE UNCHANGED vars
  BY <1>1 DEF vars, hubVars
<1>2. ASSUME NEW k \in Keys, NEW c \in Conns, Dial(k, c) \/ ClientSend(c, k)
      PROVE  UNCHANGED hubVars \/ HubStep(c)
  <2>1. CASE Dial(k, c)
    BY <2>1 DEF HubStep
  <2>2. CASE ClientSend(c, k)
    BY <2>2, Zenon DEF ClientSend, BondUp, WriteUp, CloseClient, serverVars, hubVars
  <2> QED BY <1>2, <2>1, <2>2
<1>3. ASSUME NEW c \in Conns,
             \/ ClientHello(c) \/ ClientReady(c) \/ BondReady(c)
             \/ DialTimeout(c) \/ ClientEnd(c) \/ ClientPing(c) \/ ClientTask(c)
             \/ Cut(c)
      PROVE  UNCHANGED hubVars
  BY <1>3 DEF ClientHello, ClientReady, BondReady, DialTimeout, ClientEnd,
      ClientPing, ClientTask, ClientRead, ClientWrite, Cut, ClientStep,
      CloseClient, WriteUp, serverVars, hubVars
<1>4. ASSUME NEW c \in Conns, ServerConfirm(c) \/ ServerInfo(c) \/ HandshakeEnd(c)
      PROVE  HubStep(c)
  BY <1>4 DEF HandshakeEnd, End, HubStep
<1>5. ASSUME NEW c \in Conns, ServerTask(c)
      PROVE  UNCHANGED hubVars \/ HubStep(c)
  <2>1. CASE Register(c)
    BY <2>1 DEF HubStep
  <2>2. CASE ServerRead(c)
    BY <2>2 DEF ServerRead, clientVars, hubVars
  <2>3. CASE ServerTake(c)
    BY <2>3 DEF ServerTake, Switch, End, HubStep, Pumping, clientVars, hubVars
  <2>4. CASE ServerWrite(c)
    BY <2>4 DEF ServerWrite, Switch, HubStep, Pumping, clientVars
  <2>5. CASE ServerEof(c) \/ ServerIdle(c)
    BY <2>5 DEF ServerEof, ServerIdle, End, HubStep, Pumping
  <2> QED BY <1>5, <2>1, <2>2, <2>3, <2>4, <2>5 DEF ServerTask
<1> QED BY <1>1, <1>2, <1>3, <1>4, <1>5 DEF Next

\* The initial state satisfies the inductive invariant.
LEMMA InitIInv == Init => IInv
BY ConstantsAssumption, SMTT(30) DEF Init, IInv, HubType, Owned, Newcomers, NoReturn,
   RegisteredIsActive, Pumping

\* What a step does to one connection's place and session keeps the invariant.
LEMMA HubStepIInv ==
    ASSUME IInv, NEW c \in Conns, HubStep(c)
    PROVE  IInv'
<1> USE ConstantsAssumption DEF IInv, HubType, Owned, Newcomers, NoReturn,
        RegisteredIsActive, Pumping, clientVars
<1>1. CASE \E k \in Keys : Dial(k, c)
  BY <1>1 DEF Dial
<1>2. CASE ServerConfirm(c)
  BY <1>2 DEF ServerConfirm, ServerStep
<1>3. CASE ServerInfo(c)
  BY <1>3 DEF ServerInfo, ServerStep
<1>4. CASE Register(c)
  <2> DEFINE k == key[c]
             old == peers[k]
  <2>1. /\ k \in Keys
        /\ \A d \in Conns : d # c => srv'[d] = srv[d]
        /\ srv'[c] = "select"
        /\ \A j \in Keys : j # k => peers'[j] = peers[j]
        /\ peers'[k] = c
        /\ active' = active \ {old}
        /\ retired' = retired \cup ({old} \ {None})
        /\ key' = key
    BY <1>4 DEF Register
  <2>2. old # c /\ \A j \in Keys : peers[j] # c
    BY <1>4, <2>1 DEF Register
  <2>3. old # None => old \in Conns /\ srv[old] \in Pumping /\ key[old] = k
    BY <2>1
  <2>4. HubType'
    <3>1. peers' \in [Keys -> Conns \cup {None}]
      BY <1>4, <2>1 DEF Register
    <3>2. srv' \in [Conns -> Pumping \cup {"none", "auth", "hello", "ack", "done"}]
      BY <1>4 DEF Register
    <3>3. active' \subseteq Conns /\ retired' \subseteq Conns
      BY <2>1, <2>3, ZenonT(40)
    <3> QED BY <2>1, <3>1, <3>2, <3>3
  <2>5. Owned'
    BY <2>1
  <2>6. Newcomers'
    BY <2>1, <2>2, <2>3
  <2>7. NoReturn'
    BY <1>4, <2>1, <2>2, <2>3 DEF Register
  <2>8. ASSUME NEW j \in Keys, peers'[j] # None
        PROVE  key'[peers'[j]] = j /\ srv'[peers'[j]] \in Pumping
    <3>1. CASE j = k
      BY <2>1, <3>1
    <3>2. CASE j # k
      <4>1. peers'[j] = peers[j] /\ peers[j] # c /\ peers[j] \in Conns
        BY <2>1, <2>2, <2>8, <3>2
      <4>2. key[peers[j]] = j /\ srv[peers[j]] \in Pumping
        BY <4>1
      <4>3. key'[peers'[j]] = key[peers[j]] /\ srv'[peers'[j]] = srv[peers[j]]
        BY <2>1, <4>1, ZenonT(40)
      <4> QED BY <4>2, <4>3
    <3> QED BY <3>1, <3>2
  <2>9. ASSUME NEW d \in Conns, srv'[d] \in Pumping
        PROVE  d \in active' <=> peers'[key'[d]] = d
    <3>1. CASE d = c
      BY <1>4, <2>1, <2>2, <3>1 DEF Register
    <3>2. CASE d # c
      BY <2>1, <2>9, <3>2, SMTT(30)
    <3> QED BY <3>1, <3>2
  <2> QED BY <2>4, <2>5, <2>6, <2>7, <2>8, <2>9
<1>5. CASE End(c)
  <2> DEFINE k == key[c]
  <2>1. /\ k \in Keys
        /\ \A d \in Conns : d # c => srv'[d] = srv[d]
        /\ srv'[c] = "done"
        /\ \A j \in Keys : j # k => peers'[j] = peers[j]
        /\ peers'[k] = IF peers[k] = c THEN None ELSE peers[k]
        /\ active' = active \ {c}
        /\ retired' = IF peers[k] = c THEN retired \cup {c} ELSE retired
        /\ key' = key
    BY <1>5 DEF End, EndServer, Unregistered
  <2>2. \A j \in Keys : peers'[j] # c
    BY <2>1
  <2>3. HubType'
    <3>1. peers' \in [Keys -> Conns \cup {None}]
      BY <1>5, <2>1 DEF End, EndServer, Unregistered
    <3>2. srv' \in [Conns -> Pumping \cup {"none", "auth", "hello", "ack", "done"}]
      BY <1>5 DEF End, EndServer
    <3> QED BY <2>1, <3>1, <3>2
  <2>4. Owned'
    BY <1>5, <2>1 DEF End
  <2>5. Newcomers'
    BY <2>1
  <2>6. NoReturn'
    <3> SUFFICES ASSUME NEW j \in Keys PROVE peers'[j] \notin retired'
      BY DEF NoReturn
    <3>1. peers'[j] = None \/ peers'[j] = peers[j]
      BY <2>1
    <3>2. None \notin retired'
      BY <2>1, ZenonT(40)
    <3> QED BY <2>1, <2>2, <3>1, <3>2
  <2>7. ASSUME NEW j \in Keys, peers'[j] # None
        PROVE  key'[peers'[j]] = j /\ srv'[peers'[j]] \in Pumping
    <3>1. peers'[j] = peers[j] /\ peers[j] # c /\ peers[j] \in Conns
      BY <2>1, <2>2, <2>7
    <3>2. key[peers[j]] = j /\ srv[peers[j]] \in Pumping
      BY <3>1
    <3>3. key'[peers'[j]] = key[peers[j]] /\ srv'[peers'[j]] = srv[peers[j]]
      BY <2>1, <3>1, Zenon
    <3> QED BY <3>2, <3>3
  <2>8. ASSUME NEW d \in Conns, srv'[d] \in Pumping
        PROVE  d \in active' <=> peers'[key'[d]] = d
    <3>1. d # c /\ srv[d] \in Pumping /\ key[d] \in Keys
      BY <2>1, <2>8
    <3> QED BY <2>1, <3>1
  <2> QED BY <2>3, <2>4, <2>5, <2>6, <2>7, <2>8
<1>6. CASE Switch(c)
  BY <1>6 DEF Switch
<1> QED BY <1>1, <1>2, <1>3, <1>4, <1>5, <1>6 DEF HubStep

\* IInv is inductive.
THEOREM IInvHolds == Spec => []IInv
<1>1. IInv /\ [Next]_vars => IInv'
  <2> SUFFICES ASSUME IInv, [Next]_vars PROVE IInv'
    OBVIOUS
  <2>1. CASE UNCHANGED hubVars
    BY <2>1 DEF hubVars, IInv, HubType, Owned, Newcomers, NoReturn, RegisteredIsActive
  <2> QED BY <2>1, HubSteps, HubStepIInv
<1> QED BY InitIInv, <1>1, PTL DEF Spec

\* hub.rs, auth.rs: at every moment a key is registered to a connection that is
\* pumping for it, and exactly the registered ones have a session that is not
\* revoked, for any number of clients and connections.
THEOREM RegisteredActive == Spec => []RegisteredIsActive
<1>1. IInv => RegisteredIsActive
  BY DEF IInv
<1> QED BY IInvHolds, <1>1, PTL

\* A step of the relay is a step of the registry or leaves it alone.
LEMMA StepRefines ==
    ASSUME IInv, [Next]_vars
    PROVE  [Registry!Next]_<<peers, retired>>
<1>1. CASE UNCHANGED hubVars
  BY <1>1 DEF hubVars
<1>2. ASSUME NEW c \in Conns, HubStep(c)
      PROVE  [Registry!Next]_<<peers, retired>>
  <2> USE DEF IInv, HubType, Owned, Newcomers, NoReturn, RegisteredIsActive,
          Pumping
  <2>1. CASE \/ \E k \in Keys : Dial(k, c)
             \/ ServerConfirm(c) \/ ServerInfo(c) \/ Switch(c)
    BY <2>1 DEF Dial, ServerConfirm, ServerInfo, ServerStep, Switch
  <2>2. CASE Register(c)
    <3>1. key[c] \in Keys
      BY <2>2 DEF Register
    <3>2. c \notin Registry!Served \cup retired
      BY <2>2 DEF Register, Registry!Served
    <3>3. Registry!TakeOver(key[c], c)
      BY <2>2, <3>2 DEF Register, Registry!TakeOver
    <3> QED BY <3>1, <3>3 DEF Registry!Next
  <2>3. CASE End(c)
    <3>1. key[c] \in Keys
      BY <2>3 DEF End
    <3>2. CASE peers[key[c]] = c
      <4>1. Registry!GiveUp(key[c])
        BY <2>3, <3>1, <3>2, ConstantsAssumption
           DEF End, EndServer, Unregistered, Registry!GiveUp
      <4> QED BY <3>1, <4>1 DEF Registry!Next
    <3>3. CASE peers[key[c]] # c
      BY <2>3, <3>1, <3>3 DEF End, EndServer, Unregistered
    <3> QED BY <3>2, <3>3
  <2> QED BY <1>2, <2>1, <2>2, <2>3, Zenon DEF HubStep
<1> QED BY <1>1, <1>2, HubSteps

\* The relay implements the registry: one connection per key, the newest
\* registration wins, no connection returns.
THEOREM Implements == Spec => ImplementsRegistry
<1>1. Init => Registry!Init
  BY DEF Init, Registry!Init
<1>2. IInv /\ [Next]_vars => [Registry!Next]_<<peers, retired>>
  BY StepRefines
<1> QED BY <1>1, <1>2, IInvHolds, PTL DEF Spec, ImplementsRegistry, Registry!Spec

-----------------------------------------------------------------------------
(* Packets *)

FrameType ==
    /\ queue \in [Conns -> Seq(Frame)]
    /\ up \in [Conns -> Seq(Frame)]
    /\ cli \in [Conns -> Dialling \cup {"none", "up", "write", "closed"}]
    /\ cliOut \in [Conns -> Frame \cup {None}]
    /\ \A c \in Conns : cli[c] = "write" => cliOut[c] \in Frame

\* Removing a frame leaves a sequence of frames.
LEMMA WithoutType ==
    ASSUME NEW s \in Seq(Frame), NEW i \in 1 .. Len(s)
    PROVE  Without(s, i) \in Seq(Frame)
<1>1. SubSeq(s, 1, i - 1) \in Seq(Frame)
  BY SubSeqProperties
<1>2. SubSeq(s, i + 1, Len(s)) \in Seq(Frame)
  BY SubSeqProperties
<1> QED BY <1>1, <1>2, ConcatProperties DEF Without

\* The frames that the server and the clients make are frames.
LEMMA Frames ==
    /\ \A t \in {"Proof", "Confirm", "ClientInfo", "ServerInfo", "Ping", "Pong"} :
          Msg(t) \in Frame
    /\ \A d \in Keys : /\ [t |-> "SendPacket", dst |-> d] \in Frame
                       /\ [t |-> "PeerGone", dst |-> d] \in Frame
    /\ \A k \in Keys, c \in Conns : [t |-> "RecvPacket", src |-> k, via |-> c] \in Frame
    /\ \A f \in Frame : f.t = "SendPacket" => f.dst \in Keys
    /\ \A f \in Frame : f.t = "RecvPacket" => f.src \in Keys /\ f.via \in Conns
BY DEF Frame, Message, Packet, Msg

\* A channel of frames stays one when a frame or a sequence of frames is added.
LEMMA Adding ==
    ASSUME NEW u \in [Conns -> Seq(Frame)], NEW c \in Conns
    PROVE  /\ \A f \in Frame : Append(u[c], f) \in Seq(Frame)
           /\ \A w \in Seq(Frame) : u[c] \o w \in Seq(Frame)
BY ConcatProperties

\* The initial queues are empty.
LEMMA InitFrameType == Init => FrameType
BY DEF Init, FrameType, Dialling

\* A step of a client keeps the frames' types.
LEMMA ClientFrameType ==
    ASSUME IInv, FrameType, NEW c \in Conns,
           \/ \E k \in Keys : Dial(k, c) \/ ClientSend(c, k)
           \/ ClientHello(c) \/ ClientReady(c) \/ BondReady(c)
           \/ DialTimeout(c) \/ ClientEnd(c) \/ ClientPing(c) \/ ClientTask(c)
           \/ Cut(c)
    PROVE  FrameType' /\ (UNCHANGED queue)
<1> USE DEF FrameType, serverVars, Dialling
<1>1. ASSUME NEW k \in Keys, Dial(k, c) PROVE FrameType' /\ (UNCHANGED queue)
  BY <1>1, Frames DEF Dial
<1>2. ASSUME NEW f \in Frame, WriteUp(c, f) PROVE FrameType' /\ (UNCHANGED queue)
  <2> Append(up[c], f) \in Seq(Frame)
    BY Adding
  <2>1. up' \in [Conns -> Seq(Frame)] /\ (UNCHANGED queue)
    BY <1>2, Zenon DEF WriteUp
  <2>2. /\ cli' \in [Conns -> Dialling \cup {"none", "up", "write", "closed"}]
        /\ cliOut' \in [Conns -> Frame \cup {None}]
        /\ \A d \in Conns : cli'[d] = "write" => cliOut'[d] \in Frame
    BY <1>2, ZenonT(40) DEF WriteUp
  <2> QED BY <2>1, <2>2
<1>3. ASSUME CloseClient(c) PROVE FrameType' /\ (UNCHANGED queue)
  BY <1>3 DEF CloseClient
<1>4. ASSUME NEW f \in Frame, BondUp(c, f) PROVE FrameType' /\ (UNCHANGED queue)
  <2>1. CASE UNCHANGED <<serverVars, cli, cliOut>>
             /\ up' = [up EXCEPT ![c] = IF srv[c] = "done" THEN @ ELSE Append(@, f)]
    <3>1. Append(up[c], f) \in Seq(Frame)
      BY Adding
    <3>2. up' \in [Conns -> Seq(Frame)]
      BY <2>1, <3>1, Zenon
    <3> QED BY <2>1, <3>2
  <2> QED BY <1>3, <1>4, <2>1 DEF BondUp
<1>5. ASSUME NEW k \in Keys, ClientSend(c, k) PROVE FrameType' /\ (UNCHANGED queue)
  BY <1>2, <1>4, <1>5, Frames, Zenon DEF ClientSend
<1>6. CASE ClientHello(c) \/ ClientReady(c)
  <2>1. PICK w \in {<<>>, <<Msg("ClientInfo")>>}, q \in {"hello", "up"} :
           /\ up' = [up EXCEPT ![c] = IF srv[c] = "done" THEN @ ELSE @ \o w]
           /\ cli' = [cli EXCEPT ![c] = q]
           /\ UNCHANGED <<serverVars, cliOut>>
    BY <1>6 DEF ClientHello, ClientReady, ClientStep
  <2>2. w \in Seq(Frame)
    <3>1. Msg("ClientInfo") \in Frame
      BY Frames
    <3>2. <<Msg("ClientInfo")>> \in Seq(Frame) /\ <<>> \in Seq(Frame)
      BY <3>1
    <3> QED BY <3>2, Zenon
  <2>3. up[c] \o w \in Seq(Frame)
    BY <2>2, Adding
  <2>4. up' \in [Conns -> Seq(Frame)]
    BY <2>1, <2>3
  <2> QED BY <2>1, <2>4, SMTT(30)
<1>7. CASE BondReady(c)
  BY <1>7 DEF BondReady
<1>8. CASE DialTimeout(c) \/ ClientEnd(c)
  BY <1>3, <1>8, SMTT(30) DEF DialTimeout, ClientEnd
<1>9. CASE ClientPing(c)
  BY <1>2, <1>9, Frames DEF ClientPing
<1>10. CASE ClientTask(c)
  <2>1. CASE ClientRead(c)
    BY <2>1 DEF ClientRead
  <2>2. CASE ClientWrite(c)
    <3>1. cliOut[c] \in Frame
      BY <2>2 DEF ClientWrite
    <3>2. Append(up[c], cliOut[c]) \in Seq(Frame)
      BY <3>1, Adding
    <3>3. up' \in [Conns -> Seq(Frame)]
      BY <2>2, <3>2 DEF ClientWrite
    <3> QED BY <2>2, <3>3 DEF ClientWrite
  <2> QED BY <1>10, <2>1, <2>2 DEF ClientTask
<1>11. CASE Cut(c)
  BY <1>11, SMTT(30) DEF Cut
<1> QED BY <1>1, <1>5, <1>6, <1>7, <1>8, <1>9, <1>10, <1>11, SMTT(30)

\* What a step of the server's task of c does to the queues: c's own queue loses
\* its head or is dropped, or some queue gets a frame, a packet only if c is
\* registered.
QueueStep(c) ==
    \/ UNCHANGED queue
    \/ queue[c] # <<>> /\ queue' = [queue EXCEPT ![c] = Tail(@)]
    \/ queue' = [queue EXCEPT ![c] = <<>>]
    \/ \E d \in Conns, f \in Frame :
          /\ f.t = "RecvPacket" => peers[key[c]] = c /\ f.src = key[c] /\ f.via = c
          /\ queue' = [queue EXCEPT ![d] = Append(@, f)]
          /\ UNCHANGED <<peers, retired>>

\* A step of the server's task keeps the frames' types and is a QueueStep.
LEMMA ServerFrameType ==
    ASSUME IInv, FrameType, NEW c \in Conns,
           \/ ServerConfirm(c) \/ ServerInfo(c) \/ HandshakeEnd(c) \/ ServerTask(c)
    PROVE  FrameType' /\ QueueStep(c)
<1> USE DEF FrameType, clientVars, Dialling
<1>1. CASE ServerConfirm(c) \/ ServerInfo(c)
  <2>1. /\ up[c] # <<>>
        /\ up' = [up EXCEPT ![c] = Tail(@)]
        /\ UNCHANGED <<queue, cli, cliOut>>
    BY <1>1 DEF ServerConfirm, ServerInfo, ServerStep
  <2>2. up' \in [Conns -> Seq(Frame)]
    <3>1. Tail(up[c]) \in Seq(Frame)
      BY <2>1, SMTT(30)
    <3> QED BY <2>1, <3>1
  <2> QED BY <2>1, <2>2 DEF QueueStep
<1>2. ASSUME EndServer(c) PROVE FrameType' /\ QueueStep(c)
  BY <1>2 DEF EndServer, QueueStep
<1>3. CASE Register(c)
  BY <1>3, Zenon DEF Register, QueueStep
<1>4. CASE ServerRead(c)
  <2>1. PICK i \in Readable(c, up[c]) :
           LET f == up[c][i]
           IN  /\ up' = [up EXCEPT ![c] = Without(@, i)]
               /\ \/ f.t = "SendPacket" /\ queue' = Route(c, f)
                  \/ f.t = "SendPacket" /\ queue' = queue
                  \/ f.t = "Ping" /\ queue' = [queue EXCEPT ![c] = TrySend(@, Msg("Pong"))]
    BY <1>4, Zenon DEF ServerRead
  <2> DEFINE f == up[c][i]
  <2>2. i \in 1 .. Len(up[c])
    BY DEF Readable
  <2>3. f \in Frame
    BY <2>2, SMTT(30)
  <2>4. up' \in [Conns -> Seq(Frame)]
    BY <2>1, <2>2, WithoutType, SMTT(30)
  <2>5. UNCHANGED <<key, cli, cliOut, peers, retired>> /\ key[c] \in Keys
    BY <1>4 DEF ServerRead, IInv, HubType, Owned
  <2>6. ASSUME NEW d \in Conns, NEW g \in Frame,
               g.t = "RecvPacket" => peers[key[c]] = c /\ g.src = key[c] /\ g.via = c,
               queue' = [queue EXCEPT ![d] = TrySend(@, g)]
        PROVE  queue' \in [Conns -> Seq(Frame)] /\ QueueStep(c)
    <3>1. CASE Len(queue[d]) < QueueCap
      <4>1. queue' = [queue EXCEPT ![d] = Append(@, g)]
        BY <2>6, <3>1 DEF TrySend
      <4>2. queue' \in [Conns -> Seq(Frame)]
        <5>1. Append(queue[d], g) \in Seq(Frame)
          BY <2>6, Adding, Zenon
        <5> QED BY <4>1, <5>1, Zenon
      <4>3. QueueStep(c)
        BY <2>5, <2>6, <4>1, ZenonT(40) DEF QueueStep
      <4> QED BY <4>2, <4>3
    <3>2. CASE ~(Len(queue[d]) < QueueCap)
      <4>1. queue' = queue
        BY <2>6, <3>2, SMTT(30) DEF TrySend
      <4> QED BY <4>1 DEF QueueStep
    <3> QED BY <3>1, <3>2
  <2>7. CASE queue' = queue
    BY <2>4, <2>5, <2>7 DEF QueueStep
  <2>8. CASE queue' = [queue EXCEPT ![c] = TrySend(@, Msg("Pong"))]
    <3>1. Msg("Pong") \in Frame /\ Msg("Pong").t # "RecvPacket"
      BY Frames, SMTT(30) DEF Msg
    <3> QED BY <2>4, <2>5, <2>6, <2>8, <3>1, Zenon
  <2>9. CASE f.t = "SendPacket" /\ queue' = Route(c, f)
    <3> DEFINE to == peers[f.dst]
               gone == [t |-> "PeerGone", dst |-> f.dst]
               pkt == [t |-> "RecvPacket", src |-> key[c], via |-> c]
    <3>1. f.dst \in Keys /\ to \in Conns \cup {None}
      BY <2>3, <2>9, Frames DEF IInv, HubType
    <3>2. gone \in Frame /\ pkt \in Frame
      BY <2>5, <3>1, Frames, ZenonT(40)
    <3>3. CASE peers[key[c]] # c
      BY <2>7, <2>9, <3>3 DEF Route
    <3>4. CASE peers[key[c]] = c /\ to = None
      <4>1. queue' = [queue EXCEPT ![c] = TrySend(@, gone)] /\ gone.t # "RecvPacket"
        BY <2>9, <3>4 DEF Route
      <4> QED BY <2>4, <2>5, <2>6, <3>2, <4>1, ZenonT(40)
    <3>5. CASE peers[key[c]] = c /\ to # None
      <4>1. /\ queue' = [queue EXCEPT ![to] = TrySend(@, pkt)]
            /\ pkt.src = key[c] /\ pkt.via = c
            /\ to \in Conns
        BY <2>9, <3>1, <3>5, ZenonT(40) DEF Route
      <4> QED BY <2>4, <2>5, <2>6, <3>2, <3>5, <4>1, Zenon
    <3> QED BY <3>3, <3>4, <3>5
  <2> QED BY <2>1, <2>7, <2>8, <2>9, Zenon
<1>5. CASE ServerTake(c)
  <2>1. CASE queue[c] # <<>> /\ queue' = [queue EXCEPT ![c] = Tail(@)]
             /\ UNCHANGED <<cli, cliOut, up>>
    <3>1. Tail(queue[c]) \in Seq(Frame)
      BY <2>1, SMTT(30)
    <3> QED BY <2>1, <3>1 DEF QueueStep
  <2> QED BY <1>2, <1>5, <2>1, SMTT(30) DEF ServerTake
<1>6. CASE ServerWrite(c)
  BY <1>6, ZenonT(40) DEF ServerWrite, QueueStep
<1> QED BY <1>1, <1>2, <1>3, <1>4, <1>5, <1>6
       , ZenonT(40) DEF HandshakeEnd, ServerTask, ServerEof, ServerIdle

\* Every packet in a queue came from the connection that is registered for its
\* source, or from one that was.
Origins ==
    \A c \in Conns : \A i \in 1 .. Len(queue[c]) :
        LET f == queue[c][i]
        IN  f.t = "RecvPacket" => f.via \in retired \/ peers[f.src] = f.via

\* One queue after a step: a part of the old one, or with a frame added; a packet
\* that is added comes from the connection that is registered for its source.
QueueFate(c) ==
    \/ queue'[c] = queue[c]
    \/ queue'[c] = <<>>
    \/ queue[c] # <<>> /\ queue'[c] = Tail(queue[c])
    \/ \E f \in Frame :
          /\ queue'[c] = Append(queue[c], f)
          /\ f.t = "RecvPacket" => /\ f.src \in Keys /\ f.via \in Conns
                                   /\ f.via \notin retired'
                                   /\ peers'[f.src] = f.via

QInv == IInv /\ FrameType /\ Origins /\ OldPacketsFirst

\* A connection leaves the hub only into the retired ones, for ever.
LEMMA Leaving ==
    ASSUME IInv, [Next]_vars
    PROVE  /\ retired \subseteq retired'
           /\ \A k \in Keys : peers'[k] # peers[k] /\ peers[k] # None => peers[k] \in retired'
<1>1. CASE UNCHANGED <<peers, retired>>
  BY <1>1
<1>2. ASSUME NEW k \in Keys, Registry!GiveUp(k) \/ \E c \in Conns : Registry!TakeOver(k, c)
      PROVE  /\ retired \subseteq retired'
             /\ \A j \in Keys : peers'[j] # peers[j] /\ peers[j] # None => peers[j] \in retired'
  BY <1>2 DEF Registry!GiveUp, Registry!TakeOver, IInv, HubType
<1> QED BY <1>1, <1>2, StepRefines DEF Registry!Next

\* The two invariants of the queues survive a step that drops or delivers frames.
LEMMA QueueStepInv ==
    ASSUME QInv, [Next]_vars, FrameType',
           UNCHANGED queue \/ \E c \in Conns : QueueStep(c)
    PROVE  Origins' /\ OldPacketsFirst'
<1> DEFINE Packets(q) == {i \in 1 .. Len(q) : q[i].t = "RecvPacket"}
<1>1. \A k \in Keys, v \in Conns :
         v \in retired \/ peers[k] = v => v \in retired' \/ peers'[k] = v
  BY Leaving, ConstantsAssumption DEF QInv
\* an old packet that was not retired came from the registered connection
<1>2. ASSUME NEW c \in Conns, NEW i \in Packets(queue[c]), NEW j \in Packets(queue[c]),
             i < j, queue[c][i].src = queue[c][j].src, queue[c][j].via \in retired'
      PROVE  queue[c][i].via \in retired'
  <2> DEFINE f == queue[c][i]
             g == queue[c][j]
  <2>1. f \in Frame /\ g \in Frame /\ f.t = "RecvPacket" /\ g.t = "RecvPacket"
    BY SMTT(30) DEF QInv, FrameType
  <2>2. f.src \in Keys /\ f.via \in Conns /\ g.via \in Conns
    BY <2>1, Frames
  <2>3. CASE f.via \in retired
    BY <2>3, Leaving DEF QInv
  <2>4. CASE f.via \notin retired
    <3>1. peers[f.src] = f.via
      BY <2>1, <2>4, Zenon DEF QInv, Origins
    <3>2. i \in DOMAIN queue[c] /\ j \in DOMAIN queue[c]
      BY SMTT(30) DEF QInv, FrameType
    <3>3. g.via \notin retired
      BY <1>2, <2>1, <2>4, <3>2, Zenon DEF QInv, OldPacketsFirst
    <3>4. peers[g.src] = g.via
      BY <2>1, <3>3 DEF QInv, Origins
    <3> QED BY <1>2, <3>1, <3>4
  <2> QED BY <2>3, <2>4, Zenon
\* every queue after the step: a part of the old one, or with one frame added
<1>3. ASSUME NEW c \in Conns
      PROVE  QueueFate(c)
  <2>1. CASE UNCHANGED queue
    BY <2>1, Zenon DEF QueueFate
  <2>2. ASSUME NEW d \in Conns, QueueStep(d)
        PROVE  QueueFate(c)
    <3>1. CASE \/ queue[d] # <<>> /\ queue' = [queue EXCEPT ![d] = Tail(@)]
               \/ queue' = [queue EXCEPT ![d] = <<>>]
      BY <3>1, ZenonT(40) DEF QInv, FrameType, QueueFate
    <3>2. ASSUME NEW e \in Conns, NEW f \in Frame,
                 f.t = "RecvPacket" => peers[key[d]] = d /\ f.src = key[d] /\ f.via = d,
                 queue' = [queue EXCEPT ![e] = Append(@, f)],
                 UNCHANGED <<peers, retired>>
          PROVE  QueueFate(c)
      <4>1. f.t = "RecvPacket" => f.src \in Keys /\ f.via \in Conns
        BY Frames
      <4>2. f.t = "RecvPacket" => f.via \notin retired' /\ peers'[f.src] = f.via
        BY <3>2, <4>1, Zenon DEF QInv, IInv, NoReturn
      <4>3. queue'[c] = queue[c] \/ queue'[c] = Append(queue[c], f)
        BY <3>2, ZenonT(40) DEF QInv, FrameType
      <4> QED BY <4>1, <4>2, <4>3 DEF QueueFate
    <3> QED BY <2>1, <2>2, <3>1, <3>2, Zenon DEF QueueStep
  <2> QED BY <2>1, <2>2
<1>4. ASSUME NEW c \in Conns, NEW i \in Packets(queue'[c])
      PROVE  LET f == queue'[c][i] IN f.via \in retired' \/ peers'[f.src] = f.via
  <2>1. ASSUME NEW j \in 1 .. Len(queue[c]), queue'[c][i] = queue[c][j]
        PROVE  LET f == queue'[c][i] IN f.via \in retired' \/ peers'[f.src] = f.via
    <3> DEFINE f == queue[c][j]
    <3>1. f \in Frame /\ f.t = "RecvPacket"
      BY <1>4, <2>1, SMTT(30) DEF QInv, FrameType
    <3>2. f.src \in Keys /\ f.via \in Conns /\ (f.via \in retired \/ peers[f.src] = f.via)
      BY <3>1, Frames, Zenon DEF QInv, Origins
    <3> QED BY <1>1, <2>1, <3>2, Zenon
  <2>2. queue[c] \in Seq(Frame)
    BY DEF QInv, FrameType
  <2>3. CASE queue'[c] = queue[c]
    BY <2>1, <2>3
  <2>4. CASE queue'[c] = <<>>
    BY <1>4, <2>4
  <2>5. CASE queue[c] # <<>> /\ queue'[c] = Tail(queue[c])
    <3>1. i + 1 \in 1 .. Len(queue[c]) /\ queue'[c][i] = queue[c][i + 1]
      BY <2>2, <2>5
    <3> QED BY <2>1, <3>1
  <2>6. ASSUME NEW f \in Frame, queue'[c] = Append(queue[c], f),
               f.t = "RecvPacket" => peers'[f.src] = f.via
        PROVE  LET g == queue'[c][i] IN g.via \in retired' \/ peers'[g.src] = g.via
    <3>1. CASE i = Len(queue[c]) + 1
      <4>1. queue'[c][i] = f
        BY <2>2, <2>6, <3>1
      <4> QED BY <1>4, <2>6, <4>1
    <3>2. CASE i # Len(queue[c]) + 1
      <4>1. i \in 1 .. Len(queue[c]) /\ queue'[c][i] = queue[c][i]
        BY <2>2, <2>6, <3>2, SMTT(30)
      <4> QED BY <2>1, <4>1
    <3> QED BY <3>1, <3>2
  <2> QED BY <1>3, <2>3, <2>4, <2>5, <2>6 DEF QueueFate
<1>5. ASSUME NEW c \in Conns, NEW i \in Packets(queue'[c]), NEW j \in Packets(queue'[c]),
             i < j, queue'[c][i].src = queue'[c][j].src, queue'[c][j].via \in retired'
      PROVE  queue'[c][i].via \in retired'
  <2>1. queue[c] \in Seq(Frame)
    BY DEF QInv, FrameType
  <2>2. CASE queue'[c] = queue[c]
    BY <1>2, <1>5, <2>2
  <2>3. CASE queue'[c] = <<>>
    BY <1>5, <2>3, SMTT(30)
  <2>4. CASE queue[c] # <<>> /\ queue'[c] = Tail(queue[c])
    <3>1. /\ i + 1 \in 1 .. Len(queue[c]) /\ queue'[c][i] = queue[c][i + 1]
          /\ j + 1 \in 1 .. Len(queue[c]) /\ queue'[c][j] = queue[c][j + 1]
          /\ i + 1 < j + 1
      BY <1>5, <2>1, <2>4, SMTT(30)
    <3>2. i + 1 \in Packets(queue[c]) /\ j + 1 \in Packets(queue[c])
      BY <3>1, SMTT(30)
    <3> QED BY <1>2, <1>5, <3>1, <3>2, Zenon
  <2>5. ASSUME NEW f \in Frame, queue'[c] = Append(queue[c], f),
               f.t = "RecvPacket" => f.via \notin retired'
        PROVE  queue'[c][i].via \in retired'
    <3>1. CASE j = Len(queue[c]) + 1
      <4>1. queue'[c][j] = f
        BY <2>1, <2>5, <3>1, SMTT(30)
      <4> QED BY <1>5, <2>5, <4>1
    <3>2. CASE j # Len(queue[c]) + 1
      <4>1. /\ i \in 1 .. Len(queue[c]) /\ queue'[c][i] = queue[c][i]
            /\ j \in 1 .. Len(queue[c]) /\ queue'[c][j] = queue[c][j]
        BY <1>5, <2>1, <2>5, <3>2
      <4>2. i \in Packets(queue[c]) /\ j \in Packets(queue[c])
        BY <4>1
      <4> QED BY <1>2, <1>5, <4>1, <4>2, Zenon
    <3> QED BY <3>1, <3>2
  <2> QED BY <1>3, <2>2, <2>3, <2>4, <2>5, Zenon DEF QueueFate
<1>6. \A c \in Conns : DOMAIN queue'[c] = 1 .. Len(queue'[c])
  BY DEF FrameType
<1>7. Origins'
  BY <1>4 DEF Origins
<1>8. OldPacketsFirst'
  BY <1>5, <1>6 DEF OldPacketsFirst
<1> QED BY <1>7, <1>8

\* hub.rs, route_session: in every queue, packets of a connection that was
\* replaced come before those of its successor.
THEOREM PacketsInOrder == Spec => []OldPacketsFirst
<1>1. Init => QInv
  BY InitIInv, InitFrameType DEF Init, QInv, Origins, OldPacketsFirst
<1>2. QInv /\ [Next]_vars /\ IInv' => QInv'
  <2> SUFFICES ASSUME QInv, [Next]_vars, IInv' PROVE QInv'
    OBVIOUS
  <2>1. FrameType' /\ (UNCHANGED queue \/ \E c \in Conns : QueueStep(c))
    <3>1. CASE UNCHANGED vars
      BY <3>1, Zenon DEF QInv, FrameType, vars
    <3>2. CASE Next
      BY <3>2, ClientFrameType, ServerFrameType DEF QInv, Next
    <3> QED BY <3>1, <3>2
  <2> QED BY <2>1, QueueStepInv DEF QInv
<1>3. QInv => OldPacketsFirst
  BY DEF QInv
<1> QED BY <1>1, <1>2, <1>3, IInvHolds, PTL DEF Spec

=============================================================================
