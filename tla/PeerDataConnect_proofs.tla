------------------------ MODULE PeerDataConnect_proofs ------------------------
(***************************************************************************)
(* Proofs about PeerDataConnect, for every capacity and every bound on     *)
(* handlers, packets and messages.                                         *)
(***************************************************************************)
EXTENDS PeerDataConnect, TLAPS

USE CapacityAssumption, BoundsAssumption

-------------------------------------------------------------------------------

(* Facts about the first element and the rest of a sequence. *)
LEMMA HeadTail ==
    ASSUME NEW S, NEW s \in Seq(S), s # << >>
    PROVE  /\ Head(s) \in S /\ Tail(s) \in Seq(S)
           /\ Len(Tail(s)) = Len(s) - 1 /\ Len(s) \in Nat \ {0}
  OBVIOUS

(* Facts about a sequence with one more element. *)
LEMMA AppendOne ==
    ASSUME NEW S, NEW s \in Seq(S), NEW e \in S
    PROVE  /\ Append(s, e) \in Seq(S) /\ Len(Append(s, e)) = Len(s) + 1
           /\ Len(s) \in Nat
  OBVIOUS

(* Facts about the last element of a sequence and those before it. *)
LEMMA FrontLast ==
    ASSUME NEW S, NEW s \in Seq(S), s # << >>
    PROVE  s[Len(s)] \in S /\ SubSeq(s, 1, Len(s) - 1) \in Seq(S)
  <1>1. Len(s) \in Nat \ {0} /\ s[Len(s)] \in S
    OBVIOUS
  <1>2. ASSUME NEW j \in 0..Len(s) PROVE SubSeq(s, 1, j) \in Seq(S)
    OBVIOUS
  <1>3. Len(s) - 1 \in 0..Len(s)
    BY <1>1
  <1> QED
    BY <1>1, <1>2, <1>3

(* The numbers of a handler. *)
LEMMA Fields ==
    ASSUME TypeOK, NEW g \in Conns
    PROVE  /\ handler[g].forwarded \in 0..MaxPackets
           /\ handler[g].buffered \in 0..MaxPackets
           /\ handler[g].late \in Nat /\ handler[g].shutRecv \in 0..1
           /\ packets \in 0..MaxPackets
  BY DEF TypeOK, HandlerType

(* A change of one handler keeps the type of all.                          *)
LEMMA Update ==
    ASSUME handler \in [Conns -> HandlerType], NEW h \in Conns, NEW r \in HandlerType,
           handler' = [handler EXCEPT ![h] = r]
    PROVE  handler' \in [Conns -> HandlerType]
  OBVIOUS

(* The Marlin side touches the two channels only. *)
LEMMA MarlinSideApart ==
    ASSUME MarlinSide
    PROVE  UNCHANGED <<supVars, handler, packets>>
  BY DEF MarlinSide, MarlinTake, MarlinReturn, RelaySelectSend, RelaySelectDefault,
     RelayDrop, RelayPut

(* Every step keeps the type of the handlers. *)
LEMMA StepHandlers ==
    ASSUME TypeOK, supPc \notin {"create", "sleep"} => conn # 0,
           \A g \in Conns : Counted(g), [Next]_vars
    PROVE  handler' \in [Conns -> HandlerType]
  <1>c. supPc \notin {"create", "sleep"} => conn \in Conns
    BY DEF TypeOK, Conns
  <1>t. handler \in [Conns -> HandlerType]
    BY DEF TypeOK
  <1>1. CASE ConnectPeer
    <2>1. conn \in Conns
      BY <1>1, <1>c DEF ConnectPeer
    <2>2. PICK r \in HandlerType : r = handler[conn]
      BY <1>t, <2>1
    <2>3. handler' = [handler EXCEPT ![conn] =
                       [r EXCEPT !.base = TRUE, !.link = "up"]]
      BY <1>1, <1>t, <2>2, <2>1 DEF ConnectPeer
    <2>4. [r EXCEPT !.base = TRUE, !.link = "up"] \in HandlerType
      BY DEF HandlerType
    <2> QED
      BY <1>t, <2>3, <2>4, <2>1, Update
  <1>2. CASE BeginServicing
    <2>1. conn \in Conns
      BY <1>2, <1>c DEF BeginServicing
    <2>2. PICK r \in HandlerType : r = handler[conn]
      BY <1>t, <2>1
    <2>3. handler' = [handler EXCEPT ![conn] =
                       [r EXCEPT !.secret = TRUE, !.send = "select", !.recv = "top", !.throughput = "run"]]
      BY <1>2, <1>t, <2>2, <2>1 DEF BeginServicing
    <2>4. [r EXCEPT !.secret = TRUE, !.send = "select", !.recv = "top", !.throughput = "run"] \in HandlerType
      BY DEF HandlerType
    <2> QED
      BY <1>t, <2>3, <2>4, <2>1, Update
  <1>3. CASE UpgradeFails
    <2>1. conn \in Conns
      BY <1>3, <1>c DEF UpgradeFails
    <2>2. PICK r \in HandlerType : r = handler[conn]
      BY <1>t, <2>1
    <2>3. PICK made \in BOOLEAN :
            handler' = [handler EXCEPT ![conn] = [r EXCEPT !.secret = made]]
      BY <1>3, <1>t, <2>2, <2>1 DEF UpgradeFails
    <2>4. [r EXCEPT !.secret = made] \in HandlerType
      BY DEF HandlerType
    <2> QED
      BY <1>t, <2>3, <2>4, <2>1, Update
  <1>4. CASE ConnErrorSeen
    <2>1. conn \in Conns
      BY <1>4, <1>c DEF ConnErrorSeen
    <2>2. PICK r \in HandlerType : r = handler[conn]
      BY <1>t, <2>1
    <2>3. handler' = [handler EXCEPT ![conn] = [r EXCEPT !.connError = 0]]
      BY <1>4, <1>t, <2>2, <2>1 DEF ConnErrorSeen
    <2>4. [r EXCEPT !.connError = 0] \in HandlerType
      BY DEF HandlerType
    <2> QED
      BY <1>t, <2>3, <2>4, <2>1, Update
  <1>5. CASE ShutSend
    <2>1. conn \in Conns
      BY <1>5, <1>c DEF ShutSend
    <2>2. PICK r \in HandlerType : r = handler[conn]
      BY <1>t, <2>1
    <2>3. handler' = [handler EXCEPT ![conn] = [r EXCEPT !.shutSend = 1]]
      BY <1>5, <1>t, <2>2, <2>1 DEF ShutSend
    <2>4. [r EXCEPT !.shutSend = 1] \in HandlerType
      BY DEF HandlerType
    <2> QED
      BY <1>t, <2>3, <2>4, <2>1, Update
  <1>6. CASE ShutRecv
    <2>1. conn \in Conns
      BY <1>6, <1>c DEF ShutRecv
    <2>2. PICK r \in HandlerType : r = handler[conn]
      BY <1>t, <2>1
    <2>3. handler' = [handler EXCEPT ![conn] = [r EXCEPT !.shutRecv = 1]]
      BY <1>6, <1>t, <2>2, <2>1 DEF ShutRecv
    <2>4. [r EXCEPT !.shutRecv = 1] \in HandlerType
      BY DEF HandlerType
    <2> QED
      BY <1>t, <2>3, <2>4, <2>1, Update
  <1>7. CASE ShutThroughput
    <2>1. conn \in Conns
      BY <1>7, <1>c DEF ShutThroughput
    <2>2. PICK r \in HandlerType : r = handler[conn]
      BY <1>t, <2>1
    <2>3. handler' = [handler EXCEPT ![conn] =
                       [r EXCEPT !.shutThroughput = 1]]
      BY <1>7, <1>t, <2>2, <2>1 DEF ShutThroughput
    <2>4. [r EXCEPT !.shutThroughput = 1] \in HandlerType
      BY DEF HandlerType
    <2> QED
      BY <1>t, <2>3, <2>4, <2>1, Update
  <1>8. CASE CloseConnections
    <2>1. conn \in Conns
      BY <1>8, <1>c DEF CloseConnections
    <2>2. PICK r \in HandlerType : r = handler[conn]
      BY <1>t, <2>1
    <2>3. handler' = [handler EXCEPT ![conn] = [r EXCEPT !.link = "closed"]]
      BY <1>8, <1>t, <2>2, <2>1 DEF CloseConnections
    <2>4. [r EXCEPT !.link = "closed"] \in HandlerType
      BY DEF HandlerType
    <2> QED
      BY <1>t, <2>3, <2>4, <2>1, Update
  <1>9. ASSUME NEW h \in Conns, RecvShutdown(h) PROVE handler' \in [Conns -> HandlerType]
    <2>1. PICK r \in HandlerType, t \in 0..1 :
            /\ r = handler[h]
            /\ t = 0
      BY <1>t
    <2>2. handler' = [handler EXCEPT ![h] =
                       [r EXCEPT !.shutRecv = t, !.recv = "cleanup"]]
      BY <1>9, <1>t, <2>1 DEF RecvShutdown
    <2>3. [r EXCEPT !.shutRecv = t, !.recv = "cleanup"] \in HandlerType
      BY DEF HandlerType
    <2> QED
      BY <1>t, <2>2, <2>3, Update
  <1>10. ASSUME NEW h \in Conns, RecvRead(h) PROVE handler' \in [Conns -> HandlerType]
    <2>1. PICK r \in HandlerType : r = handler[h]
      BY <1>t
    <2>2. handler' = [handler EXCEPT ![h] = [r EXCEPT !.recv = "read"]]
      BY <1>10, <1>t, <2>1 DEF RecvRead
    <2>3. [r EXCEPT !.recv = "read"] \in HandlerType
      BY DEF HandlerType
    <2> QED
      BY <1>t, <2>2, <2>3, Update
  <1>11. ASSUME NEW h \in Conns, RecvPing(h) PROVE handler' \in [Conns -> HandlerType]
    <2>1. handler[h].buffered - 1 \in 0..MaxPackets
      <3>1. handler[h].buffered > 0
        BY <1>11 DEF RecvPing, Readable
      <3> QED
        BY <3>1, Fields
    <2>2. PICK r \in HandlerType, b \in 0..MaxPackets :
            /\ r = handler[h]
            /\ b = handler[h].buffered - 1
      BY <1>t, <2>1
    <2>3. handler' = [handler EXCEPT ![h] =
                       [r EXCEPT !.buffered = b, !.pong = "token", !.recv = "top"]]
      BY <1>11, <1>t, <2>2 DEF RecvPing, Readable
    <2>4. [r EXCEPT !.buffered = b, !.pong = "token", !.recv = "top"] \in HandlerType
      BY DEF HandlerType
    <2> QED
      BY <1>t, <2>3, <2>4, Update
  <1>12. ASSUME NEW h \in Conns, RecvIgnored(h) PROVE handler' \in [Conns -> HandlerType]
    <2>1. handler[h].buffered - 1 \in 0..MaxPackets
      <3>1. handler[h].buffered > 0
        BY <1>12 DEF RecvIgnored, Readable
      <3> QED
        BY <3>1, Fields
    <2>2. PICK r \in HandlerType, b \in 0..MaxPackets :
            /\ r = handler[h]
            /\ b = handler[h].buffered - 1
      BY <1>t, <2>1
    <2>3. handler' = [handler EXCEPT ![h] =
                       [r EXCEPT !.buffered = b, !.recv = "top"]]
      BY <1>12, <1>t, <2>2 DEF RecvIgnored, Readable
    <2>4. [r EXCEPT !.buffered = b, !.recv = "top"] \in HandlerType
      BY DEF HandlerType
    <2> QED
      BY <1>t, <2>3, <2>4, Update
  <1>13. ASSUME NEW h \in Conns, RecvSelectSend(h)
         PROVE  handler' \in [Conns -> HandlerType]
    <2>1. /\ handler[h].forwarded + 1 \in 0..MaxPackets
          /\ handler[h].buffered - 1 \in 0..MaxPackets
          /\ handler[h].late + handler[h].shutRecv \in Nat
      <3>1. handler[h].buffered > 0 /\ handler[h].forwarded + handler[h].buffered <= packets
        BY <1>13 DEF RecvSelectSend, Readable, Counted
      <3> QED
        BY <3>1, Fields
    <2>2. PICK r \in HandlerType, f \in 0..MaxPackets, b \in 0..MaxPackets, l \in Nat :
            /\ r = handler[h]
            /\ f = handler[h].forwarded + 1
            /\ b = handler[h].buffered - 1
            /\ l = handler[h].late + handler[h].shutRecv
      BY <1>t, <2>1
    <2>3. handler' = [handler EXCEPT ![h] =
                       [r EXCEPT !.buffered = b, !.forwarded = f, !.late = l, !.recv = "top"]]
      BY <1>13, <1>t, <2>2 DEF RecvSelectSend, Readable
    <2>4. [r EXCEPT !.buffered = b, !.forwarded = f, !.late = l, !.recv = "top"] \in HandlerType
      BY DEF HandlerType
    <2> QED
      BY <1>t, <2>3, <2>4, Update
  <1>14. ASSUME NEW h \in Conns, RecvSelectDefault(h)
         PROVE  handler' \in [Conns -> HandlerType]
    <2>1. /\ handler[h].forwarded + 1 \in 0..MaxPackets
          /\ handler[h].buffered - 1 \in 0..MaxPackets
      <3>1. handler[h].buffered > 0 /\ handler[h].forwarded + handler[h].buffered <= packets
        BY <1>14 DEF RecvSelectDefault, Readable, Counted
      <3> QED
        BY <3>1, Fields
    <2>2. PICK r \in HandlerType, f \in 0..MaxPackets, b \in 0..MaxPackets :
            /\ r = handler[h]
            /\ f = handler[h].forwarded + 1
            /\ b = handler[h].buffered - 1
      BY <1>t, <2>1
    <2>3. handler' = [handler EXCEPT ![h] =
                       [r EXCEPT !.buffered = b, !.forwarded = f, !.recv = "drop"]]
      BY <1>14, <1>t, <2>2 DEF RecvSelectDefault, Readable
    <2>4. [r EXCEPT !.buffered = b, !.forwarded = f, !.recv = "drop"] \in HandlerType
      BY DEF HandlerType
    <2> QED
      BY <1>t, <2>3, <2>4, Update
  <1>15. ASSUME NEW h \in Conns, RecvDrop(h) PROVE handler' \in [Conns -> HandlerType]
    <2>1. PICK r \in HandlerType : r = handler[h]
      BY <1>t
    <2>2. handler' = [handler EXCEPT ![h] = [r EXCEPT !.recv = "put"]]
      BY <1>15, <1>t, <2>1 DEF RecvDrop
    <2>3. [r EXCEPT !.recv = "put"] \in HandlerType
      BY DEF HandlerType
    <2> QED
      BY <1>t, <2>2, <2>3, Update
  <1>16. ASSUME NEW h \in Conns, RecvPut(h) PROVE handler' \in [Conns -> HandlerType]
    <2>1. handler[h].late + handler[h].shutRecv \in Nat
      BY Fields
    <2>2. PICK r \in HandlerType, l \in Nat :
            /\ r = handler[h]
            /\ l = handler[h].late + handler[h].shutRecv
      BY <1>t, <2>1
    <2>3. handler' = [handler EXCEPT ![h] =
                       [r EXCEPT !.late = l, !.recv = "top"]]
      BY <1>16, <1>t, <2>2 DEF RecvPut
    <2>4. [r EXCEPT !.late = l, !.recv = "top"] \in HandlerType
      BY DEF HandlerType
    <2> QED
      BY <1>t, <2>3, <2>4, Update
  <1>17. ASSUME NEW h \in Conns, ReflectSelectSend(h)
         PROVE  handler' \in [Conns -> HandlerType]
    <2>1. /\ handler[h].buffered - 1 \in 0..MaxPackets
          /\ handler[h].late + handler[h].shutRecv \in Nat
      <3>1. handler[h].buffered > 0
        BY <1>17 DEF ReflectSelectSend, Readable
      <3> QED
        BY <3>1, Fields
    <2>2. PICK r \in HandlerType, b \in 0..MaxPackets, l \in Nat :
            /\ r = handler[h]
            /\ b = handler[h].buffered - 1
            /\ l = handler[h].late + handler[h].shutRecv
      BY <1>t, <2>1
    <2>3. handler' = [handler EXCEPT ![h] =
                       [r EXCEPT !.buffered = b, !.late = l, !.recv = "top"]]
      BY <1>17, <1>t, <2>2 DEF ReflectSelectSend, Readable
    <2>4. [r EXCEPT !.buffered = b, !.late = l, !.recv = "top"] \in HandlerType
      BY DEF HandlerType
    <2> QED
      BY <1>t, <2>3, <2>4, Update
  <1>18. ASSUME NEW h \in Conns, ReflectSelectDefault(h)
         PROVE  handler' \in [Conns -> HandlerType]
    <2>1. handler[h].buffered - 1 \in 0..MaxPackets
      <3>1. handler[h].buffered > 0
        BY <1>18 DEF ReflectSelectDefault, Readable
      <3> QED
        BY <3>1, Fields
    <2>2. PICK r \in HandlerType, b \in 0..MaxPackets :
            /\ r = handler[h]
            /\ b = handler[h].buffered - 1
      BY <1>t, <2>1
    <2>3. handler' = [handler EXCEPT ![h] =
                       [r EXCEPT !.buffered = b, !.recv = "dropFrom"]]
      BY <1>18, <1>t, <2>2 DEF ReflectSelectDefault, Readable
    <2>4. [r EXCEPT !.buffered = b, !.recv = "dropFrom"] \in HandlerType
      BY DEF HandlerType
    <2> QED
      BY <1>t, <2>3, <2>4, Update
  <1>19. ASSUME NEW h \in Conns, ReflectDrop(h) PROVE handler' \in [Conns -> HandlerType]
    <2>1. PICK r \in HandlerType : r = handler[h]
      BY <1>t
    <2>2. handler' = [handler EXCEPT ![h] = [r EXCEPT !.recv = "putFrom"]]
      BY <1>19, <1>t, <2>1 DEF ReflectDrop
    <2>3. [r EXCEPT !.recv = "putFrom"] \in HandlerType
      BY DEF HandlerType
    <2> QED
      BY <1>t, <2>2, <2>3, Update
  <1>20. ASSUME NEW h \in Conns, ReflectPut(h) PROVE handler' \in [Conns -> HandlerType]
    <2>1. handler[h].late + handler[h].shutRecv \in Nat
      BY Fields
    <2>2. PICK r \in HandlerType, l \in Nat :
            /\ r = handler[h]
            /\ l = handler[h].late + handler[h].shutRecv
      BY <1>t, <2>1
    <2>3. handler' = [handler EXCEPT ![h] =
                       [r EXCEPT !.late = l, !.recv = "top"]]
      BY <1>20, <1>t, <2>2 DEF ReflectPut
    <2>4. [r EXCEPT !.late = l, !.recv = "top"] \in HandlerType
      BY DEF HandlerType
    <2> QED
      BY <1>t, <2>3, <2>4, Update
  <1>21. ASSUME NEW h \in Conns, RecvFails(h) PROVE handler' \in [Conns -> HandlerType]
    <2>1. PICK r \in HandlerType : r = handler[h]
      BY <1>t
    <2>2. handler' = [handler EXCEPT ![h] = [r EXCEPT !.recv = "fail"]]
      BY <1>21, <1>t, <2>1 DEF RecvFails, Readable
    <2>3. [r EXCEPT !.recv = "fail"] \in HandlerType
      BY DEF HandlerType
    <2> QED
      BY <1>t, <2>2, <2>3, Update
  <1>22. ASSUME NEW h \in Conns, RecvSignal(h) PROVE handler' \in [Conns -> HandlerType]
    <2>1. PICK r \in HandlerType, t \in 0..1 :
            /\ r = handler[h]
            /\ t = 1
      BY <1>t
    <2>2. handler' = [handler EXCEPT ![h] =
                       [r EXCEPT !.connError = t, !.recv = "cleanup"]]
      BY <1>22, <1>t, <2>1 DEF RecvSignal
    <2>3. [r EXCEPT !.connError = t, !.recv = "cleanup"] \in HandlerType
      BY DEF HandlerType
    <2> QED
      BY <1>t, <2>2, <2>3, Update
  <1>23. ASSUME NEW h \in Conns, RecvCleanup(h) PROVE handler' \in [Conns -> HandlerType]
    <2>1. PICK r \in HandlerType : r = handler[h]
      BY <1>t
    <2>2. handler' = [handler EXCEPT ![h] =
                       [r EXCEPT !.pong = "closed", !.recv = "done"]]
      BY <1>23, <1>t, <2>1 DEF RecvCleanup
    <2>3. [r EXCEPT !.pong = "closed", !.recv = "done"] \in HandlerType
      BY DEF HandlerType
    <2> QED
      BY <1>t, <2>2, <2>3, Update
  <1>24. ASSUME NEW h \in Conns, SendPong(h) PROVE handler' \in [Conns -> HandlerType]
    <2>1. PICK r \in HandlerType, p \in {"empty", "closed"} :
            /\ r = handler[h]
            /\ p = PongTaken(h)
      BY <1>t DEF PongTaken
    <2>2. PICK failed \in BOOLEAN :
            handler' = [handler EXCEPT ![h] =
                       [r EXCEPT !.pong = p, !.writeError = failed]]
      BY <1>24, <1>t, <2>1 DEF SendPong, FlushFails
    <2>3. [r EXCEPT !.pong = p, !.writeError = failed] \in HandlerType
      BY DEF HandlerType
    <2> QED
      BY <1>t, <2>2, <2>3, Update
  <1>25. ASSUME NEW h \in Conns, SendPongFails(h)
         PROVE  handler' \in [Conns -> HandlerType]
    <2>1. PICK r \in HandlerType, p \in {"empty", "closed"} :
            /\ r = handler[h]
            /\ p = PongTaken(h)
      BY <1>t DEF PongTaken
    <2>2. handler' = [handler EXCEPT ![h] =
                       [r EXCEPT !.pong = p, !.send = "fail"]]
      BY <1>25, <1>t, <2>1 DEF SendPongFails
    <2>3. [r EXCEPT !.pong = p, !.send = "fail"] \in HandlerType
      BY DEF HandlerType
    <2> QED
      BY <1>t, <2>2, <2>3, Update
  <1>26. ASSUME NEW h \in Conns, SendSignal(h) PROVE handler' \in [Conns -> HandlerType]
    <2>1. PICK r \in HandlerType, t \in 0..1 :
            /\ r = handler[h]
            /\ t = 1
      BY <1>t
    <2>2. handler' = [handler EXCEPT ![h] =
                       [r EXCEPT !.connError = t, !.send = "failed"]]
      BY <1>26, <1>t, <2>1 DEF SendSignal
    <2>3. [r EXCEPT !.connError = t, !.send = "failed"] \in HandlerType
      BY DEF HandlerType
    <2> QED
      BY <1>t, <2>2, <2>3, Update
  <1>27. ASSUME NEW h \in Conns, SendRelay(h) PROVE handler' \in [Conns -> HandlerType]
    <2>1. PICK r \in HandlerType : r = handler[h]
      BY <1>t
    <2>2. PICK w \in BOOLEAN :
            handler' = [handler EXCEPT ![h] = [r EXCEPT !.writeError = w]]
      BY <1>27, <1>t, <2>1 DEF SendRelay, FlushFails, HandlerType
    <2>3. [r EXCEPT !.writeError = w] \in HandlerType
      BY DEF HandlerType
    <2> QED
      BY <1>t, <2>2, <2>3, Update
  <1>28. ASSUME NEW h \in Conns, ThroughputShutdown(h)
         PROVE  handler' \in [Conns -> HandlerType]
    <2>1. PICK r \in HandlerType, t \in 0..1 :
            /\ r = handler[h]
            /\ t = 0
      BY <1>t
    <2>2. handler' = [handler EXCEPT ![h] =
                       [r EXCEPT !.shutThroughput = t, !.throughput = "done"]]
      BY <1>28, <1>t, <2>1 DEF ThroughputShutdown
    <2>3. [r EXCEPT !.shutThroughput = t, !.throughput = "done"] \in HandlerType
      BY DEF HandlerType
    <2> QED
      BY <1>t, <2>2, <2>3, Update
  <1>29. ASSUME NEW h \in Conns, PacketArrives(h)
         PROVE  handler' \in [Conns -> HandlerType]
    <2>1. handler[h].buffered + 1 \in 0..MaxPackets
      <3>1. packets < MaxPackets /\ handler[h].forwarded + handler[h].buffered <= packets
        BY <1>29 DEF PacketArrives, Counted
      <3> QED
        BY <3>1, Fields
    <2>2. PICK r \in HandlerType, b \in 0..MaxPackets :
            /\ r = handler[h]
            /\ b = handler[h].buffered + 1
      BY <1>t, <2>1
    <2>3. handler' = [handler EXCEPT ![h] = [r EXCEPT !.buffered = b]]
      BY <1>29, <1>t, <2>2 DEF PacketArrives
    <2>4. [r EXCEPT !.buffered = b] \in HandlerType
      BY DEF HandlerType
    <2> QED
      BY <1>t, <2>3, <2>4, Update
  <1>30. ASSUME NEW h \in Conns, LinkFails(h) PROVE handler' \in [Conns -> HandlerType]
    <2>1. PICK r \in HandlerType : r = handler[h]
      BY <1>t
    <2>2. PICK s \in {"eof", "down"} :
            handler' = [handler EXCEPT ![h] = [r EXCEPT !.link = s]]
      BY <1>30, <1>t, <2>1 DEF LinkFails
    <2>3. [r EXCEPT !.link = s] \in HandlerType
      BY DEF HandlerType
    <2> QED
      BY <1>t, <2>2, <2>3, Update
  <1>31. ASSUME \/ CreateHandler \/ ConnectPeerFails \/ ClosePanics \/ Reattempt
                \/ CollectListener \/ UNCHANGED vars
        PROVE  handler' \in [Conns -> HandlerType]
    BY <1>31, <1>t DEF CreateHandler, ConnectPeerFails, ClosePanics, Reattempt,
       CollectListener, vars
  <1>32. CASE MarlinSide
    BY <1>32, <1>t, MarlinSideApart
  <1> QED
    BY <1>1, <1>2, <1>3, <1>4, <1>5, <1>6, <1>7, <1>8, <1>9, <1>10, <1>11, <1>12,
       <1>13, <1>14, <1>15, <1>16, <1>17, <1>18, <1>19, <1>20, <1>21, <1>22, <1>23,
       <1>24, <1>25, <1>26, <1>27, <1>28, <1>29, <1>30, <1>31, <1>32
       DEF Next, Supervisor, recvRoutine, sendRoutine

(* What the Marlin side keeps for itself is of its type after a step that  *)
(* does not touch it, and after every step of the Marlin side.             *)
LEMMA MarlinSideKept ==
    ASSUME MarlinSideType, UNCHANGED <<takerVars, relayVars>>
    PROVE  MarlinSideType'
  BY DEF MarlinSideType, takerVars, relayVars

LEMMA MarlinSideStep ==
    ASSUME TypeOK, MarlinSide
    PROVE  TypeOK'
  <1>t. /\ UNCHANGED <<supVars, handler, packets>>
        /\ isConnectionOutgoing' \in BOOLEAN /\ staleListener' \in BOOLEAN
        /\ conn' = conn /\ supPc' = supPc
    BY MarlinSideApart DEF TypeOK, supVars, modeVars
  <1>m. MarlinSideType
    BY DEF TypeOK
  <1> DEFINE Taking == /\ marlinTo' \in Seq(Messages) /\ Len(marlinTo') \in 0..Capacity
                       /\ marlinGot' \in [Routines -> Seq(Messages)]
                       /\ returnedTo' \subseteq Messages /\ marlinEnded' \subseteq Routines
                       /\ droppedTo' \subseteq Messages
             Relaying == /\ marlinFrom' \in 0..Capacity /\ relayed' \in 0..MaxRelayed
                         /\ relaying' \in [{"drop", "put"} -> 0..MarlinConns]
                         /\ relaying'["drop"] + relaying'["put"] <= MarlinConns
  <1>1. ASSUME NEW r \in Routines, MarlinTake(r) PROVE Taking /\ Relaying
    <2>1. Head(marlinTo) \in Messages /\ marlinTo' \in Seq(Messages) /\ Len(marlinTo') \in 0..Capacity
      BY <1>1, HeadTail DEF MarlinTake, TypeOK
    <2>2. marlinGot[r] \in Seq(Messages)
      BY <1>m DEF MarlinSideType
    <2>3. Append(marlinGot[r], Head(marlinTo)) \in Seq(Messages)
      BY <2>1, <2>2, AppendOne
    <2>4. Taking
      BY <1>1, <1>m, <2>1, <2>3 DEF MarlinTake, MarlinSideType, TypeOK
    <2>5. Relaying
      BY <1>1, <1>m DEF MarlinTake, MarlinSideType, TypeOK, fromVars, relayVars
    <2> QED
      BY <2>4, <2>5
  <1>2. ASSUME NEW r \in Routines, MarlinReturn(r) PROVE Taking /\ Relaying
    <2>1. marlinGot[r] \in Seq(Messages) /\ marlinGot[r] # << >>
      BY <1>2, <1>m DEF MarlinReturn, MarlinSideType
    <2>2. /\ marlinGot[r][Len(marlinGot[r])] \in Messages
          /\ SubSeq(marlinGot[r], 1, Len(marlinGot[r]) - 1) \in Seq(Messages)
      BY <2>1, FrontLast
    <2>3. marlinTo' \in Seq(Messages) /\ Len(marlinTo') \in 0..Capacity
      BY <1>2, <2>2, AppendOne DEF MarlinReturn, TypeOK
    <2>4. Taking
      BY <1>2, <1>m, <2>2, <2>3 DEF MarlinReturn, MarlinSideType, TypeOK
    <2>5. Relaying
      BY <1>2, <1>m DEF MarlinReturn, MarlinSideType, TypeOK, fromVars, relayVars
    <2> QED
      BY <2>4, <2>5
  <1>3. ASSUME RelaySelectSend \/ RelaySelectDefault \/ RelayDrop \/ RelayPut
        PROVE  Taking /\ Relaying
    <2>1. Taking
      BY <1>3, <1>m DEF RelaySelectSend, RelaySelectDefault, RelayDrop, RelayPut,
         MarlinSideType, TypeOK, toVars, takerVars
    <2>2. /\ relaying["drop"] \in 0..MarlinConns /\ relaying["put"] \in 0..MarlinConns
          /\ relaying["drop"] + relaying["put"] <= MarlinConns
          /\ relaying \in [{"drop", "put"} -> 0..MarlinConns]
          /\ marlinFrom \in 0..Capacity /\ relayed \in 0..MaxRelayed
      BY <1>m DEF MarlinSideType, TypeOK
    <2>3. CASE RelaySelectSend
      BY <2>1, <2>2, <2>3 DEF RelaySelectSend, Relays
    <2>4. CASE RelaySelectDefault
      BY <2>1, <2>2, <2>4 DEF RelaySelectDefault, Relays
    <2>5. CASE RelayDrop
      BY <2>1, <2>2, <2>5 DEF RelayDrop
    <2>6. CASE RelayPut
      BY <2>1, <2>2, <2>6 DEF RelayPut
    <2> QED
      BY <1>3, <2>3, <2>4, <2>5, <2>6
  <1>4. Taking /\ Relaying
    BY <1>1, <1>2, <1>3 DEF MarlinSide
  <1> QED
    BY <1>t, <1>4 DEF TypeOK, MarlinSideType

(* Every step keeps the types. *)
LEMMA StepType ==
    ASSUME TypeOK, supPc \notin {"create", "sleep"} => conn # 0,
           \A g \in Conns : Counted(g), [Next]_vars
    PROVE  TypeOK'
  <1>t. handler' \in [Conns -> HandlerType]
    BY StepHandlers
  <1>m. ASSUME UNCHANGED <<takerVars, relayVars>> PROVE MarlinSideType'
    BY <1>m, MarlinSideKept DEF TypeOK
  <1>1. CASE CreateHandler
    <2>1. conn' \in 0..MaxConns
      BY <1>1 DEF CreateHandler, TypeOK
    <2> QED
      BY <1>1, <1>m, <1>t, <2>1 DEF CreateHandler, TypeOK, supVars, modeVars, dataVars,
         toVars, fromVars
  <1>2. CASE \/ ConnectPeer \/ ConnectPeerFails \/ BeginServicing
             \/ UpgradeFails \/ ConnErrorSeen \/ ShutSend \/ ShutRecv
             \/ ShutThroughput \/ CloseConnections \/ ClosePanics \/ Reattempt
             \/ CollectListener
    BY <1>2, <1>m, <1>t DEF ConnectPeer, ConnectPeerFails, BeginServicing,
           UpgradeFails, ConnErrorSeen, ShutSend, ShutRecv, ShutThroughput,
           CloseConnections, ClosePanics, Reattempt, CollectListener, TypeOK,
           supVars, modeVars, dataVars, toVars, fromVars
  <1>3. ASSUME NEW h \in Conns,
               \/ RecvShutdown(h) \/ RecvRead(h) \/ RecvPing(h)
               \/ RecvIgnored(h) \/ RecvSelectDefault(h)
               \/ ReflectSelectDefault(h) \/ RecvFails(h) \/ RecvSignal(h)
               \/ RecvCleanup(h) \/ SendPong(h) \/ SendPongFails(h)
               \/ SendSignal(h) \/ ThroughputShutdown(h) \/ LinkFails(h)
        PROVE  TypeOK'
    <2>1. UNCHANGED <<supVars, dataVars>>
      BY <1>3 DEF RecvShutdown, RecvRead, RecvPing, RecvIgnored,
             RecvSelectDefault, ReflectSelectDefault, RecvFails, RecvSignal,
             RecvCleanup, SendPong, SendPongFails, SendSignal,
             ThroughputShutdown, LinkFails
    <2> QED
      BY <1>m, <1>t, <2>1 DEF TypeOK, supVars, modeVars, dataVars, toVars, fromVars
  <1>4. ASSUME NEW h \in Conns, RecvSelectSend(h) PROVE TypeOK'
    <2>1. handler[h].buffered > 0 /\ handler[h].forwarded + handler[h].buffered <= packets
      BY <1>4 DEF RecvSelectSend, Readable, Counted
    <2>2. handler[h].forwarded + 1 \in 1..MaxPackets
      BY <2>1, Fields
    <2>3. [from |-> h, n |-> handler[h].forwarded + 1] \in Messages
      BY <2>2 DEF Messages
    <2>4. marlinTo' \in Seq(Messages) /\ Len(marlinTo') \in 0..Capacity
      BY <1>4, <2>3, AppendOne DEF RecvSelectSend, TypeOK
    <2> QED
      BY <1>4, <1>m, <1>t, <2>4 DEF RecvSelectSend, TypeOK, supVars, modeVars, dataVars,
         toVars, fromVars
  <1>5. ASSUME NEW h \in Conns, RecvPut(h) PROVE TypeOK'
    <2>1. handler[h].forwarded # 0
      BY <1>5 DEF RecvPut, Counted
    <2>2. [from |-> h, n |-> handler[h].forwarded] \in Messages
      BY <2>1, Fields DEF Messages
    <2>3. marlinTo' \in Seq(Messages) /\ Len(marlinTo') \in 0..Capacity
      BY <1>5, <2>2, AppendOne DEF RecvPut, TypeOK
    <2> QED
      BY <1>5, <1>m, <1>t, <2>3 DEF RecvPut, TypeOK, supVars, modeVars, dataVars, toVars,
         fromVars
  <1>6. ASSUME NEW h \in Conns, RecvDrop(h) PROVE TypeOK'
    <2>1. Head(marlinTo) \in Messages /\ marlinTo' \in Seq(Messages) /\ Len(marlinTo') \in 0..Capacity
      BY <1>6, HeadTail DEF RecvDrop, TypeOK
    <2> QED
      BY <1>6, <1>m, <1>t, <2>1 DEF RecvDrop, TypeOK, supVars, modeVars, dataVars, toVars,
         fromVars
  <1>7. CASE MarlinSide
    BY <1>7, MarlinSideStep
  <1>8. ASSUME NEW h \in Conns,
               \/ ReflectSelectSend(h) \/ ReflectDrop(h) \/ ReflectPut(h)
               \/ SendRelay(h)
        PROVE  TypeOK'
    <2>1. marlinFrom' \in 0..Capacity
      <3>1. CASE ReflectSelectSend(h)
        BY <3>1 DEF ReflectSelectSend, TypeOK
      <3>2. CASE ReflectDrop(h)
        BY <3>2 DEF ReflectDrop, TypeOK
      <3>3. CASE ReflectPut(h)
        BY <3>3 DEF ReflectPut, TypeOK
      <3>4. CASE SendRelay(h)
        BY <3>4 DEF SendRelay, TypeOK
      <3> QED
        BY <1>8, <3>1, <3>2, <3>3, <3>4
    <2>2. UNCHANGED <<supVars, packets, toVars, relayVars>>
      BY <1>8 DEF ReflectSelectSend, ReflectDrop, ReflectPut, SendRelay
    <2> QED
      BY <1>m, <1>t, <2>1, <2>2 DEF TypeOK, supVars, modeVars, toVars
  <1>10. ASSUME NEW h \in Conns, PacketArrives(h) PROVE TypeOK'
    BY <1>10, <1>m, <1>t DEF PacketArrives, TypeOK, supVars, modeVars, dataVars, toVars,
       fromVars
  <1>11. CASE UNCHANGED vars
    BY <1>11, <1>m DEF vars, TypeOK, supVars, modeVars, dataVars, toVars, fromVars
  <1> QED
    BY <1>1, <1>2, <1>3, <1>4, <1>5, <1>6, <1>7, <1>8, <1>10, <1>11
       DEF Next, Supervisor, recvRoutine, sendRoutine

(* Every step keeps the count of packets and messages of each handler. *)
LEMMA StepCounted ==
    ASSUME TypeOK, supPc \notin {"create", "sleep"} => conn # 0,
           [Next]_vars, NEW g \in Conns, Counted(g)
    PROVE  Counted(g)'
  <1>c. supPc \notin {"create", "sleep"} => conn \in Conns
    BY DEF TypeOK, Conns
  <1>1. ASSUME NEW h \in Conns, RecvPing(h) PROVE Counted(g)'
    <2>1. g # h => handler'[g] = handler[g]
      BY <1>1 DEF RecvPing, Readable, TypeOK
    <2>2. g = h => /\ handler'[g].forwarded = handler[g].forwarded
                   /\ handler'[g].buffered = handler[g].buffered - 1
                   /\ handler'[g].recv \in {"drop", "put"} => handler'[g].forwarded # 0
      BY <1>1, Fields DEF RecvPing, Readable, TypeOK, HandlerType, Counted
    <2>3. packets' = packets
      BY <1>1 DEF RecvPing, Readable, dataVars
    <2> QED
      BY <2>1, <2>2, <2>3, Fields DEF Counted, TypeOK
  <1>2. ASSUME NEW h \in Conns, RecvIgnored(h) PROVE Counted(g)'
    <2>1. g # h => handler'[g] = handler[g]
      BY <1>2 DEF RecvIgnored, Readable, TypeOK
    <2>2. g = h => /\ handler'[g].forwarded = handler[g].forwarded
                   /\ handler'[g].buffered = handler[g].buffered - 1
                   /\ handler'[g].recv \in {"drop", "put"} => handler'[g].forwarded # 0
      BY <1>2, Fields DEF RecvIgnored, Readable, TypeOK, HandlerType, Counted
    <2>3. packets' = packets
      BY <1>2 DEF RecvIgnored, Readable, dataVars
    <2> QED
      BY <2>1, <2>2, <2>3, Fields DEF Counted, TypeOK
  <1>3. ASSUME NEW h \in Conns, RecvSelectSend(h) PROVE Counted(g)'
    <2>1. g # h => handler'[g] = handler[g]
      BY <1>3 DEF RecvSelectSend, Readable, TypeOK
    <2>2. g = h => /\ handler'[g].forwarded = handler[g].forwarded + 1
                   /\ handler'[g].buffered = handler[g].buffered - 1
                   /\ handler'[g].recv \in {"drop", "put"} => handler'[g].forwarded # 0
      BY <1>3, Fields DEF RecvSelectSend, Readable, TypeOK, HandlerType, Counted
    <2>3. packets' = packets
      BY <1>3 DEF RecvSelectSend, Readable, dataVars
    <2> QED
      BY <2>1, <2>2, <2>3, Fields DEF Counted, TypeOK
  <1>4. ASSUME NEW h \in Conns, RecvSelectDefault(h) PROVE Counted(g)'
    <2>1. g # h => handler'[g] = handler[g]
      BY <1>4 DEF RecvSelectDefault, Readable, TypeOK
    <2>2. g = h => /\ handler'[g].forwarded = handler[g].forwarded + 1
                   /\ handler'[g].buffered = handler[g].buffered - 1
                   /\ handler'[g].recv \in {"drop", "put"} => handler'[g].forwarded # 0
      BY <1>4, Fields DEF RecvSelectDefault, Readable, TypeOK, HandlerType, Counted
    <2>3. packets' = packets
      BY <1>4 DEF RecvSelectDefault, Readable, dataVars
    <2> QED
      BY <2>1, <2>2, <2>3, Fields DEF Counted, TypeOK
  <1>5. ASSUME NEW h \in Conns, ReflectSelectSend(h) PROVE Counted(g)'
    <2>1. g # h => handler'[g] = handler[g]
      BY <1>5 DEF ReflectSelectSend, Readable, TypeOK
    <2>2. g = h => /\ handler'[g].forwarded = handler[g].forwarded
                   /\ handler'[g].buffered = handler[g].buffered - 1
                   /\ handler'[g].recv \in {"drop", "put"} => handler'[g].forwarded # 0
      BY <1>5, Fields DEF ReflectSelectSend, Readable, TypeOK, HandlerType, Counted
    <2>3. packets' = packets
      BY <1>5 DEF ReflectSelectSend, Readable, dataVars
    <2> QED
      BY <2>1, <2>2, <2>3, Fields DEF Counted, TypeOK
  <1>6. ASSUME NEW h \in Conns, ReflectSelectDefault(h) PROVE Counted(g)'
    <2>1. g # h => handler'[g] = handler[g]
      BY <1>6 DEF ReflectSelectDefault, Readable, TypeOK
    <2>2. g = h => /\ handler'[g].forwarded = handler[g].forwarded
                   /\ handler'[g].buffered = handler[g].buffered - 1
                   /\ handler'[g].recv \in {"drop", "put"} => handler'[g].forwarded # 0
      BY <1>6, Fields DEF ReflectSelectDefault, Readable, TypeOK, HandlerType, Counted
    <2>3. packets' = packets
      BY <1>6 DEF ReflectSelectDefault, Readable, dataVars
    <2> QED
      BY <2>1, <2>2, <2>3, Fields DEF Counted, TypeOK
  <1>7. ASSUME NEW h \in Conns, PacketArrives(h) PROVE Counted(g)'
    <2>1. g # h => handler'[g] = handler[g]
      BY <1>7 DEF PacketArrives, TypeOK
    <2>2. g = h => /\ handler'[g].forwarded = handler[g].forwarded
                   /\ handler'[g].buffered = handler[g].buffered + 1
                   /\ handler'[g].recv \in {"drop", "put"} => handler'[g].forwarded # 0
      BY <1>7, Fields DEF PacketArrives, TypeOK, HandlerType, Counted
    <2>3. packets' = packets + 1
      BY <1>7 DEF PacketArrives, dataVars
    <2> QED
      BY <2>1, <2>2, <2>3, Fields DEF Counted, TypeOK
  <1>8. ASSUME NEW h \in Conns, RecvShutdown(h) PROVE Counted(g)'
    BY <1>8 DEF RecvShutdown, TypeOK, HandlerType, Counted, dataVars
  <1>9. ASSUME NEW h \in Conns, RecvRead(h) PROVE Counted(g)'
    BY <1>9 DEF RecvRead, TypeOK, HandlerType, Counted, dataVars
  <1>10. ASSUME NEW h \in Conns, RecvDrop(h) PROVE Counted(g)'
    BY <1>10 DEF RecvDrop, TypeOK, HandlerType, Counted, dataVars
  <1>11. ASSUME NEW h \in Conns, RecvPut(h) PROVE Counted(g)'
    BY <1>11 DEF RecvPut, TypeOK, HandlerType, Counted, dataVars
  <1>12. ASSUME NEW h \in Conns, ReflectDrop(h) PROVE Counted(g)'
    BY <1>12 DEF ReflectDrop, TypeOK, HandlerType, Counted, dataVars
  <1>13. ASSUME NEW h \in Conns, ReflectPut(h) PROVE Counted(g)'
    BY <1>13 DEF ReflectPut, TypeOK, HandlerType, Counted, dataVars
  <1>14. ASSUME NEW h \in Conns, RecvFails(h) PROVE Counted(g)'
    BY <1>14 DEF RecvFails, Readable, TypeOK, HandlerType, Counted, dataVars
  <1>15. ASSUME NEW h \in Conns, RecvSignal(h) PROVE Counted(g)'
    BY <1>15 DEF RecvSignal, TypeOK, HandlerType, Counted, dataVars
  <1>16. ASSUME NEW h \in Conns, RecvCleanup(h) PROVE Counted(g)'
    BY <1>16 DEF RecvCleanup, TypeOK, HandlerType, Counted, dataVars
  <1>17. ASSUME NEW h \in Conns, SendPong(h) PROVE Counted(g)'
    BY <1>17 DEF SendPong, TypeOK, HandlerType, Counted, dataVars
  <1>18. ASSUME NEW h \in Conns, SendPongFails(h) PROVE Counted(g)'
    BY <1>18 DEF SendPongFails, TypeOK, HandlerType, Counted, dataVars
  <1>19. ASSUME NEW h \in Conns, SendSignal(h) PROVE Counted(g)'
    BY <1>19 DEF SendSignal, TypeOK, HandlerType, Counted, dataVars
  <1>20. ASSUME NEW h \in Conns, SendRelay(h) PROVE Counted(g)'
    BY <1>20 DEF SendRelay, TypeOK, HandlerType, Counted, dataVars
  <1>21. ASSUME NEW h \in Conns, ThroughputShutdown(h) PROVE Counted(g)'
    BY <1>21 DEF ThroughputShutdown, TypeOK, HandlerType, Counted, dataVars
  <1>22. ASSUME NEW h \in Conns, LinkFails(h) PROVE Counted(g)'
    BY <1>22 DEF LinkFails, TypeOK, HandlerType, Counted, dataVars
  <1>23. CASE ConnectPeer
    BY <1>23, <1>c DEF ConnectPeer, TypeOK, HandlerType, Counted, dataVars
  <1>24. CASE BeginServicing
    BY <1>24, <1>c DEF BeginServicing, TypeOK, HandlerType, Counted, dataVars
  <1>25. CASE UpgradeFails
    BY <1>25, <1>c DEF UpgradeFails, TypeOK, HandlerType, Counted, dataVars
  <1>26. CASE ConnErrorSeen
    BY <1>26, <1>c DEF ConnErrorSeen, TypeOK, HandlerType, Counted, dataVars
  <1>27. CASE ShutSend
    BY <1>27, <1>c DEF ShutSend, TypeOK, HandlerType, Counted, dataVars
  <1>28. CASE ShutRecv
    BY <1>28, <1>c DEF ShutRecv, TypeOK, HandlerType, Counted, dataVars
  <1>29. CASE ShutThroughput
    BY <1>29, <1>c DEF ShutThroughput, TypeOK, HandlerType, Counted, dataVars
  <1>30. CASE CloseConnections
    BY <1>30, <1>c DEF CloseConnections, TypeOK, HandlerType, Counted, dataVars
  <1>31. CASE \/ CreateHandler \/ ConnectPeerFails \/ ClosePanics \/ Reattempt
             \/ CollectListener \/ UNCHANGED vars
    BY <1>31 DEF CreateHandler, ConnectPeerFails, ClosePanics, Reattempt,
           CollectListener, vars, Counted, dataVars
  <1>32. CASE MarlinSide
    BY <1>32, MarlinSideApart DEF Counted
  <1> QED
    BY <1>1, <1>2, <1>3, <1>4, <1>5, <1>6, <1>7, <1>8, <1>9, <1>10, <1>11, <1>12,
       <1>13, <1>14, <1>15, <1>16, <1>17, <1>18, <1>19, <1>20, <1>21, <1>22, <1>23,
       <1>24, <1>25, <1>26, <1>27, <1>28, <1>29, <1>30, <1>31, <1>32
       DEF Next, Supervisor, recvRoutine, sendRoutine

(* A step in which handler g neither starts nor ends a routine nor moves a *)
(* token.                                                                  *)
SameRoutines(g) ==
    /\ handler'[g].connError = handler[g].connError
    /\ handler'[g].shutSend = handler[g].shutSend
    /\ handler'[g].shutRecv = handler[g].shutRecv
    /\ handler'[g].shutThroughput = handler[g].shutThroughput
    /\ \/ handler'[g].recv = handler[g].recv
       \/ {handler[g].recv, handler'[g].recv} \cap {"none", "cleanup", "done"} = {}
    /\ \/ handler'[g].send = handler[g].send
       \/ {handler[g].send, handler'[g].send} \cap {"none", "failed"} = {}

(* A step in which the supervisor does not get past a step of its shutdown *)
(* of handler g.                                                           *)
SameShutdown(g) ==
    /\ Abandoned(g)' <=> Abandoned(g)
    /\ \A s \in {"shutSend", "shutRecv", "shutThroughput"} : After(s, g)' <=> After(s, g)

(* Such a step does not change the account of the tokens. *)
LEMMA TokensKept ==
    ASSUME NEW g \in Conns, SameShutdown(g), Tokens(g),
           handler'[g] = handler[g] \/ SameRoutines(g)
    PROVE  Tokens(g)'
  <1>1. RecvSignalled(g)' <=> RecvSignalled(g)
    BY DEF SameShutdown, SameRoutines, RecvSignalled
  <1> QED
    BY <1>1 DEF SameShutdown, SameRoutines, Tokens

(* A step that leaves the supervisor alone leaves it where it is. *)
LEMMA SupervisorKept ==
    ASSUME NEW g \in Conns, UNCHANGED supVars
    PROVE  SameShutdown(g)
  BY DEF SameShutdown, Abandoned, After, supVars

(* A step of a routine that changes none of this keeps both accounts.      *)
LEMMA RoutinesKept ==
    ASSUME NEW g \in Conns, UNCHANGED supVars, Stage(g), Tokens(g),
           handler'[g].link = handler[g].link, handler'[g] = handler[g] \/ SameRoutines(g)
    PROVE  Stage(g)' /\ Tokens(g)'
  <1>1. Stage(g)'
    BY DEF SameRoutines, Stage, supVars
  <1> QED
    BY <1>1, SupervisorKept, TokensKept

(* Every step keeps the stage and the tokens of each handler. *)
LEMMA StepTokens ==
    ASSUME TypeOK, supPc \notin {"create", "sleep"} => conn # 0,
           [Next]_vars, NEW g \in Conns, Stage(g), Tokens(g)
    PROVE  Stage(g)' /\ Tokens(g)'
  <1>c. supPc \notin {"create", "sleep"} => conn \in Conns
    BY DEF TypeOK, Conns
  <1>1. CASE CreateHandler
    <2>1. Stage(g)'
      BY <1>1 DEF CreateHandler, TypeOK, HandlerType, Stage, Conns, supVars,
         modeVars, dataVars, toVars, fromVars
    <2>2. handler' = handler
      BY <1>1 DEF CreateHandler
    <2>3. SameShutdown(g)
      BY <1>1 DEF CreateHandler, TypeOK, Conns, Abandoned, After, SameShutdown
    <2> QED
      BY <2>1, <2>2, <2>3, TokensKept
  <1>2. CASE ConnectPeer
    <2>1. Stage(g)'
      BY <1>2, <1>c DEF ConnectPeer, TypeOK, HandlerType, Stage, Conns, supVars,
         modeVars, dataVars, toVars, fromVars
    <2>2. g # conn => handler'[g] = handler[g]
      BY <1>2, <1>c DEF ConnectPeer, TypeOK
    <2>3. g = conn => SameRoutines(g)
      BY <1>2, <1>c DEF ConnectPeer, TypeOK, HandlerType, SameRoutines
    <2>4. SameShutdown(g)
      BY <1>2, <1>c DEF ConnectPeer, TypeOK, Conns, Abandoned, After, SameShutdown
    <2> QED
      BY <2>1, <2>2, <2>3, <2>4, TokensKept
  <1>3. CASE ConnectPeerFails
    <2>1. Stage(g)'
      BY <1>3, <1>c DEF ConnectPeerFails, TypeOK, HandlerType, Stage, Conns,
         supVars, modeVars, dataVars, toVars, fromVars
    <2>2. handler' = handler
      BY <1>3 DEF ConnectPeerFails
    <2>3. /\ g # conn => (Abandoned(g)' <=> Abandoned(g))
                           /\ \A s \in {"shutSend", "shutRecv", "shutThroughput"} : (After(s, g)' <=> After(s, g))
          /\ g = conn => ~Abandoned(g) /\ Abandoned(g)'
          /\ g = conn => \A s \in {"shutSend", "shutRecv", "shutThroughput"} : After(s, g)'
      BY <1>3, <1>c DEF ConnectPeerFails, TypeOK, Conns, Abandoned, After
    <2>4. g = conn => handler[g].send = "none" /\ handler[g].recv = "none"
      BY <1>3, <1>c DEF ConnectPeerFails, Stage
    <2>5. RecvSignalled(g)' <=> RecvSignalled(g)
      BY <2>2, <2>3, <2>4 DEF RecvSignalled
    <2>6. Tokens(g)'
      BY <2>2, <2>3, <2>4, <2>5 DEF Tokens
    <2> QED
      BY <2>1, <2>6
  <1>4. CASE BeginServicing
    <2>1. Stage(g)'
      BY <1>4, <1>c DEF BeginServicing, TypeOK, HandlerType, Stage, Conns, supVars,
         modeVars, dataVars, toVars, fromVars
    <2>2. g # conn => handler'[g] = handler[g]
      BY <1>4, <1>c DEF BeginServicing, TypeOK
    <2>3. g = conn => /\ handler'[g].connError = handler[g].connError
                     /\ handler'[g].shutSend = handler[g].shutSend
                     /\ handler'[g].shutRecv = handler[g].shutRecv
                     /\ handler'[g].shutThroughput = handler[g].shutThroughput
                     /\ handler'[g].send = "select"
                     /\ handler'[g].recv = "top"
      BY <1>4, <1>c DEF BeginServicing, TypeOK, HandlerType
    <2>4. /\ Abandoned(g)' <=> Abandoned(g)
          /\ \A s \in {"shutSend", "shutRecv", "shutThroughput"} : After(s, g)' <=> After(s, g)
          /\ g = conn => ~Abandoned(g)
                           /\ \A s \in {"shutSend", "shutRecv", "shutThroughput"} : ~After(s, g)
      BY <1>4, <1>c DEF BeginServicing, TypeOK, Conns, Abandoned, After
    <2>5. g = conn => /\ handler[g].send = "none" /\ handler[g].recv = "none"
                      /\ handler[g].connError = 0
      BY <1>4, <1>c DEF BeginServicing, Stage
    <2>6. RecvSignalled(g)' <=> RecvSignalled(g)
      BY <2>2, <2>3, <2>4, <2>5 DEF RecvSignalled
    <2>7. Tokens(g)'
      BY <2>2, <2>3, <2>4, <2>5, <2>6 DEF Tokens
    <2> QED
      BY <2>1, <2>7
  <1>5. CASE UpgradeFails
    <2>1. Stage(g)'
      BY <1>5, <1>c DEF UpgradeFails, TypeOK, HandlerType, Stage, Conns, supVars,
         modeVars, dataVars, toVars, fromVars
    <2>2. g # conn => handler'[g] = handler[g]
      BY <1>5, <1>c DEF UpgradeFails, TypeOK
    <2>3. g = conn => /\ handler'[g].connError = handler[g].connError
                     /\ handler'[g].shutSend = handler[g].shutSend
                     /\ handler'[g].shutRecv = handler[g].shutRecv
                     /\ handler'[g].shutThroughput = handler[g].shutThroughput
                     /\ handler'[g].send = handler[g].send
                     /\ handler'[g].recv = handler[g].recv
      BY <1>5, <1>c DEF UpgradeFails, TypeOK, HandlerType
    <2>4. /\ g # conn => (Abandoned(g)' <=> Abandoned(g))
                           /\ \A s \in {"shutSend", "shutRecv", "shutThroughput"} : (After(s, g)' <=> After(s, g))
          /\ g = conn => ~Abandoned(g) /\ Abandoned(g)'
          /\ g = conn => \A s \in {"shutSend", "shutRecv", "shutThroughput"} : After(s, g)'
      BY <1>5, <1>c DEF UpgradeFails, TypeOK, Conns, Abandoned, After
    <2>5. g = conn => handler[g].send = "none" /\ handler[g].recv = "none"
      BY <1>5, <1>c DEF UpgradeFails, Stage
    <2>6. RecvSignalled(g)' <=> RecvSignalled(g)
      BY <2>2, <2>3, <2>4, <2>5 DEF RecvSignalled
    <2>7. Tokens(g)'
      BY <2>2, <2>3, <2>4, <2>5, <2>6 DEF Tokens
    <2> QED
      BY <2>1, <2>7
  <1>6. CASE ConnErrorSeen
    <2>1. Stage(g)'
      BY <1>6, <1>c DEF ConnErrorSeen, TypeOK, HandlerType, Stage, Conns, supVars,
         modeVars, dataVars, toVars, fromVars
    <2>2. g # conn => handler'[g] = handler[g]
      BY <1>6, <1>c DEF ConnErrorSeen, TypeOK
    <2>3. g = conn => /\ handler'[g].connError = 0
                     /\ handler'[g].shutSend = handler[g].shutSend
                     /\ handler'[g].shutRecv = handler[g].shutRecv
                     /\ handler'[g].shutThroughput = handler[g].shutThroughput
                     /\ handler'[g].send = handler[g].send
                     /\ handler'[g].recv = handler[g].recv
      BY <1>6, <1>c DEF ConnErrorSeen, TypeOK, HandlerType
    <2>4. /\ g # conn => (Abandoned(g)' <=> Abandoned(g))
          /\ g = conn => ~Abandoned(g) /\ Abandoned(g)'
          /\ \A s \in {"shutSend", "shutRecv", "shutThroughput"} : After(s, g)' <=> After(s, g)
      BY <1>6, <1>c DEF ConnErrorSeen, TypeOK, Conns, Abandoned, After
    <2>5. g = conn => handler[g].send # "none" /\ handler[g].connError = 1
      BY <1>6, <1>c DEF ConnErrorSeen, Stage
    <2>6. RecvSignalled(g)' <=> RecvSignalled(g)
      BY <2>2, <2>3, <2>4, <2>5 DEF RecvSignalled
    <2>7. Tokens(g)'
      BY <2>2, <2>3, <2>4, <2>5, <2>6 DEF Tokens
    <2> QED
      BY <2>1, <2>7
  <1>7. CASE ShutSend
    <2>1. Stage(g)'
      BY <1>7, <1>c DEF ShutSend, TypeOK, HandlerType, Stage, Conns, supVars,
         modeVars, dataVars, toVars, fromVars
    <2>2. g # conn => handler'[g] = handler[g]
      BY <1>7, <1>c DEF ShutSend, TypeOK
    <2>3. g = conn => /\ handler'[g].connError = handler[g].connError
                     /\ handler'[g].shutSend = 1
                     /\ handler'[g].shutRecv = handler[g].shutRecv
                     /\ handler'[g].shutThroughput = handler[g].shutThroughput
                     /\ handler'[g].send = handler[g].send
                     /\ handler'[g].recv = handler[g].recv
      BY <1>7, <1>c DEF ShutSend, TypeOK, HandlerType
    <2>4. /\ Abandoned(g)' <=> Abandoned(g)
          /\ After("shutRecv", g)' <=> After("shutRecv", g)
          /\ After("shutThroughput", g)' <=> After("shutThroughput", g)
          /\ g # conn => (After("shutSend", g)' <=> After("shutSend", g))
          /\ g = conn => ~After("shutSend", g) /\ After("shutSend", g)'
      BY <1>7, <1>c DEF ShutSend, TypeOK, Conns, Abandoned, After
    <2>5. RecvSignalled(g)' <=> RecvSignalled(g)
      BY <2>2, <2>3, <2>4 DEF RecvSignalled
    <2>6. Tokens(g)'
      BY <2>2, <2>3, <2>4, <2>5 DEF Tokens
    <2> QED
      BY <2>1, <2>6
  <1>8. CASE ShutRecv
    <2>1. Stage(g)'
      BY <1>8, <1>c DEF ShutRecv, TypeOK, HandlerType, Stage, Conns, supVars,
         modeVars, dataVars, toVars, fromVars
    <2>2. g # conn => handler'[g] = handler[g]
      BY <1>8, <1>c DEF ShutRecv, TypeOK
    <2>3. g = conn => /\ handler'[g].connError = handler[g].connError
                     /\ handler'[g].shutSend = handler[g].shutSend
                     /\ handler'[g].shutRecv = 1
                     /\ handler'[g].shutThroughput = handler[g].shutThroughput
                     /\ handler'[g].send = handler[g].send
                     /\ handler'[g].recv = handler[g].recv
      BY <1>8, <1>c DEF ShutRecv, TypeOK, HandlerType
    <2>4. /\ Abandoned(g)' <=> Abandoned(g)
          /\ After("shutSend", g)' <=> After("shutSend", g)
          /\ After("shutThroughput", g)' <=> After("shutThroughput", g)
          /\ g # conn => (After("shutRecv", g)' <=> After("shutRecv", g))
          /\ g = conn => ~After("shutRecv", g) /\ After("shutRecv", g)'
      BY <1>8, <1>c DEF ShutRecv, TypeOK, Conns, Abandoned, After
    <2>5. RecvSignalled(g)' <=> RecvSignalled(g)
      BY <2>2, <2>3, <2>4 DEF RecvSignalled, Tokens
    <2>6. Tokens(g)'
      BY <2>2, <2>3, <2>4, <2>5 DEF Tokens
    <2> QED
      BY <2>1, <2>6
  <1>9. CASE ShutThroughput
    <2>1. Stage(g)'
      BY <1>9, <1>c DEF ShutThroughput, TypeOK, HandlerType, Stage, Conns, supVars,
         modeVars, dataVars, toVars, fromVars
    <2>2. g # conn => handler'[g] = handler[g]
      BY <1>9, <1>c DEF ShutThroughput, TypeOK
    <2>3. g = conn => /\ handler'[g].connError = handler[g].connError
                     /\ handler'[g].shutSend = handler[g].shutSend
                     /\ handler'[g].shutRecv = handler[g].shutRecv
                     /\ handler'[g].shutThroughput = 1
                     /\ handler'[g].send = handler[g].send
                     /\ handler'[g].recv = handler[g].recv
      BY <1>9, <1>c DEF ShutThroughput, TypeOK, HandlerType
    <2>4. /\ Abandoned(g)' <=> Abandoned(g)
          /\ After("shutSend", g)' <=> After("shutSend", g)
          /\ After("shutRecv", g)' <=> After("shutRecv", g)
          /\ g # conn => (After("shutThroughput", g)' <=> After("shutThroughput", g))
          /\ g = conn => ~After("shutThroughput", g) /\ After("shutThroughput", g)'
      BY <1>9, <1>c DEF ShutThroughput, TypeOK, Conns, Abandoned, After
    <2>5. RecvSignalled(g)' <=> RecvSignalled(g)
      BY <2>2, <2>3, <2>4 DEF RecvSignalled
    <2>6. Tokens(g)'
      BY <2>2, <2>3, <2>4, <2>5 DEF Tokens
    <2> QED
      BY <2>1, <2>6
  <1>10. CASE CloseConnections
    <2>1. Stage(g)'
      BY <1>10, <1>c DEF CloseConnections, TypeOK, HandlerType, Stage, Conns,
         supVars, modeVars, dataVars, toVars, fromVars
    <2>2. g # conn => handler'[g] = handler[g]
      BY <1>10, <1>c DEF CloseConnections, TypeOK
    <2>3. g = conn => SameRoutines(g)
      BY <1>10, <1>c DEF CloseConnections, TypeOK, HandlerType, SameRoutines
    <2>4. SameShutdown(g)
      BY <1>10, <1>c DEF CloseConnections, TypeOK, Conns, Abandoned, After, SameShutdown
    <2> QED
      BY <2>1, <2>2, <2>3, <2>4, TokensKept
  <1>11. CASE ClosePanics
    <2>1. Stage(g)'
      BY <1>11, <1>c DEF ClosePanics, TypeOK, HandlerType, Stage, Conns, supVars,
         modeVars, dataVars, toVars, fromVars
    <2>2. handler' = handler
      BY <1>11 DEF ClosePanics
    <2>3. SameShutdown(g)
      BY <1>11, <1>c DEF ClosePanics, TypeOK, Conns, Abandoned, After, SameShutdown
    <2> QED
      BY <2>1, <2>2, <2>3, TokensKept
  <1>12. CASE Reattempt
    <2>1. Stage(g)'
      BY <1>12, <1>c DEF Reattempt, TypeOK, HandlerType, Stage, Conns, supVars,
         modeVars, dataVars, toVars, fromVars
    <2>2. handler' = handler
      BY <1>12 DEF Reattempt
    <2>3. SameShutdown(g)
      BY <1>12, <1>c DEF Reattempt, TypeOK, Conns, Abandoned, After, SameShutdown
    <2> QED
      BY <2>1, <2>2, <2>3, TokensKept
  <1>13. CASE CollectListener
    <2>1. UNCHANGED <<conn, supPc, handler>>
      BY <1>13 DEF CollectListener
    <2> QED
      BY <2>1 DEF Stage, Tokens, RecvSignalled, Abandoned, After
  <1>14. CASE MarlinSide
    BY <1>14, MarlinSideApart, RoutinesKept
  <1>16. ASSUME NEW h \in Conns, RecvShutdown(h) PROVE Stage(g)' /\ Tokens(g)'
    <2>1. Stage(g)'
      BY <1>16 DEF RecvShutdown, TypeOK, HandlerType, Stage, Conns, supVars,
         modeVars, dataVars, toVars, fromVars
    <2>2. g # h => handler'[g] = handler[g]
      BY <1>16 DEF RecvShutdown, TypeOK
    <2>3. g = h => /\ handler'[g].connError = handler[g].connError
                  /\ handler'[g].shutSend = handler[g].shutSend
                  /\ handler'[g].shutRecv = 0
                  /\ handler'[g].shutThroughput = handler[g].shutThroughput
                  /\ handler'[g].send = handler[g].send
                  /\ handler'[g].recv = "cleanup"
      BY <1>16 DEF RecvShutdown, TypeOK, HandlerType
    <2>4. /\ Abandoned(g)' <=> Abandoned(g)
          /\ \A s \in {"shutSend", "shutRecv", "shutThroughput"} : After(s, g)' <=> After(s, g)
      <3>1. UNCHANGED supVars
        BY <1>16 DEF RecvShutdown
      <3> QED
        BY <3>1, SupervisorKept DEF SameShutdown
    <2>5. g = h => handler[g].recv = "top" /\ handler[g].shutRecv = 1
      BY <1>16 DEF RecvShutdown
    <2>6. g = h => After("shutRecv", g)
      BY <2>5 DEF Tokens
    <2>7. /\ g # h => (RecvSignalled(g)' <=> RecvSignalled(g))
          /\ g = h => ~RecvSignalled(g) /\ ~RecvSignalled(g)'
      BY <2>2, <2>3, <2>4, <2>5, <2>6 DEF RecvSignalled
    <2>8. Tokens(g)'
      BY <2>2, <2>3, <2>4, <2>5, <2>6, <2>7 DEF Tokens
    <2> QED
      BY <2>1, <2>8
  <1>17. ASSUME NEW h \in Conns, RecvRead(h) PROVE Stage(g)' /\ Tokens(g)'
    <2>1. UNCHANGED supVars
      BY <1>17 DEF RecvRead
    <2>2. g # h => handler'[g] = handler[g]
      BY <1>17 DEF RecvRead, TypeOK
    <2>3. g = h => SameRoutines(g) /\ handler'[g].link = handler[g].link
      BY <1>17 DEF RecvRead, TypeOK, HandlerType, SameRoutines
    <2> QED
      BY <2>1, <2>2, <2>3, RoutinesKept
  <1>18. ASSUME NEW h \in Conns, RecvPing(h) PROVE Stage(g)' /\ Tokens(g)'
    <2>1. UNCHANGED supVars
      BY <1>18 DEF RecvPing, Readable
    <2>2. g # h => handler'[g] = handler[g]
      BY <1>18 DEF RecvPing, Readable, TypeOK
    <2>3. g = h => SameRoutines(g) /\ handler'[g].link = handler[g].link
      BY <1>18 DEF RecvPing, Readable, TypeOK, HandlerType, SameRoutines
    <2> QED
      BY <2>1, <2>2, <2>3, RoutinesKept
  <1>19. ASSUME NEW h \in Conns, RecvIgnored(h) PROVE Stage(g)' /\ Tokens(g)'
    <2>1. UNCHANGED supVars
      BY <1>19 DEF RecvIgnored, Readable
    <2>2. g # h => handler'[g] = handler[g]
      BY <1>19 DEF RecvIgnored, Readable, TypeOK
    <2>3. g = h => SameRoutines(g) /\ handler'[g].link = handler[g].link
      BY <1>19 DEF RecvIgnored, Readable, TypeOK, HandlerType, SameRoutines
    <2> QED
      BY <2>1, <2>2, <2>3, RoutinesKept
  <1>20. ASSUME NEW h \in Conns, RecvSelectSend(h) PROVE Stage(g)' /\ Tokens(g)'
    <2>1. UNCHANGED supVars
      BY <1>20 DEF RecvSelectSend, Readable
    <2>2. g # h => handler'[g] = handler[g]
      BY <1>20 DEF RecvSelectSend, Readable, TypeOK
    <2>3. g = h => SameRoutines(g) /\ handler'[g].link = handler[g].link
      BY <1>20 DEF RecvSelectSend, Readable, TypeOK, HandlerType, SameRoutines
    <2> QED
      BY <2>1, <2>2, <2>3, RoutinesKept
  <1>21. ASSUME NEW h \in Conns, RecvSelectDefault(h) PROVE Stage(g)' /\ Tokens(g)'
    <2>1. UNCHANGED supVars
      BY <1>21 DEF RecvSelectDefault, Readable
    <2>2. g # h => handler'[g] = handler[g]
      BY <1>21 DEF RecvSelectDefault, Readable, TypeOK
    <2>3. g = h => SameRoutines(g) /\ handler'[g].link = handler[g].link
      BY <1>21 DEF RecvSelectDefault, Readable, TypeOK, HandlerType, SameRoutines
    <2> QED
      BY <2>1, <2>2, <2>3, RoutinesKept
  <1>22. ASSUME NEW h \in Conns, RecvDrop(h) PROVE Stage(g)' /\ Tokens(g)'
    <2>1. UNCHANGED supVars
      BY <1>22 DEF RecvDrop
    <2>2. g # h => handler'[g] = handler[g]
      BY <1>22 DEF RecvDrop, TypeOK
    <2>3. g = h => SameRoutines(g) /\ handler'[g].link = handler[g].link
      BY <1>22 DEF RecvDrop, TypeOK, HandlerType, SameRoutines
    <2> QED
      BY <2>1, <2>2, <2>3, RoutinesKept
  <1>23. ASSUME NEW h \in Conns, RecvPut(h) PROVE Stage(g)' /\ Tokens(g)'
    <2>1. UNCHANGED supVars
      BY <1>23 DEF RecvPut
    <2>2. g # h => handler'[g] = handler[g]
      BY <1>23 DEF RecvPut, TypeOK
    <2>3. g = h => SameRoutines(g) /\ handler'[g].link = handler[g].link
      BY <1>23 DEF RecvPut, TypeOK, HandlerType, SameRoutines
    <2> QED
      BY <2>1, <2>2, <2>3, RoutinesKept
  <1>24. ASSUME NEW h \in Conns, ReflectSelectSend(h) PROVE Stage(g)' /\ Tokens(g)'
    <2>1. UNCHANGED supVars
      BY <1>24 DEF ReflectSelectSend, Readable
    <2>2. g # h => handler'[g] = handler[g]
      BY <1>24 DEF ReflectSelectSend, Readable, TypeOK
    <2>3. g = h => SameRoutines(g) /\ handler'[g].link = handler[g].link
      BY <1>24 DEF ReflectSelectSend, Readable, TypeOK, HandlerType, SameRoutines
    <2> QED
      BY <2>1, <2>2, <2>3, RoutinesKept
  <1>25. ASSUME NEW h \in Conns, ReflectSelectDefault(h) PROVE Stage(g)' /\ Tokens(g)'
    <2>1. UNCHANGED supVars
      BY <1>25 DEF ReflectSelectDefault, Readable
    <2>2. g # h => handler'[g] = handler[g]
      BY <1>25 DEF ReflectSelectDefault, Readable, TypeOK
    <2>3. g = h => SameRoutines(g) /\ handler'[g].link = handler[g].link
      BY <1>25 DEF ReflectSelectDefault, Readable, TypeOK, HandlerType, SameRoutines
    <2> QED
      BY <2>1, <2>2, <2>3, RoutinesKept
  <1>26. ASSUME NEW h \in Conns, ReflectDrop(h) PROVE Stage(g)' /\ Tokens(g)'
    <2>1. UNCHANGED supVars
      BY <1>26 DEF ReflectDrop
    <2>2. g # h => handler'[g] = handler[g]
      BY <1>26 DEF ReflectDrop, TypeOK
    <2>3. g = h => SameRoutines(g) /\ handler'[g].link = handler[g].link
      BY <1>26 DEF ReflectDrop, TypeOK, HandlerType, SameRoutines
    <2> QED
      BY <2>1, <2>2, <2>3, RoutinesKept
  <1>27. ASSUME NEW h \in Conns, ReflectPut(h) PROVE Stage(g)' /\ Tokens(g)'
    <2>1. UNCHANGED supVars
      BY <1>27 DEF ReflectPut
    <2>2. g # h => handler'[g] = handler[g]
      BY <1>27 DEF ReflectPut, TypeOK
    <2>3. g = h => SameRoutines(g) /\ handler'[g].link = handler[g].link
      BY <1>27 DEF ReflectPut, TypeOK, HandlerType, SameRoutines
    <2> QED
      BY <2>1, <2>2, <2>3, RoutinesKept
  <1>28. ASSUME NEW h \in Conns, RecvFails(h) PROVE Stage(g)' /\ Tokens(g)'
    <2>1. UNCHANGED supVars
      BY <1>28 DEF RecvFails, Readable
    <2>2. g # h => handler'[g] = handler[g]
      BY <1>28 DEF RecvFails, Readable, TypeOK
    <2>3. g = h => SameRoutines(g) /\ handler'[g].link = handler[g].link
      BY <1>28 DEF RecvFails, Readable, TypeOK, HandlerType, SameRoutines
    <2> QED
      BY <2>1, <2>2, <2>3, RoutinesKept
  <1>29. ASSUME NEW h \in Conns, RecvSignal(h) PROVE Stage(g)' /\ Tokens(g)'
    <2>1. Stage(g)'
      BY <1>29 DEF RecvSignal, TypeOK, HandlerType, Stage, Conns, supVars, modeVars,
         dataVars, toVars, fromVars
    <2>2. g # h => handler'[g] = handler[g]
      BY <1>29 DEF RecvSignal, TypeOK
    <2>3. g = h => /\ handler'[g].connError = 1
                  /\ handler'[g].shutSend = handler[g].shutSend
                  /\ handler'[g].shutRecv = handler[g].shutRecv
                  /\ handler'[g].shutThroughput = handler[g].shutThroughput
                  /\ handler'[g].send = handler[g].send
                  /\ handler'[g].recv = "cleanup"
      BY <1>29 DEF RecvSignal, TypeOK, HandlerType
    <2>4. /\ Abandoned(g)' <=> Abandoned(g)
          /\ \A s \in {"shutSend", "shutRecv", "shutThroughput"} : After(s, g)' <=> After(s, g)
      <3>1. UNCHANGED supVars
        BY <1>29 DEF RecvSignal
      <3> QED
        BY <3>1, SupervisorKept DEF SameShutdown
    <2>5. g = h => handler[g].recv = "fail" /\ handler[g].connError = 0
      BY <1>29 DEF RecvSignal
    <2>6. g = h => (After("shutRecv", g) => handler[g].shutRecv = 1)
      BY <2>5 DEF Tokens
    <2>7. /\ g # h => (RecvSignalled(g)' <=> RecvSignalled(g))
          /\ g = h => ~RecvSignalled(g) /\ RecvSignalled(g)'
      BY <2>2, <2>3, <2>4, <2>5, <2>6 DEF RecvSignalled
    <2>8. Tokens(g)'
      <3>1. CASE g = h
        BY <3>1, <2>2, <2>3, <2>4, <2>5, <2>6, <2>7 DEF Tokens
      <3>2. CASE g # h
        BY <3>2, <2>2, <2>3, <2>4, <2>5, <2>6, <2>7 DEF Tokens
      <3> QED
        BY <3>1, <3>2
    <2> QED
      BY <2>1, <2>8
  <1>30. ASSUME NEW h \in Conns, RecvCleanup(h) PROVE Stage(g)' /\ Tokens(g)'
    <2>1. Stage(g)'
      BY <1>30 DEF RecvCleanup, TypeOK, HandlerType, Stage, Conns, supVars,
         modeVars, dataVars, toVars, fromVars
    <2>2. g # h => handler'[g] = handler[g]
      BY <1>30 DEF RecvCleanup, TypeOK
    <2>3. g = h => /\ handler'[g].connError = handler[g].connError
                  /\ handler'[g].shutSend = handler[g].shutSend
                  /\ handler'[g].shutRecv = handler[g].shutRecv
                  /\ handler'[g].shutThroughput = handler[g].shutThroughput
                  /\ handler'[g].send = handler[g].send
                  /\ handler'[g].recv = "done"
      BY <1>30 DEF RecvCleanup, TypeOK, HandlerType
    <2>4. /\ Abandoned(g)' <=> Abandoned(g)
          /\ \A s \in {"shutSend", "shutRecv", "shutThroughput"} : After(s, g)' <=> After(s, g)
      <3>1. UNCHANGED supVars
        BY <1>30 DEF RecvCleanup
      <3> QED
        BY <3>1, SupervisorKept DEF SameShutdown
    <2>5. g = h => handler[g].recv = "cleanup"
      BY <1>30 DEF RecvCleanup
    <2>6. RecvSignalled(g)' <=> RecvSignalled(g)
      BY <2>2, <2>3, <2>4, <2>5 DEF RecvSignalled
    <2>7. Tokens(g)'
      BY <2>2, <2>3, <2>4, <2>5, <2>6 DEF Tokens
    <2> QED
      BY <2>1, <2>7
  <1>31. ASSUME NEW h \in Conns, SendPong(h) PROVE Stage(g)' /\ Tokens(g)'
    <2>1. UNCHANGED supVars
      BY <1>31 DEF SendPong
    <2>2. g # h => handler'[g] = handler[g]
      BY <1>31 DEF SendPong, TypeOK
    <2>3. g = h => SameRoutines(g) /\ handler'[g].link = handler[g].link
      BY <1>31 DEF SendPong, TypeOK, HandlerType, SameRoutines
    <2> QED
      BY <2>1, <2>2, <2>3, RoutinesKept
  <1>32. ASSUME NEW h \in Conns, SendPongFails(h) PROVE Stage(g)' /\ Tokens(g)'
    <2>1. UNCHANGED supVars
      BY <1>32 DEF SendPongFails
    <2>2. g # h => handler'[g] = handler[g]
      BY <1>32 DEF SendPongFails, TypeOK
    <2>3. g = h => SameRoutines(g) /\ handler'[g].link = handler[g].link
      BY <1>32 DEF SendPongFails, TypeOK, HandlerType, SameRoutines
    <2> QED
      BY <2>1, <2>2, <2>3, RoutinesKept
  <1>33. ASSUME NEW h \in Conns, SendSignal(h) PROVE Stage(g)' /\ Tokens(g)'
    <2>1. Stage(g)'
      BY <1>33 DEF SendSignal, TypeOK, HandlerType, Stage, Conns, supVars, modeVars,
         dataVars, toVars, fromVars
    <2>2. g # h => handler'[g] = handler[g]
      BY <1>33 DEF SendSignal, TypeOK
    <2>3. g = h => /\ handler'[g].connError = 1
                  /\ handler'[g].shutSend = handler[g].shutSend
                  /\ handler'[g].shutRecv = handler[g].shutRecv
                  /\ handler'[g].shutThroughput = handler[g].shutThroughput
                  /\ handler'[g].send = "failed"
                  /\ handler'[g].recv = handler[g].recv
      BY <1>33 DEF SendSignal, TypeOK, HandlerType
    <2>4. /\ Abandoned(g)' <=> Abandoned(g)
          /\ \A s \in {"shutSend", "shutRecv", "shutThroughput"} : After(s, g)' <=> After(s, g)
      <3>1. UNCHANGED supVars
        BY <1>33 DEF SendSignal
      <3> QED
        BY <3>1, SupervisorKept DEF SameShutdown
    <2>5. g = h => handler[g].send = "fail" /\ handler[g].connError = 0
      BY <1>33 DEF SendSignal
    <2>6. RecvSignalled(g)' <=> RecvSignalled(g)
      BY <2>2, <2>3, <2>4, <2>5 DEF RecvSignalled
    <2>7. Tokens(g)'
      BY <2>2, <2>3, <2>4, <2>5, <2>6 DEF Tokens
    <2> QED
      BY <2>1, <2>7
  <1>34. ASSUME NEW h \in Conns, SendRelay(h) PROVE Stage(g)' /\ Tokens(g)'
    <2>1. UNCHANGED supVars
      BY <1>34 DEF SendRelay
    <2>2. g # h => handler'[g] = handler[g]
      BY <1>34 DEF SendRelay, TypeOK
    <2>3. g = h => SameRoutines(g) /\ handler'[g].link = handler[g].link
      BY <1>34 DEF SendRelay, TypeOK, HandlerType, SameRoutines
    <2> QED
      BY <2>1, <2>2, <2>3, RoutinesKept
  <1>35. ASSUME NEW h \in Conns, ThroughputShutdown(h) PROVE Stage(g)' /\ Tokens(g)'
    <2>1. Stage(g)'
      BY <1>35 DEF ThroughputShutdown, TypeOK, HandlerType, Stage, Conns, supVars,
         modeVars, dataVars, toVars, fromVars
    <2>2. g # h => handler'[g] = handler[g]
      BY <1>35 DEF ThroughputShutdown, TypeOK
    <2>3. g = h => /\ handler'[g].connError = handler[g].connError
                  /\ handler'[g].shutSend = handler[g].shutSend
                  /\ handler'[g].shutRecv = handler[g].shutRecv
                  /\ handler'[g].shutThroughput = 0
                  /\ handler'[g].send = handler[g].send
                  /\ handler'[g].recv = handler[g].recv
      BY <1>35 DEF ThroughputShutdown, TypeOK, HandlerType
    <2>4. /\ Abandoned(g)' <=> Abandoned(g)
          /\ \A s \in {"shutSend", "shutRecv", "shutThroughput"} : After(s, g)' <=> After(s, g)
      <3>1. UNCHANGED supVars
        BY <1>35 DEF ThroughputShutdown
      <3> QED
        BY <3>1, SupervisorKept DEF SameShutdown
    <2>5. RecvSignalled(g)' <=> RecvSignalled(g)
      BY <2>2, <2>3, <2>4 DEF RecvSignalled
    <2>6. Tokens(g)'
      BY <2>2, <2>3, <2>4, <2>5 DEF Tokens
    <2> QED
      BY <2>1, <2>6
  <1>36. ASSUME NEW h \in Conns, PacketArrives(h) PROVE Stage(g)' /\ Tokens(g)'
    <2>1. UNCHANGED supVars
      BY <1>36 DEF PacketArrives
    <2>2. g # h => handler'[g] = handler[g]
      BY <1>36 DEF PacketArrives, TypeOK
    <2>3. g = h => SameRoutines(g) /\ handler'[g].link = handler[g].link
      BY <1>36 DEF PacketArrives, TypeOK, HandlerType, SameRoutines
    <2> QED
      BY <2>1, <2>2, <2>3, RoutinesKept
  <1>37. ASSUME NEW h \in Conns, LinkFails(h) PROVE Stage(g)' /\ Tokens(g)'
    <2>1. Stage(g)'
      BY <1>37 DEF LinkFails, TypeOK, HandlerType, Stage, Conns, supVars, modeVars,
         dataVars, toVars, fromVars
    <2>2. g # h => handler'[g] = handler[g]
      BY <1>37 DEF LinkFails, TypeOK
    <2>3. g = h => SameRoutines(g)
      BY <1>37 DEF LinkFails, TypeOK, HandlerType, SameRoutines
    <2>4. SameShutdown(g)
      <3>1. UNCHANGED supVars
        BY <1>37 DEF LinkFails
      <3> QED
        BY <3>1, SupervisorKept
    <2> QED
      BY <2>1, <2>2, <2>3, <2>4, TokensKept
  <1>38. CASE UNCHANGED vars
    BY <1>38 DEF vars, supVars, Stage, Tokens, RecvSignalled, Abandoned, After
  <1> QED
    BY <1>1, <1>2, <1>3, <1>4, <1>5, <1>6, <1>7, <1>8, <1>9, <1>10, <1>11, <1>12,
       <1>13, <1>14, <1>16, <1>17, <1>18, <1>19, <1>20, <1>21, <1>22, <1>23,
       <1>24, <1>25, <1>26, <1>27, <1>28, <1>29, <1>30, <1>31, <1>32, <1>33, <1>34,
       <1>35, <1>36, <1>37, <1>38
       DEF Next, Supervisor, recvRoutine, sendRoutine

(* Every step keeps the account of late messages. *)
LEMMA StepLateness ==
    ASSUME TypeOK, supPc \notin {"create", "sleep"} => conn # 0,
           [Next]_vars, NEW g \in Conns, Stage(g), Lateness(g)
    PROVE  Lateness(g)'
  <1>c. supPc \notin {"create", "sleep"} => conn \in Conns
    BY DEF TypeOK, Conns
  <1>1. CASE CreateHandler
    BY <1>1 DEF CreateHandler, TypeOK, HandlerType, Lateness
  <1>2. CASE ConnectPeer
    BY <1>2, <1>c DEF ConnectPeer, TypeOK, HandlerType, Lateness
  <1>3. CASE ConnectPeerFails
    BY <1>3 DEF ConnectPeerFails, TypeOK, HandlerType, Lateness
  <1>4. CASE BeginServicing
    BY <1>4, <1>c DEF BeginServicing, TypeOK, HandlerType, Lateness, Stage
  <1>5. CASE UpgradeFails
    BY <1>5, <1>c DEF UpgradeFails, TypeOK, HandlerType, Lateness
  <1>6. CASE ConnErrorSeen
    BY <1>6, <1>c DEF ConnErrorSeen, TypeOK, HandlerType, Lateness
  <1>7. CASE ShutSend
    BY <1>7, <1>c DEF ShutSend, TypeOK, HandlerType, Lateness
  <1>8. CASE ShutRecv
    BY <1>8, <1>c DEF ShutRecv, TypeOK, HandlerType, Lateness
  <1>9. CASE ShutThroughput
    BY <1>9, <1>c DEF ShutThroughput, TypeOK, HandlerType, Lateness
  <1>10. CASE CloseConnections
    BY <1>10, <1>c DEF CloseConnections, TypeOK, HandlerType, Lateness
  <1>11. CASE ClosePanics
    BY <1>11 DEF ClosePanics, TypeOK, HandlerType, Lateness
  <1>12. CASE Reattempt
    BY <1>12 DEF Reattempt, TypeOK, HandlerType, Lateness
  <1>13. CASE CollectListener
    BY <1>13 DEF CollectListener, TypeOK, HandlerType, Lateness
  <1>14. CASE MarlinSide
    BY <1>14, MarlinSideApart DEF TypeOK, HandlerType, Lateness
  <1>16. ASSUME NEW h \in Conns, RecvShutdown(h) PROVE Lateness(g)'
    BY <1>16 DEF RecvShutdown, TypeOK, HandlerType, Lateness
  <1>17. ASSUME NEW h \in Conns, RecvRead(h) PROVE Lateness(g)'
    BY <1>17 DEF RecvRead, TypeOK, HandlerType, Lateness
  <1>18. ASSUME NEW h \in Conns, RecvPing(h) PROVE Lateness(g)'
    BY <1>18 DEF RecvPing, Readable, TypeOK, HandlerType, Lateness
  <1>19. ASSUME NEW h \in Conns, RecvIgnored(h) PROVE Lateness(g)'
    BY <1>19 DEF RecvIgnored, Readable, TypeOK, HandlerType, Lateness
  <1>20. ASSUME NEW h \in Conns, RecvSelectSend(h) PROVE Lateness(g)'
    <2>1. handler \in [Conns -> HandlerType]
      BY DEF TypeOK
    <2>2. CASE g = h
      BY <1>20, <2>1, <2>2 DEF RecvSelectSend, Readable, HandlerType, Lateness
    <2>3. CASE g # h
      BY <1>20, <2>1, <2>3 DEF RecvSelectSend, Lateness
    <2> QED
      BY <2>2, <2>3
  <1>21. ASSUME NEW h \in Conns, RecvSelectDefault(h) PROVE Lateness(g)'
    BY <1>21 DEF RecvSelectDefault, Readable, TypeOK, HandlerType, Lateness
  <1>22. ASSUME NEW h \in Conns, RecvDrop(h) PROVE Lateness(g)'
    BY <1>22 DEF RecvDrop, TypeOK, HandlerType, Lateness
  <1>23. ASSUME NEW h \in Conns, RecvPut(h) PROVE Lateness(g)'
    BY <1>23 DEF RecvPut, TypeOK, HandlerType, Lateness
  <1>24. ASSUME NEW h \in Conns, ReflectSelectSend(h) PROVE Lateness(g)'
    BY <1>24 DEF ReflectSelectSend, Readable, TypeOK, HandlerType, Lateness
  <1>25. ASSUME NEW h \in Conns, ReflectSelectDefault(h) PROVE Lateness(g)'
    BY <1>25 DEF ReflectSelectDefault, Readable, TypeOK, HandlerType, Lateness
  <1>26. ASSUME NEW h \in Conns, ReflectDrop(h) PROVE Lateness(g)'
    BY <1>26 DEF ReflectDrop, TypeOK, HandlerType, Lateness
  <1>27. ASSUME NEW h \in Conns, ReflectPut(h) PROVE Lateness(g)'
    BY <1>27 DEF ReflectPut, TypeOK, HandlerType, Lateness
  <1>28. ASSUME NEW h \in Conns, RecvFails(h) PROVE Lateness(g)'
    BY <1>28 DEF RecvFails, Readable, TypeOK, HandlerType, Lateness
  <1>29. ASSUME NEW h \in Conns, RecvSignal(h) PROVE Lateness(g)'
    BY <1>29 DEF RecvSignal, TypeOK, HandlerType, Lateness
  <1>30. ASSUME NEW h \in Conns, RecvCleanup(h) PROVE Lateness(g)'
    BY <1>30 DEF RecvCleanup, TypeOK, HandlerType, Lateness
  <1>31. ASSUME NEW h \in Conns, SendPong(h) PROVE Lateness(g)'
    BY <1>31 DEF SendPong, TypeOK, HandlerType, Lateness
  <1>32. ASSUME NEW h \in Conns, SendPongFails(h) PROVE Lateness(g)'
    BY <1>32 DEF SendPongFails, TypeOK, HandlerType, Lateness
  <1>33. ASSUME NEW h \in Conns, SendSignal(h) PROVE Lateness(g)'
    BY <1>33 DEF SendSignal, TypeOK, HandlerType, Lateness
  <1>34. ASSUME NEW h \in Conns, SendRelay(h) PROVE Lateness(g)'
    BY <1>34 DEF SendRelay, TypeOK, HandlerType, Lateness
  <1>35. ASSUME NEW h \in Conns, ThroughputShutdown(h) PROVE Lateness(g)'
    BY <1>35 DEF ThroughputShutdown, TypeOK, HandlerType, Lateness
  <1>36. ASSUME NEW h \in Conns, PacketArrives(h) PROVE Lateness(g)'
    BY <1>36 DEF PacketArrives, TypeOK, HandlerType, Lateness
  <1>37. ASSUME NEW h \in Conns, LinkFails(h) PROVE Lateness(g)'
    BY <1>37 DEF LinkFails, TypeOK, HandlerType, Lateness
  <1>38. CASE UNCHANGED vars
    BY <1>38 DEF vars, Lateness
  <1> QED
    BY <1>1, <1>2, <1>3, <1>4, <1>5, <1>6, <1>7, <1>8, <1>9, <1>10, <1>11, <1>12,
       <1>13, <1>14, <1>16, <1>17, <1>18, <1>19, <1>20, <1>21, <1>22, <1>23,
       <1>24, <1>25, <1>26, <1>27, <1>28, <1>29, <1>30, <1>31, <1>32, <1>33, <1>34,
       <1>35, <1>36, <1>37, <1>38
       DEF Next, Supervisor, recvRoutine, sendRoutine

-------------------------------------------------------------------------------

(* There is a handler whenever the supervisor needs one. *)
LEMMA StepConn ==
    ASSUME TypeOK, supPc \notin {"create", "sleep"} => conn # 0, [Next]_vars
    PROVE  (supPc \notin {"create", "sleep"} => conn # 0)'
  <1>1. CASE Supervisor
    BY <1>1 DEF Supervisor, CreateHandler, ConnectPeer, ConnectPeerFails, BeginServicing,
       UpgradeFails, ConnErrorSeen, ShutSend, ShutRecv, ShutThroughput,
       CloseConnections, ClosePanics, Reattempt, TypeOK
  <1>2. CASE CollectListener \/ MarlinSide
    BY <1>2, MarlinSideApart DEF CollectListener, supVars
  <1>3. ASSUME NEW h \in Conns,
               \/ recvRoutine(h) \/ sendRoutine(h) \/ ThroughputShutdown(h)
               \/ PacketArrives(h) \/ LinkFails(h)
        PROVE  UNCHANGED supVars
    BY <1>3 DEF recvRoutine, RecvShutdown, RecvRead, RecvPing, RecvIgnored,
       RecvSelectSend, RecvSelectDefault, RecvDrop, RecvPut, ReflectSelectSend,
       ReflectSelectDefault, ReflectDrop, ReflectPut, RecvFails, RecvSignal,
       RecvCleanup, sendRoutine, SendPong, SendPongFails, SendSignal, SendRelay,
       ThroughputShutdown, PacketArrives, LinkFails
  <1>4. CASE UNCHANGED vars
    BY <1>4 DEF vars, supVars
  <1> QED
    BY <1>1, <1>2, <1>3, <1>4 DEF Next, supVars

(* IInv is inductive. *)
LEMMA Invariant == Spec => []IInv
  <1>1. Init => IInv
    <2> SUFFICES ASSUME Init PROVE IInv
      OBVIOUS
    <2>1. NewHandler \in HandlerType
      BY DEF NewHandler, HandlerType
    <2>2. TypeOK
      <3>1. handler \in [Conns -> HandlerType]
        BY <2>1 DEF Init
      <3>2. /\ marlinTo \in Seq(Messages) /\ Len(marlinTo) \in 0..Capacity
            /\ droppedTo \subseteq Messages
        BY DEF Init
      <3>3. isConnectionOutgoing \in BOOLEAN /\ staleListener \in BOOLEAN
        BY DEF Init
      <3>4. /\ conn \in 0..MaxConns /\ packets \in 0..MaxPackets
            /\ marlinFrom \in 0..Capacity
        BY DEF Init
      <3>5. MarlinSideType
        BY DEF Init, MarlinSideType
      <3> QED
        BY <3>1, <3>2, <3>3, <3>4, <3>5 DEF Init, TypeOK
    <2>3. \A g \in Conns : Counted(g) /\ Stage(g) /\ Tokens(g) /\ Lateness(g)
      BY DEF Init, NewHandler, Conns, Counted, Stage, Tokens, RecvSignalled, Abandoned,
         After, Lateness
    <2> QED
      BY <2>2, <2>3 DEF IInv, Init
  <1>2. IInv /\ [Next]_vars => IInv'
    <2> SUFFICES ASSUME IInv, [Next]_vars PROVE IInv'
      OBVIOUS
    <2>1. /\ TypeOK
          /\ supPc \notin {"create", "sleep"} => conn # 0
          /\ \A g \in Conns : Counted(g) /\ Stage(g) /\ Tokens(g) /\ Lateness(g)
      BY DEF IInv
    <2>2. TypeOK'
      BY <2>1, StepType
    <2>3. (supPc \notin {"create", "sleep"} => conn # 0)'
      BY <2>1, StepConn
    <2>4. ASSUME NEW g \in Conns
          PROVE  Counted(g)' /\ Stage(g)' /\ Tokens(g)' /\ Lateness(g)'
      BY <2>1, StepCounted, StepTokens, StepLateness
    <2> QED
      BY <2>2, <2>3, <2>4 DEF IInv, Conns
  <1> QED
    BY <1>1, <1>2, PTL DEF Spec

(* Every handler is of its type and neither channel exceeds its capacity.  *)
THEOREM TypeCorrect == Spec => []TypeOK
  <1>1. IInv => TypeOK
    BY DEF IInv
  <1> QED
    BY <1>1, Invariant, PTL

(* No goroutine waits for ever to send on a signal channel: the tokens of  *)
(* each handler are as many as the routines that have signalled, less the  *)
(* one the supervisor has taken.                                           *)
THEOREM SignalsNeverBlock == Spec => []NoSignalBlocks
  <1>1. IInv => NoSignalBlocks
    <2> SUFFICES ASSUME IInv PROVE NoSignalBlocks
      OBVIOUS
    <2>1. ASSUME NEW g \in Conns
          PROVE  /\ handler[g].connError \in 0..1 /\ handler[g].shutSend \in 0..1
                 /\ handler[g].shutRecv \in 0..1 /\ handler[g].shutThroughput \in 0..1
      BY DEF IInv, TypeOK, HandlerType
    <2>2. supPc \in {"shutSend", "shutRecv", "shutThroughput"} => conn \in Conns
      BY DEF IInv, TypeOK, Conns
    <2>3. /\ supPc = "shutSend" => ~After("shutSend", conn)
          /\ supPc = "shutRecv" => ~After("shutRecv", conn)
          /\ supPc = "shutThroughput" => ~After("shutThroughput", conn)
      BY <2>2 DEF After, Conns
    <2>4. /\ supPc = "shutSend" => handler[conn].shutSend = 0
          /\ supPc = "shutRecv" => handler[conn].shutRecv = 0
          /\ supPc = "shutThroughput" => handler[conn].shutThroughput = 0
      BY <2>1, <2>2, <2>3 DEF IInv, Tokens
    <2>5. ASSUME NEW g \in Conns, Abandoned(g), "fail" \in {handler[g].send, handler[g].recv}
          PROVE  handler[g].connError = 0 /\ handler[g].send # handler[g].recv
      <3>1. Tokens(g) /\ Stage(g) /\ handler[g].connError \in 0..1
        BY <2>1 DEF IInv
      <3>2. handler[g].send # "none"
        BY <2>5, <3>1 DEF Stage
      <3>3. handler[g].recv = "fail" => ~RecvSignalled(g)
        BY DEF RecvSignalled
      <3>4. RecvSignalled(g) => handler[g].recv \in {"cleanup", "done"}
        BY DEF RecvSignalled
      <3>5. handler[g].connError + 1 = (IF handler[g].send = "failed" THEN 1 ELSE 0)
                                         + (IF RecvSignalled(g) THEN 1 ELSE 0)
        BY <2>5, <3>1, <3>2 DEF Tokens
      <3>6. CASE handler[g].send = "fail"
        BY <3>1, <3>4, <3>5, <3>6
      <3>7. CASE handler[g].recv = "fail"
        BY <3>1, <3>3, <3>5, <3>7
      <3> QED
        BY <2>5, <3>6, <3>7
    <2> QED
      BY <2>4, <2>5 DEF NoSignalBlocks
  <1> QED
    BY <1>1, Invariant, PTL

(* Every connection but the current one has been closed, however the       *)
(* attempt ended.                                                          *)
THEOREM ClosingFormer == Spec => []FormerAreClosed
  <1>1. IInv => FormerAreClosed
    BY DEF IInv, Stage, FormerAreClosed
  <1> QED
    BY <1>1, Invariant, PTL

(* At most one message of a connection is sent on after recvRoutine was    *)
(* told to stop.                                                           *)
THEOREM OneMessageAfterShutdown == Spec => []OneAfterShutdown
  <1>1. IInv => OneAfterShutdown
    BY DEF IInv, Lateness, OneAfterShutdown
  <1> QED
    BY <1>1, Invariant, PTL

-------------------------------------------------------------------------------

(* What the channel's part of the state shows of a step that leaves it     *)
(* alone.                                                                  *)
LEMMA Unseen ==
    ASSUME UNCHANGED <<marlinTo, droppedTo, takerVars>>, chanPc' = chanPc,
           chanOffered' = chanOffered
    PROVE  UNCHANGED Channel!vars
  BY DEF Channel!vars, Channel!returnVars, takerVars

(* Every step is one of the channel's or leaves the channel alone.         *)
LEMMA StepChannel == IInv /\ [Next]_vars => [Channel!Next]_(Channel!vars)
  <1> SUFFICES ASSUME IInv, [Next]_vars PROVE Channel!Next \/ UNCHANGED Channel!vars
    OBVIOUS
  <1>t. TypeOK /\ handler \in [Conns -> HandlerType]
    BY DEF IInv, TypeOK
  <1>n. \A g \in Conns : Counted(g) /\ Stage(g)
    BY DEF IInv
  <1>c. supPc \notin {"create", "sleep"} => conn \in Conns
    BY DEF IInv, TypeOK, Conns
  <1>1. ASSUME NEW g \in Conns, RecvSelectSend(g) PROVE Channel!SelectSend(g)
    <2>1. handler[g].buffered > 0 /\ handler[g].forwarded + handler[g].buffered <= packets
      BY <1>1, <1>n DEF RecvSelectSend, Readable, Counted
    <2>2. chanOffered[g] < MaxPackets /\ chanOffered[g] = handler[g].forwarded
      BY <2>1, <1>t, Fields DEF chanOffered
    <2>3. chanPc[g] = "select" /\ chanPc' = chanPc
      BY <1>1, <1>t DEF RecvSelectSend, Readable, chanPc, HandlerType
    <2>4. chanOffered' = [chanOffered EXCEPT ![g] = @ + 1]
      BY <1>1, <1>t DEF RecvSelectSend, Readable, chanOffered, HandlerType
    <2> QED
      BY <1>1, <2>2, <2>3, <2>4 DEF RecvSelectSend, Channel!SelectSend,
         Channel!returnVars, takerVars
  <1>2. ASSUME NEW g \in Conns, RecvSelectDefault(g) PROVE Channel!SelectDefault(g)
    <2>1. handler[g].buffered > 0 /\ handler[g].forwarded + handler[g].buffered <= packets
      BY <1>2, <1>n DEF RecvSelectDefault, Readable, Counted
    <2>2. chanOffered[g] < MaxPackets
      BY <2>1, <1>t, Fields DEF chanOffered
    <2>3. chanPc[g] = "select" /\ chanPc' = [chanPc EXCEPT ![g] = "drop"]
      BY <1>2, <1>t DEF RecvSelectDefault, Readable, chanPc, HandlerType
    <2>4. chanOffered' = [chanOffered EXCEPT ![g] = @ + 1]
      BY <1>2, <1>t DEF RecvSelectDefault, Readable, chanOffered, HandlerType
    <2>5. UNCHANGED <<marlinTo, droppedTo, marlinGot, returnedTo, marlinEnded>>
      BY <1>2 DEF RecvSelectDefault, dataVars, toVars, takerVars
    <2> QED
      BY <1>2, <2>2, <2>3, <2>4, <2>5 DEF RecvSelectDefault, Channel!SelectDefault,
         Channel!returnVars
  <1>3. ASSUME NEW g \in Conns, RecvDrop(g) PROVE Channel!DropHead(g)
    <2>1. chanPc[g] = "drop" /\ chanPc' = [chanPc EXCEPT ![g] = "put"]
      BY <1>3, <1>t DEF RecvDrop, chanPc, HandlerType
    <2>2. chanOffered' = chanOffered
      BY <1>3, <1>t DEF RecvDrop, chanOffered, HandlerType
    <2> QED
      BY <1>3, <2>1, <2>2 DEF RecvDrop, Channel!DropHead, Channel!returnVars, takerVars
  <1>4. ASSUME NEW g \in Conns, RecvPut(g) PROVE Channel!Put(g)
    <2>1. chanPc[g] = "put" /\ chanPc' = [chanPc EXCEPT ![g] = "select"]
      BY <1>4, <1>t DEF RecvPut, chanPc, HandlerType
    <2>2. chanOffered' = chanOffered
      BY <1>4, <1>t DEF RecvPut, chanOffered, HandlerType
    <2>3. chanOffered[g] = handler[g].forwarded
      BY DEF chanOffered
    <2> QED
      BY <1>4, <2>1, <2>2, <2>3 DEF RecvPut, Channel!Put, Channel!Offer,
         Channel!returnVars, takerVars
  <1>5. CASE MarlinSide
    <2>1. handler' = handler /\ chanPc' = chanPc /\ chanOffered' = chanOffered
      BY <1>5, MarlinSideApart DEF chanPc, chanOffered
    <2>2. ASSUME NEW r \in Routines, MarlinTake(r) PROVE Channel!Receive(r)
      BY <2>1, <2>2 DEF MarlinTake, Channel!Receive, Channel!returnVars
    <2>3. ASSUME NEW r \in Routines, MarlinReturn(r) PROVE Channel!Return(r)
      BY <2>1, <2>3 DEF MarlinReturn, Channel!Return
    <2>4. ASSUME RelaySelectSend \/ RelaySelectDefault \/ RelayDrop \/ RelayPut
          PROVE  UNCHANGED Channel!vars
      <3>1. UNCHANGED <<marlinTo, droppedTo, takerVars>>
        BY <2>4 DEF RelaySelectSend, RelaySelectDefault, RelayDrop, RelayPut, toVars
      <3> QED
        BY <2>1, <3>1, Unseen
    <2> QED
      BY <1>5, <2>2, <2>3, <2>4 DEF MarlinSide, Channel!Next
  <1>6. ASSUME NEW g \in Conns, RecvShutdown(g) PROVE UNCHANGED Channel!vars
    <2>1. UNCHANGED <<marlinTo, droppedTo, takerVars>>
      BY <1>6 DEF RecvShutdown, dataVars, toVars
    <2>2. chanPc' = chanPc /\ chanOffered' = chanOffered
      BY <1>6, <1>t DEF RecvShutdown, chanPc, chanOffered, HandlerType
    <2> QED
      BY <2>1, <2>2, Unseen
  <1>7. ASSUME NEW g \in Conns, RecvRead(g) PROVE UNCHANGED Channel!vars
    <2>1. UNCHANGED <<marlinTo, droppedTo, takerVars>>
      BY <1>7 DEF RecvRead, dataVars, toVars
    <2>2. chanPc' = chanPc /\ chanOffered' = chanOffered
      BY <1>7, <1>t DEF RecvRead, chanPc, chanOffered, HandlerType
    <2> QED
      BY <2>1, <2>2, Unseen
  <1>8. ASSUME NEW g \in Conns, RecvPing(g) PROVE UNCHANGED Channel!vars
    <2>1. UNCHANGED <<marlinTo, droppedTo, takerVars>>
      BY <1>8 DEF RecvPing, Readable, dataVars, toVars
    <2>2. chanPc' = chanPc /\ chanOffered' = chanOffered
      BY <1>8, <1>t DEF RecvPing, Readable, chanPc, chanOffered, HandlerType
    <2> QED
      BY <2>1, <2>2, Unseen
  <1>9. ASSUME NEW g \in Conns, RecvIgnored(g) PROVE UNCHANGED Channel!vars
    <2>1. UNCHANGED <<marlinTo, droppedTo, takerVars>>
      BY <1>9 DEF RecvIgnored, Readable, dataVars, toVars
    <2>2. chanPc' = chanPc /\ chanOffered' = chanOffered
      BY <1>9, <1>t DEF RecvIgnored, Readable, chanPc, chanOffered, HandlerType
    <2> QED
      BY <2>1, <2>2, Unseen
  <1>10. ASSUME NEW g \in Conns, ReflectSelectSend(g) PROVE UNCHANGED Channel!vars
    <2>1. UNCHANGED <<marlinTo, droppedTo, takerVars>>
      BY <1>10 DEF ReflectSelectSend, Readable, dataVars, toVars
    <2>2. chanPc' = chanPc /\ chanOffered' = chanOffered
      BY <1>10, <1>t DEF ReflectSelectSend, Readable, chanPc, chanOffered, HandlerType
    <2> QED
      BY <2>1, <2>2, Unseen
  <1>11. ASSUME NEW g \in Conns, ReflectSelectDefault(g) PROVE UNCHANGED Channel!vars
    <2>1. UNCHANGED <<marlinTo, droppedTo, takerVars>>
      BY <1>11 DEF ReflectSelectDefault, Readable, dataVars, toVars
    <2>2. chanPc' = chanPc /\ chanOffered' = chanOffered
      BY <1>11, <1>t DEF ReflectSelectDefault, Readable, chanPc, chanOffered, HandlerType
    <2> QED
      BY <2>1, <2>2, Unseen
  <1>12. ASSUME NEW g \in Conns, ReflectDrop(g) PROVE UNCHANGED Channel!vars
    <2>1. UNCHANGED <<marlinTo, droppedTo, takerVars>>
      BY <1>12 DEF ReflectDrop, dataVars, toVars
    <2>2. chanPc' = chanPc /\ chanOffered' = chanOffered
      BY <1>12, <1>t DEF ReflectDrop, chanPc, chanOffered, HandlerType
    <2> QED
      BY <2>1, <2>2, Unseen
  <1>13. ASSUME NEW g \in Conns, ReflectPut(g) PROVE UNCHANGED Channel!vars
    <2>1. UNCHANGED <<marlinTo, droppedTo, takerVars>>
      BY <1>13 DEF ReflectPut, dataVars, toVars
    <2>2. chanPc' = chanPc /\ chanOffered' = chanOffered
      BY <1>13, <1>t DEF ReflectPut, chanPc, chanOffered, HandlerType
    <2> QED
      BY <2>1, <2>2, Unseen
  <1>14. ASSUME NEW g \in Conns, RecvFails(g) PROVE UNCHANGED Channel!vars
    <2>1. UNCHANGED <<marlinTo, droppedTo, takerVars>>
      BY <1>14 DEF RecvFails, Readable, dataVars, toVars
    <2>2. chanPc' = chanPc /\ chanOffered' = chanOffered
      BY <1>14, <1>t DEF RecvFails, Readable, chanPc, chanOffered, HandlerType
    <2> QED
      BY <2>1, <2>2, Unseen
  <1>15. ASSUME NEW g \in Conns, RecvSignal(g) PROVE UNCHANGED Channel!vars
    <2>1. UNCHANGED <<marlinTo, droppedTo, takerVars>>
      BY <1>15 DEF RecvSignal, dataVars, toVars
    <2>2. chanPc' = chanPc /\ chanOffered' = chanOffered
      BY <1>15, <1>t DEF RecvSignal, chanPc, chanOffered, HandlerType
    <2> QED
      BY <2>1, <2>2, Unseen
  <1>16. ASSUME NEW g \in Conns, RecvCleanup(g) PROVE UNCHANGED Channel!vars
    <2>1. UNCHANGED <<marlinTo, droppedTo, takerVars>>
      BY <1>16 DEF RecvCleanup, dataVars, toVars
    <2>2. chanPc' = chanPc /\ chanOffered' = chanOffered
      BY <1>16, <1>t DEF RecvCleanup, chanPc, chanOffered, HandlerType
    <2> QED
      BY <2>1, <2>2, Unseen
  <1>17. ASSUME NEW g \in Conns, SendPong(g) PROVE UNCHANGED Channel!vars
    <2>1. UNCHANGED <<marlinTo, droppedTo, takerVars>>
      BY <1>17 DEF SendPong, dataVars, toVars
    <2>2. chanPc' = chanPc /\ chanOffered' = chanOffered
      BY <1>17, <1>t DEF SendPong, chanPc, chanOffered, HandlerType
    <2> QED
      BY <2>1, <2>2, Unseen
  <1>18. ASSUME NEW g \in Conns, SendPongFails(g) PROVE UNCHANGED Channel!vars
    <2>1. UNCHANGED <<marlinTo, droppedTo, takerVars>>
      BY <1>18 DEF SendPongFails, dataVars, toVars
    <2>2. chanPc' = chanPc /\ chanOffered' = chanOffered
      BY <1>18, <1>t DEF SendPongFails, chanPc, chanOffered, HandlerType
    <2> QED
      BY <2>1, <2>2, Unseen
  <1>19. ASSUME NEW g \in Conns, SendSignal(g) PROVE UNCHANGED Channel!vars
    <2>1. UNCHANGED <<marlinTo, droppedTo, takerVars>>
      BY <1>19 DEF SendSignal, dataVars, toVars
    <2>2. chanPc' = chanPc /\ chanOffered' = chanOffered
      BY <1>19, <1>t DEF SendSignal, chanPc, chanOffered, HandlerType
    <2> QED
      BY <2>1, <2>2, Unseen
  <1>20. ASSUME NEW g \in Conns, SendRelay(g) PROVE UNCHANGED Channel!vars
    <2>1. UNCHANGED <<marlinTo, droppedTo, takerVars>>
      BY <1>20 DEF SendRelay, dataVars, toVars
    <2>2. chanPc' = chanPc /\ chanOffered' = chanOffered
      BY <1>20, <1>t DEF SendRelay, chanPc, chanOffered, HandlerType
    <2> QED
      BY <2>1, <2>2, Unseen
  <1>21. ASSUME NEW g \in Conns, ThroughputShutdown(g) PROVE UNCHANGED Channel!vars
    <2>1. UNCHANGED <<marlinTo, droppedTo, takerVars>>
      BY <1>21 DEF ThroughputShutdown, dataVars, toVars
    <2>2. chanPc' = chanPc /\ chanOffered' = chanOffered
      BY <1>21, <1>t DEF ThroughputShutdown, chanPc, chanOffered, HandlerType
    <2> QED
      BY <2>1, <2>2, Unseen
  <1>22. ASSUME NEW g \in Conns, PacketArrives(g) PROVE UNCHANGED Channel!vars
    <2>1. UNCHANGED <<marlinTo, droppedTo, takerVars>>
      BY <1>22 DEF PacketArrives, dataVars, toVars
    <2>2. chanPc' = chanPc /\ chanOffered' = chanOffered
      BY <1>22, <1>t DEF PacketArrives, chanPc, chanOffered, HandlerType
    <2> QED
      BY <2>1, <2>2, Unseen
  <1>23. ASSUME NEW g \in Conns, LinkFails(g) PROVE UNCHANGED Channel!vars
    <2>1. UNCHANGED <<marlinTo, droppedTo, takerVars>>
      BY <1>23 DEF LinkFails, dataVars, toVars
    <2>2. chanPc' = chanPc /\ chanOffered' = chanOffered
      BY <1>23, <1>t DEF LinkFails, chanPc, chanOffered, HandlerType
    <2> QED
      BY <2>1, <2>2, Unseen
  <1>24. CASE ConnectPeer
    <2>1. UNCHANGED <<marlinTo, droppedTo, takerVars>>
      BY <1>24 DEF ConnectPeer, dataVars, toVars
    <2>2. chanPc' = chanPc /\ chanOffered' = chanOffered
      BY <1>24, <1>t, <1>c DEF ConnectPeer, chanPc, chanOffered, HandlerType
    <2> QED
      BY <2>1, <2>2, Unseen
  <1>25. CASE BeginServicing
    <2>1. UNCHANGED <<marlinTo, droppedTo, takerVars>>
      BY <1>25 DEF BeginServicing, dataVars, toVars
    <2>2. conn \in Conns /\ handler[conn].recv = "none"
      BY <1>25, <1>c, <1>n DEF BeginServicing, Stage
    <2>3. chanPc' = chanPc /\ chanOffered' = chanOffered
      BY <1>25, <1>t, <2>2 DEF BeginServicing, chanPc, chanOffered, HandlerType
    <2> QED
      BY <2>1, <2>3, Unseen
  <1>26. CASE UpgradeFails
    <2>1. UNCHANGED <<marlinTo, droppedTo, takerVars>>
      BY <1>26 DEF UpgradeFails, dataVars, toVars
    <2>2. chanPc' = chanPc /\ chanOffered' = chanOffered
      BY <1>26, <1>t, <1>c DEF UpgradeFails, chanPc, chanOffered, HandlerType
    <2> QED
      BY <2>1, <2>2, Unseen
  <1>27. CASE ConnErrorSeen
    <2>1. UNCHANGED <<marlinTo, droppedTo, takerVars>>
      BY <1>27 DEF ConnErrorSeen, dataVars, toVars
    <2>2. chanPc' = chanPc /\ chanOffered' = chanOffered
      BY <1>27, <1>t, <1>c DEF ConnErrorSeen, chanPc, chanOffered, HandlerType
    <2> QED
      BY <2>1, <2>2, Unseen
  <1>28. CASE ShutSend
    <2>1. UNCHANGED <<marlinTo, droppedTo, takerVars>>
      BY <1>28 DEF ShutSend, dataVars, toVars
    <2>2. chanPc' = chanPc /\ chanOffered' = chanOffered
      BY <1>28, <1>t, <1>c DEF ShutSend, chanPc, chanOffered, HandlerType
    <2> QED
      BY <2>1, <2>2, Unseen
  <1>29. CASE ShutRecv
    <2>1. UNCHANGED <<marlinTo, droppedTo, takerVars>>
      BY <1>29 DEF ShutRecv, dataVars, toVars
    <2>2. chanPc' = chanPc /\ chanOffered' = chanOffered
      BY <1>29, <1>t, <1>c DEF ShutRecv, chanPc, chanOffered, HandlerType
    <2> QED
      BY <2>1, <2>2, Unseen
  <1>30. CASE ShutThroughput
    <2>1. UNCHANGED <<marlinTo, droppedTo, takerVars>>
      BY <1>30 DEF ShutThroughput, dataVars, toVars
    <2>2. chanPc' = chanPc /\ chanOffered' = chanOffered
      BY <1>30, <1>t, <1>c DEF ShutThroughput, chanPc, chanOffered, HandlerType
    <2> QED
      BY <2>1, <2>2, Unseen
  <1>31. CASE CloseConnections
    <2>1. UNCHANGED <<marlinTo, droppedTo, takerVars>>
      BY <1>31 DEF CloseConnections, dataVars, toVars
    <2>2. chanPc' = chanPc /\ chanOffered' = chanOffered
      BY <1>31, <1>t, <1>c DEF CloseConnections, chanPc, chanOffered, HandlerType
    <2> QED
      BY <2>1, <2>2, Unseen
  <1>32. CASE \/ CreateHandler \/ ConnectPeerFails \/ ClosePanics \/ Reattempt
             \/ CollectListener \/ UNCHANGED vars
    <2>1. UNCHANGED <<handler, marlinTo, droppedTo, takerVars>>
      BY <1>32 DEF CreateHandler, ConnectPeerFails, ClosePanics, Reattempt,
         CollectListener, vars, dataVars, toVars
    <2>2. chanPc' = chanPc /\ chanOffered' = chanOffered
      BY <2>1 DEF chanPc, chanOffered
    <2> QED
      BY <2>1, <2>2, Unseen
  <1>33. ASSUME NEW g \in Conns,
               RecvSelectSend(g) \/ RecvSelectDefault(g) \/ RecvDrop(g) \/ RecvPut(g)
        PROVE  Channel!Next
    BY <1>1, <1>2, <1>3, <1>4, <1>33 DEF Channel!Next, Channel!Send
  <1> QED
    BY <1>5, <1>6, <1>7, <1>8, <1>9, <1>10, <1>11, <1>12, <1>13, <1>14, <1>15,
       <1>16, <1>17, <1>18, <1>19, <1>20, <1>21, <1>22, <1>23, <1>24, <1>25, <1>26,
       <1>27, <1>28, <1>29, <1>30, <1>31, <1>32, <1>33
       DEF Next, Supervisor, recvRoutine, sendRoutine

(* The receiving routines of all handlers together use marlinTo as the     *)
(* drop-oldest channel with consumers that may put a message back, so what *)
(* is proved of that channel holds of marlinTo.                            *)
THEOREM Implementation == Spec => MarlinToIsDropOldest
  <1>1. Init => Channel!Init
    BY DEF Init, NewHandler, Channel!Init, chanPc, chanOffered
  <1> QED
    BY Invariant, StepChannel, <1>1, PTL DEF Spec, MarlinToIsDropOldest, Channel!Spec
===============================================================================
