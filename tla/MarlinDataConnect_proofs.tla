----------------------- MODULE MarlinDataConnect_proofs -----------------------
(***************************************************************************)
(* Proofs about MarlinDataConnect, for every capacity and every bound on   *)
(* connections and messages.                                               *)
(***************************************************************************)
EXTENDS MarlinDataConnect, FiniteSetTheorems, TLAPS

USE CapacityAssumption, BoundsAssumption

-------------------------------------------------------------------------------

(* Facts about the first element and the rest of a sequence. *)
LEMMA HeadTail ==
    ASSUME NEW S, NEW s \in Seq(S), s # << >>
    PROVE  /\ Head(s) \in S /\ Tail(s) \in Seq(S)
           /\ Len(Tail(s)) = Len(s) - 1 /\ Len(s) \in Nat \ {0}
  OBVIOUS

(* Facts about a sequence with one more element. *)
LEMMA AppendOne ==
    ASSUME NEW S, NEW s \in Seq(S), NEW e \in S
    PROVE  /\ Append(s, e) \in Seq(S) /\ Len(Append(s, e)) = Len(s) + 1
           /\ Len(s) \in Nat
  OBVIOUS

(* The bounds as the set-membership facts of the steps below. *)
LEMMA Bounds ==
    /\ 0 \in 0..MaxConns /\ 0 \in 0..MaxMsgs /\ 0 \in 0..MaxFrames
    /\ \A k \in 0..MaxConns : k < MaxConns => k + 1 \in Conns /\ k + 1 \in 0..MaxConns
    /\ \A k \in 0..MaxMsgs : k < MaxMsgs => k + 1 \in 0..MaxMsgs
    /\ \A k \in 0..MaxFrames : k < MaxFrames => k + 1 \in 0..MaxFrames
  BY DEF Conns

(* Every step keeps the types, and gives a message to whoever handles one. *)
LEMMA StepType == TypeOK /\ Holding /\ [Next]_vars => TypeOK' /\ Holding'
  <1> SUFFICES ASSUME TypeOK, Holding, [Next]_vars PROVE TypeOK' /\ Holding'
    OBVIOUS
  <1>t. TypeOK /\ Holding
    OBVIOUS
  <1>1. ASSUME Connect PROVE TypeOK' /\ Holding'
    <2>1. conn + 1 \in Conns /\ conn + 1 \in 0..MaxConns
      BY <1>1, <1>t DEF Connect, TypeOK, Conns
    <2>4. TypeOK'
      BY <1>1, <1>t, <2>1 DEF Connect, TypeOK,
         modeVars, supVars, sigVars, sendVars, recvVars, peerVars
    <2>5. Holding'
      BY <1>1, <1>t, <2>1 DEF Connect, TypeOK, Holding,
         modeVars, supVars, sigVars, sendVars, recvVars, peerVars
    <2> QED
      BY <2>4, <2>5
  <1>2. ASSUME ConnectFails PROVE TypeOK' /\ Holding'
    <2>4. TypeOK'
      BY <1>2, <1>t DEF ConnectFails, TypeOK,
         modeVars, supVars, sigVars, sendVars, recvVars, peerVars
    <2>5. Holding'
      BY <1>2, <1>t DEF ConnectFails, TypeOK, Holding,
         modeVars, supVars, sigVars, sendVars, recvVars, peerVars
    <2> QED
      BY <2>4, <2>5
  <1>3. ASSUME ConnErrorSeen PROVE TypeOK' /\ Holding'
    <2>1. conn \in Conns
      BY <1>3, <1>t DEF ConnErrorSeen, TypeOK, Holding, Conns
    <2>2. signalConnError' \in [Conns -> 0..1]
      BY <1>3, <1>t, <2>1 DEF ConnErrorSeen, TypeOK
    <2>4. TypeOK'
      BY <1>3, <1>t, <2>1, <2>2 DEF ConnErrorSeen, TypeOK,
         modeVars, supVars, sigVars, sendVars, recvVars, peerVars
    <2>5. Holding'
      BY <1>3, <1>t, <2>1, <2>2 DEF ConnErrorSeen, TypeOK, Holding,
         modeVars, supVars, sigVars, sendVars, recvVars, peerVars
    <2> QED
      BY <2>4, <2>5
  <1>4. ASSUME ShutSend PROVE TypeOK' /\ Holding'
    <2>1. conn \in Conns
      BY <1>4, <1>t DEF ShutSend, TypeOK, Holding, Conns
    <2>2. signalShutSend' \in [Conns -> 0..1]
      BY <1>4, <1>t, <2>1 DEF ShutSend, TypeOK
    <2>4. TypeOK'
      BY <1>4, <1>t, <2>1, <2>2 DEF ShutSend, TypeOK,
         modeVars, supVars, sigVars, sendVars, recvVars, peerVars
    <2>5. Holding'
      BY <1>4, <1>t, <2>1, <2>2 DEF ShutSend, TypeOK, Holding,
         modeVars, supVars, sigVars, sendVars, recvVars, peerVars
    <2> QED
      BY <2>4, <2>5
  <1>5. ASSUME ShutRecv PROVE TypeOK' /\ Holding'
    <2>1. conn \in Conns
      BY <1>5, <1>t DEF ShutRecv, TypeOK, Holding, Conns
    <2>2. signalShutRecv' \in [Conns -> 0..1]
      BY <1>5, <1>t, <2>1 DEF ShutRecv, TypeOK
    <2>4. TypeOK'
      BY <1>5, <1>t, <2>1, <2>2 DEF ShutRecv, TypeOK,
         modeVars, supVars, sigVars, sendVars, recvVars, peerVars
    <2>5. Holding'
      BY <1>5, <1>t, <2>1, <2>2 DEF ShutRecv, TypeOK, Holding,
         modeVars, supVars, sigVars, sendVars, recvVars, peerVars
    <2> QED
      BY <2>4, <2>5
  <1>6. ASSUME Reattempt PROVE TypeOK' /\ Holding'
    <2>4. TypeOK'
      BY <1>6, <1>t DEF Reattempt, TypeOK,
         modeVars, supVars, sigVars, sendVars, recvVars, peerVars
    <2>5. Holding'
      BY <1>6, <1>t DEF Reattempt, TypeOK, Holding,
         modeVars, supVars, sigVars, sendVars, recvVars, peerVars
    <2> QED
      BY <2>4, <2>5
  <1>7. ASSUME NEW g \in Conns, SendTake(g) PROVE TypeOK' /\ Holding'
    <2>1. Head(marlinTo) \in Msgs /\ marlinTo' \in Seq(Msgs) /\ Len(marlinTo') \in 0..Capacity
      BY <1>7, <1>t, HeadTail DEF SendTake, TypeOK
    <2>2. Head(marlinTo) \in 0..MaxMsgs /\ Head(marlinTo) # 0
      BY <2>1 DEF Msgs
    <2>4. TypeOK'
      BY <1>7, <1>t, <2>1, <2>2 DEF SendTake, TypeOK,
         modeVars, supVars, sigVars, sendVars, recvVars, peerVars
    <2>5. Holding'
      BY <1>7, <1>t, <2>1, <2>2 DEF SendTake, TypeOK, Holding,
         modeVars, supVars, sigVars, sendVars, recvVars, peerVars
    <2> QED
      BY <2>4, <2>5
  <1>8. ASSUME NEW g \in Conns, SendShutdown(g) PROVE TypeOK' /\ Holding'
    <2>4. TypeOK'
      BY <1>8, <1>t DEF SendShutdown, TypeOK,
         modeVars, supVars, sigVars, sendVars, recvVars, peerVars
    <2>5. Holding'
      BY <1>8, <1>t DEF SendShutdown, TypeOK, Holding,
         modeVars, supVars, sigVars, sendVars, recvVars, peerVars
    <2> QED
      BY <2>4, <2>5
  <1>9. ASSUME NEW g \in Conns, SendRequeue(g) PROVE TypeOK' /\ Holding'
    <2>0. sendMsg[g] \in Msgs
      BY <1>9, <1>t DEF SendRequeue, Msgs, TypeOK, Holding
    <2>1. marlinTo' \in Seq(Msgs) /\ Len(marlinTo') \in 0..Capacity
      BY <1>9, <1>t, <2>0, AppendOne DEF SendRequeue, TypeOK
    <2>2. sendMsg[g] \in Msgs
      BY <1>9, <1>t DEF SendRequeue, TypeOK, Holding, Msgs
    <2>4. TypeOK'
      BY <1>9, <1>t, <2>1, <2>2 DEF SendRequeue, TypeOK,
         modeVars, supVars, sigVars, sendVars, recvVars, peerVars
    <2>5. Holding'
      BY <1>9, <1>t, <2>1, <2>2 DEF SendRequeue, TypeOK, Holding,
         modeVars, supVars, sigVars, sendVars, recvVars, peerVars
    <2> QED
      BY <2>4, <2>5
  <1>10. ASSUME NEW g \in Conns, SendDiscard(g) PROVE TypeOK' /\ Holding'
    <2>2. sendMsg[g] \in Msgs
      BY <1>10, <1>t DEF SendDiscard, TypeOK, Holding, Msgs
    <2>4. TypeOK'
      BY <1>10, <1>t, <2>2 DEF SendDiscard, TypeOK,
         modeVars, supVars, sigVars, sendVars, recvVars, peerVars
    <2>5. Holding'
      BY <1>10, <1>t, <2>2 DEF SendDiscard, TypeOK, Holding,
         modeVars, supVars, sigVars, sendVars, recvVars, peerVars
    <2> QED
      BY <2>4, <2>5
  <1>11. ASSUME NEW g \in Conns, SendEncode(g) PROVE TypeOK' /\ Holding'
    <2>4. TypeOK'
      BY <1>11, <1>t DEF SendEncode, TypeOK,
         modeVars, supVars, sigVars, sendVars, recvVars, peerVars
    <2>5. Holding'
      BY <1>11, <1>t DEF SendEncode, TypeOK, Holding,
         modeVars, supVars, sigVars, sendVars, recvVars, peerVars
    <2> QED
      BY <2>4, <2>5
  <1>12. ASSUME NEW g \in Conns, SendWrite(g) PROVE TypeOK' /\ Holding'
    <2>2. sendMsg[g] \in Msgs
      BY <1>12, <1>t DEF SendWrite, TypeOK, Holding, Msgs
    <2>3. Append(written[g], sendMsg[g]) \in Seq(Msgs)
      BY <1>t, <2>2, AppendOne DEF TypeOK
    <2>4. TypeOK'
      BY <1>12, <1>t, <2>2, <2>3 DEF SendWrite, TypeOK,
         modeVars, supVars, sigVars, sendVars, recvVars, peerVars
    <2>5. Holding'
      BY <1>12, <1>t, <2>2, <2>3 DEF SendWrite, TypeOK, Holding,
         modeVars, supVars, sigVars, sendVars, recvVars, peerVars
    <2> QED
      BY <2>4, <2>5
  <1>13. ASSUME NEW g \in Conns, SendWriteFails(g) PROVE TypeOK' /\ Holding'
    <2>2. sendMsg[g] \in Msgs
      BY <1>13, <1>t DEF SendWriteFails, TypeOK, Holding, Msgs
    <2>4. TypeOK'
      BY <1>13, <1>t, <2>2 DEF SendWriteFails, TypeOK,
         modeVars, supVars, sigVars, sendVars, recvVars, peerVars
    <2>5. Holding'
      BY <1>13, <1>t, <2>2 DEF SendWriteFails, TypeOK, Holding,
         modeVars, supVars, sigVars, sendVars, recvVars, peerVars
    <2> QED
      BY <2>4, <2>5
  <1>14. ASSUME NEW g \in Conns, SendSignal(g) PROVE TypeOK' /\ Holding'
    <2>4. TypeOK'
      BY <1>14, <1>t DEF SendSignal, TypeOK,
         modeVars, supVars, sigVars, sendVars, recvVars, peerVars
    <2>5. Holding'
      BY <1>14, <1>t DEF SendSignal, TypeOK, Holding,
         modeVars, supVars, sigVars, sendVars, recvVars, peerVars
    <2> QED
      BY <2>4, <2>5
  <1>15. ASSUME NEW g \in Conns, RecvShutdown(g) PROVE TypeOK' /\ Holding'
    <2>4. TypeOK'
      BY <1>15, <1>t DEF RecvShutdown, TypeOK,
         modeVars, supVars, sigVars, sendVars, recvVars, peerVars
    <2>5. Holding'
      BY <1>15, <1>t DEF RecvShutdown, TypeOK, Holding,
         modeVars, supVars, sigVars, sendVars, recvVars, peerVars
    <2> QED
      BY <2>4, <2>5
  <1>16. ASSUME NEW g \in Conns, RecvRead(g) PROVE TypeOK' /\ Holding'
    <2>4. TypeOK'
      BY <1>16, <1>t DEF RecvRead, TypeOK,
         modeVars, supVars, sigVars, sendVars, recvVars, peerVars
    <2>5. Holding'
      BY <1>16, <1>t DEF RecvRead, TypeOK, Holding,
         modeVars, supVars, sigVars, sendVars, recvVars, peerVars
    <2> QED
      BY <2>4, <2>5
  <1>17. ASSUME NEW g \in Conns, RecvIgnore(g) PROVE TypeOK' /\ Holding'
    <2>4. TypeOK'
      BY <1>17, <1>t DEF RecvIgnore, TypeOK,
         modeVars, supVars, sigVars, sendVars, recvVars, peerVars
    <2>5. Holding'
      BY <1>17, <1>t DEF RecvIgnore, TypeOK, Holding,
         modeVars, supVars, sigVars, sendVars, recvVars, peerVars
    <2> QED
      BY <2>4, <2>5
  <1>18. ASSUME NEW g \in Conns, RecvSelectSend(g) PROVE TypeOK' /\ Holding'
    <2>0. FromBridge(g, forwarded[g] + 1) \in Frames
      BY <1>18, <1>t DEF RecvSelectSend, Readable, FromBridge, Frames, TypeOK, Holding
    <2>1. marlinFrom' \in Seq(Frames) /\ Len(marlinFrom') \in 0..Capacity
      BY <1>18, <1>t, <2>0, AppendOne DEF RecvSelectSend, Readable, TypeOK
    <2>2. forwarded[g] + 1 \in 0..MaxFrames /\ forwarded[g] + 1 # 0
      BY <1>18, <1>t DEF RecvSelectSend, Readable, TypeOK
    <2>4. TypeOK'
      BY <1>18, <1>t, <2>1, <2>2 DEF RecvSelectSend, Readable, TypeOK,
         modeVars, supVars, sigVars, sendVars, recvVars, peerVars
    <2>5. Holding'
      BY <1>18, <1>t, <2>1, <2>2 DEF RecvSelectSend, Readable, TypeOK, Holding,
         modeVars, supVars, sigVars, sendVars, recvVars, peerVars
    <2> QED
      BY <2>4, <2>5
  <1>19. ASSUME NEW g \in Conns, RecvSelectDefault(g) PROVE TypeOK' /\ Holding'
    <2>2. forwarded[g] + 1 \in 0..MaxFrames /\ forwarded[g] + 1 # 0
      BY <1>19, <1>t DEF RecvSelectDefault, Readable, TypeOK
    <2>4. TypeOK'
      BY <1>19, <1>t, <2>2 DEF RecvSelectDefault, Readable, TypeOK,
         modeVars, supVars, sigVars, sendVars, recvVars, peerVars
    <2>5. Holding'
      BY <1>19, <1>t, <2>2 DEF RecvSelectDefault, Readable, TypeOK, Holding,
         modeVars, supVars, sigVars, sendVars, recvVars, peerVars
    <2> QED
      BY <2>4, <2>5
  <1>20. ASSUME NEW g \in Conns, RecvDrop(g) PROVE TypeOK' /\ Holding'
    <2>1. Head(marlinFrom) \in Frames /\ marlinFrom' \in Seq(Frames) /\ Len(marlinFrom') \in 0..Capacity
      BY <1>20, <1>t, HeadTail DEF RecvDrop, TypeOK
    <2>4. TypeOK'
      BY <1>20, <1>t, <2>1 DEF RecvDrop, TypeOK,
         modeVars, supVars, sigVars, sendVars, recvVars, peerVars
    <2>5. Holding'
      BY <1>20, <1>t, <2>1 DEF RecvDrop, TypeOK, Holding,
         modeVars, supVars, sigVars, sendVars, recvVars, peerVars
    <2> QED
      BY <2>4, <2>5
  <1>21. ASSUME NEW g \in Conns, RecvPut(g) PROVE TypeOK' /\ Holding'
    <2>0. FromBridge(g, forwarded[g]) \in Frames
      BY <1>21, <1>t DEF RecvPut, FromBridge, Frames, TypeOK, Holding
    <2>1. marlinFrom' \in Seq(Frames) /\ Len(marlinFrom') \in 0..Capacity
      BY <1>21, <1>t, <2>0, AppendOne DEF RecvPut, TypeOK
    <2>4. TypeOK'
      BY <1>21, <1>t, <2>1 DEF RecvPut, TypeOK,
         modeVars, supVars, sigVars, sendVars, recvVars, peerVars
    <2>5. Holding'
      BY <1>21, <1>t, <2>1 DEF RecvPut, TypeOK, Holding,
         modeVars, supVars, sigVars, sendVars, recvVars, peerVars
    <2> QED
      BY <2>4, <2>5
  <1>22. ASSUME NEW g \in Conns, RecvFails(g) PROVE TypeOK' /\ Holding'
    <2>4. TypeOK'
      BY <1>22, <1>t DEF RecvFails, TypeOK,
         modeVars, supVars, sigVars, sendVars, recvVars, peerVars
    <2>5. Holding'
      BY <1>22, <1>t DEF RecvFails, TypeOK, Holding,
         modeVars, supVars, sigVars, sendVars, recvVars, peerVars
    <2> QED
      BY <2>4, <2>5
  <1>23. ASSUME NEW g \in Conns, RecvSignal(g) PROVE TypeOK' /\ Holding'
    <2>4. TypeOK'
      BY <1>23, <1>t DEF RecvSignal, TypeOK,
         modeVars, supVars, sigVars, sendVars, recvVars, peerVars
    <2>5. Holding'
      BY <1>23, <1>t DEF RecvSignal, TypeOK, Holding,
         modeVars, supVars, sigVars, sendVars, recvVars, peerVars
    <2> QED
      BY <2>4, <2>5
  <1>24. ASSUME AllowServicedChainMessages PROVE TypeOK' /\ Holding'
    <2>4. TypeOK'
      BY <1>24, <1>t DEF AllowServicedChainMessages, TypeOK,
         modeVars, supVars, sigVars, sendVars, recvVars, peerVars
    <2>5. Holding'
      BY <1>24, <1>t DEF AllowServicedChainMessages, TypeOK, Holding,
         modeVars, supVars, sigVars, sendVars, recvVars, peerVars
    <2> QED
      BY <2>4, <2>5
  <1>25. ASSUME PeerSelectSend PROVE TypeOK' /\ Holding'
    <2>0. peerMsgs + 1 \in Msgs
      BY <1>25, <1>t DEF PeerSelectSend, Msgs, TypeOK, Holding
    <2>1. marlinTo' \in Seq(Msgs) /\ Len(marlinTo') \in 0..Capacity
      BY <1>25, <1>t, <2>0, AppendOne DEF PeerSelectSend, TypeOK
    <2>2. peerMsgs + 1 \in 0..MaxMsgs /\ peerMsgs + 1 # 0
      BY <1>25, <1>t DEF PeerSelectSend, TypeOK
    <2>4. TypeOK'
      BY <1>25, <1>t, <2>1, <2>2 DEF PeerSelectSend, TypeOK,
         modeVars, supVars, sigVars, sendVars, recvVars, peerVars
    <2>5. Holding'
      BY <1>25, <1>t, <2>1, <2>2 DEF PeerSelectSend, TypeOK, Holding,
         modeVars, supVars, sigVars, sendVars, recvVars, peerVars
    <2> QED
      BY <2>4, <2>5
  <1>26. ASSUME PeerSelectDefault PROVE TypeOK' /\ Holding'
    <2>2. peerMsgs + 1 \in 0..MaxMsgs /\ peerMsgs + 1 # 0
      BY <1>26, <1>t DEF PeerSelectDefault, TypeOK
    <2>4. TypeOK'
      BY <1>26, <1>t, <2>2 DEF PeerSelectDefault, TypeOK,
         modeVars, supVars, sigVars, sendVars, recvVars, peerVars
    <2>5. Holding'
      BY <1>26, <1>t, <2>2 DEF PeerSelectDefault, TypeOK, Holding,
         modeVars, supVars, sigVars, sendVars, recvVars, peerVars
    <2> QED
      BY <2>4, <2>5
  <1>27. ASSUME PeerDrop PROVE TypeOK' /\ Holding'
    <2>1. Head(marlinTo) \in Msgs /\ marlinTo' \in Seq(Msgs) /\ Len(marlinTo') \in 0..Capacity
      BY <1>27, <1>t, HeadTail DEF PeerDrop, TypeOK
    <2>4. TypeOK'
      BY <1>27, <1>t, <2>1 DEF PeerDrop, TypeOK,
         modeVars, supVars, sigVars, sendVars, recvVars, peerVars
    <2>5. Holding'
      BY <1>27, <1>t, <2>1 DEF PeerDrop, TypeOK, Holding,
         modeVars, supVars, sigVars, sendVars, recvVars, peerVars
    <2> QED
      BY <2>4, <2>5
  <1>28. ASSUME PeerPut PROVE TypeOK' /\ Holding'
    <2>0. peerMsgs \in Msgs
      BY <1>28, <1>t DEF PeerPut, Msgs, TypeOK, Holding
    <2>1. marlinTo' \in Seq(Msgs) /\ Len(marlinTo') \in 0..Capacity
      BY <1>28, <1>t, <2>0, AppendOne DEF PeerPut, TypeOK
    <2>4. TypeOK'
      BY <1>28, <1>t, <2>1 DEF PeerPut, TypeOK,
         modeVars, supVars, sigVars, sendVars, recvVars, peerVars
    <2>5. Holding'
      BY <1>28, <1>t, <2>1 DEF PeerPut, TypeOK, Holding,
         modeVars, supVars, sigVars, sendVars, recvVars, peerVars
    <2> QED
      BY <2>4, <2>5
  <1>29. ASSUME PeerReceive PROVE TypeOK' /\ Holding'
    <2>1. Head(marlinFrom) \in Frames /\ marlinFrom' \in Seq(Frames) /\ Len(marlinFrom') \in 0..Capacity
      BY <1>29, <1>t, HeadTail DEF PeerReceive, TypeOK
    <2>2. peerGot' \in Seq(Frames)
      BY <1>29, <1>t, <2>1, AppendOne DEF PeerReceive, TypeOK
    <2>4. TypeOK'
      BY <1>29, <1>t, <2>1, <2>2 DEF PeerReceive, TypeOK,
         modeVars, supVars, sigVars, sendVars, recvVars, peerVars
    <2>5. Holding'
      BY <1>29, <1>t, <2>1, <2>2 DEF PeerReceive, TypeOK, Holding,
         modeVars, supVars, sigVars, sendVars, recvVars, peerVars
    <2> QED
      BY <2>4, <2>5
  <1>30. ASSUME NEW g \in Conns, LinkFails(g) PROVE TypeOK' /\ Holding'
    <2>4. TypeOK'
      BY <1>30, <1>t DEF LinkFails, TypeOK,
         modeVars, supVars, sigVars, sendVars, recvVars, peerVars
    <2>5. Holding'
      BY <1>30, <1>t DEF LinkFails, TypeOK, Holding,
         modeVars, supVars, sigVars, sendVars, recvVars, peerVars
    <2> QED
      BY <2>4, <2>5
  <1>31. CASE UNCHANGED vars
    BY <1>31, <1>t DEF vars, TypeOK, Holding,
       modeVars, supVars, sigVars, sendVars, recvVars, peerVars
  <1> QED
    BY <1>1, <1>2, <1>3, <1>4, <1>5, <1>6, <1>7, <1>8, <1>9, <1>10, <1>11, <1>12, <1>13, <1>14, <1>15, <1>16, <1>17, <1>18, <1>19, <1>20, <1>21, <1>22, <1>23, <1>24, <1>25, <1>26, <1>27, <1>28, <1>29, <1>30, <1>31
       DEF Next, Supervisor, Peer, sendRoutineConnection, recvRoutineConnection

(* Every step keeps the account of tokens and failed routines.             *)
LEMMA StepTokens == IInv /\ [Next]_vars => (\A g \in Conns : Tokens(g) /\ Routines(g))'
  <1> SUFFICES ASSUME IInv, [Next]_vars, NEW g \in Conns
               PROVE  Tokens(g)' /\ Routines(g)'
    OBVIOUS
  <1>t. TypeOK /\ Holding /\ (\A h \in Conns : Tokens(h) /\ Routines(h))
    BY DEF IInv
  <1>1. ASSUME Connect PROVE Tokens(g)' /\ Routines(g)'
    <2>1. conn \in 0..MaxConns /\ g \in Nat /\ g > 0
      BY <1>t DEF TypeOK, Conns
    <2>2. CASE g = conn + 1
      <3>1. /\ sendPc'[g] = "range" /\ recvPc'[g] = "top" /\ link'[g] = "up"
            /\ signalConnError' = signalConnError /\ signalShutSend' = signalShutSend
            /\ signalShutRecv' = signalShutRecv /\ conn' = g /\ supPc' = "watch"
        BY <1>1, <1>t, <2>2 DEF Connect, TypeOK, sigVars
      <3>2. ~Abandoned(g) /\ ~Abandoned(g)' /\ Signalled(g) = 0 /\ Signalled(g)' = 0
        BY <1>t, <2>1, <2>2, <3>1 DEF Abandoned, Signalled, Routines
      <3>3. signalConnError[g] = 0 /\ signalShutSend[g] # 1 /\ signalShutRecv[g] # 1
        BY <1>t, <2>1, <2>2, <3>2 DEF Tokens, TypeOK
      <3> QED
        BY <1>t, <2>1, <3>1, <3>3 DEF TypeOK, Tokens, Routines, Signalled, Abandoned
    <2>3. CASE g # conn + 1
      <3>1. /\ sendPc'[g] = sendPc[g] /\ recvPc'[g] = recvPc[g] /\ link'[g] = link[g]
            /\ signalConnError' = signalConnError /\ signalShutSend' = signalShutSend
            /\ signalShutRecv' = signalShutRecv /\ conn' = conn + 1
            /\ supPc = "connect" /\ supPc' = "watch"
        BY <1>1, <1>t, <2>3 DEF Connect, TypeOK, sigVars
      <3>2. Abandoned(g)' <=> Abandoned(g)
        BY <2>1, <2>3, <3>1 DEF Abandoned
      <3> QED
        BY <1>t, <2>1, <2>3, <3>1, <3>2 DEF Tokens, Routines, Signalled
    <2> QED
      BY <2>2, <2>3
  <1>2. ASSUME ConnectFails PROVE Tokens(g)' /\ Routines(g)'
    BY <1>2, <1>t DEF ConnectFails, TypeOK, Holding, Tokens, Routines, Signalled, Abandoned, Conns,
       modeVars, supVars, sigVars, sendVars, recvVars, peerVars
  <1>3. ASSUME ConnErrorSeen PROVE Tokens(g)' /\ Routines(g)'
    <2>1. conn \in 0..MaxConns /\ g \in Nat /\ g > 0
      BY <1>t DEF TypeOK, Conns
    <2>2. /\ sendPc' = sendPc /\ recvPc' = recvPc /\ link' = link /\ conn' = conn
          /\ signalShutSend' = signalShutSend /\ signalShutRecv' = signalShutRecv
          /\ supPc = "watch" /\ supPc' = "shutSend"
          /\ g # conn => signalConnError'[g] = signalConnError[g]
          /\ g = conn => signalConnError[g] = 1 /\ signalConnError'[g] = 0
      BY <1>3, <1>t DEF ConnErrorSeen, TypeOK, sendVars, recvVars
    <2>3. Abandoned(g)' <=> Abandoned(g) \/ g = conn
      BY <2>1, <2>2 DEF Abandoned
    <2> QED
      BY <1>t, <2>1, <2>2, <2>3 DEF Tokens, Routines, Signalled, Abandoned
  <1>4. ASSUME ShutSend PROVE Tokens(g)' /\ Routines(g)'
    BY <1>4, <1>t DEF ShutSend, TypeOK, Holding, Tokens, Routines, Signalled, Abandoned, Conns,
       modeVars, supVars, sigVars, sendVars, recvVars, peerVars
  <1>5. ASSUME ShutRecv PROVE Tokens(g)' /\ Routines(g)'
    BY <1>5, <1>t DEF ShutRecv, TypeOK, Holding, Tokens, Routines, Signalled, Abandoned, Conns,
       modeVars, supVars, sigVars, sendVars, recvVars, peerVars
  <1>6. ASSUME Reattempt PROVE Tokens(g)' /\ Routines(g)'
    BY <1>6, <1>t DEF Reattempt, TypeOK, Holding, Tokens, Routines, Signalled, Abandoned, Conns,
       modeVars, supVars, sigVars, sendVars, recvVars, peerVars
  <1>7. ASSUME NEW h \in Conns, SendTake(h) PROVE Tokens(g)' /\ Routines(g)'
    BY <1>7, <1>t DEF SendTake, TypeOK, Holding, Tokens, Routines, Signalled, Abandoned, Conns,
       modeVars, supVars, sigVars, sendVars, recvVars, peerVars
  <1>8. ASSUME NEW h \in Conns, SendShutdown(h) PROVE Tokens(g)' /\ Routines(g)'
    BY <1>8, <1>t DEF SendShutdown, TypeOK, Holding, Tokens, Routines, Signalled, Abandoned, Conns,
       modeVars, supVars, sigVars, sendVars, recvVars, peerVars
  <1>9. ASSUME NEW h \in Conns, SendRequeue(h) PROVE Tokens(g)' /\ Routines(g)'
    BY <1>9, <1>t DEF SendRequeue, TypeOK, Holding, Tokens, Routines, Signalled, Abandoned, Conns,
       modeVars, supVars, sigVars, sendVars, recvVars, peerVars
  <1>10. ASSUME NEW h \in Conns, SendDiscard(h) PROVE Tokens(g)' /\ Routines(g)'
    BY <1>10, <1>t DEF SendDiscard, TypeOK, Holding, Tokens, Routines, Signalled, Abandoned, Conns,
       modeVars, supVars, sigVars, sendVars, recvVars, peerVars
  <1>11. ASSUME NEW h \in Conns, SendEncode(h) PROVE Tokens(g)' /\ Routines(g)'
    BY <1>11, <1>t DEF SendEncode, TypeOK, Holding, Tokens, Routines, Signalled, Abandoned, Conns,
       modeVars, supVars, sigVars, sendVars, recvVars, peerVars
  <1>12. ASSUME NEW h \in Conns, SendWrite(h) PROVE Tokens(g)' /\ Routines(g)'
    BY <1>12, <1>t DEF SendWrite, TypeOK, Holding, Tokens, Routines, Signalled, Abandoned, Conns,
       modeVars, supVars, sigVars, sendVars, recvVars, peerVars
  <1>13. ASSUME NEW h \in Conns, SendWriteFails(h) PROVE Tokens(g)' /\ Routines(g)'
    <2>1. conn \in 0..MaxConns /\ g \in Nat /\ g > 0
      BY <1>t DEF TypeOK, Conns
    <2>2. /\ \A k \in Conns \ {h} : sendPc'[k] = sendPc[k]
          /\ sendPc[h] = "write" /\ sendPc'[h] = "fail" /\ recvPc' = recvPc
          /\ link' = link /\ link[h] \in {"none", "eof", "down"}
          /\ conn' = conn /\ supPc' = supPc
          /\ signalConnError' = signalConnError /\ signalShutSend' = signalShutSend
          /\ signalShutRecv' = signalShutRecv
      BY <1>13, <1>t DEF SendWriteFails, TypeOK, supVars, sigVars, recvVars
    <2>3. Tokens(g)'
      BY <1>t, <2>2 DEF Tokens, Signalled, Abandoned
    <2>4. Routines(g)'
      BY <1>t, <2>2 DEF Routines
    <2> QED
      BY <2>3, <2>4
  <1>14. ASSUME NEW h \in Conns, SendSignal(h) PROVE Tokens(g)' /\ Routines(g)'
    <2>1. conn \in 0..MaxConns /\ g \in Nat /\ g > 0
      BY <1>t DEF TypeOK, Conns
    <2>2. /\ \A k \in Conns \ {h} : /\ sendPc'[k] = sendPc[k]
                                 /\ signalConnError'[k] = signalConnError[k]
          /\ sendPc[h] = "fail" /\ sendPc'[h] = "failed" /\ recvPc' = recvPc
          /\ signalConnError[h] = 0 /\ signalConnError'[h] = 1
          /\ link' = link /\ conn' = conn /\ supPc' = supPc
          /\ signalShutSend' = signalShutSend /\ signalShutRecv' = signalShutRecv
      BY <1>14, <1>t DEF SendSignal, TypeOK, supVars, recvVars
    <2>3. Tokens(g)'
      BY <1>t, <2>2 DEF Tokens, Signalled, Abandoned
    <2>4. Routines(g)'
      BY <1>t, <2>2 DEF Routines
    <2> QED
      BY <2>3, <2>4
  <1>15. ASSUME NEW h \in Conns, RecvShutdown(h) PROVE Tokens(g)' /\ Routines(g)'
    BY <1>15, <1>t DEF RecvShutdown, TypeOK, Holding, Tokens, Routines, Signalled, Abandoned, Conns,
       modeVars, supVars, sigVars, sendVars, recvVars, peerVars
  <1>16. ASSUME NEW h \in Conns, RecvRead(h) PROVE Tokens(g)' /\ Routines(g)'
    BY <1>16, <1>t DEF RecvRead, TypeOK, Holding, Tokens, Routines, Signalled, Abandoned, Conns,
       modeVars, supVars, sigVars, sendVars, recvVars, peerVars
  <1>17. ASSUME NEW h \in Conns, RecvIgnore(h) PROVE Tokens(g)' /\ Routines(g)'
    BY <1>17, <1>t DEF RecvIgnore, TypeOK, Holding, Tokens, Routines, Signalled, Abandoned, Conns,
       modeVars, supVars, sigVars, sendVars, recvVars, peerVars
  <1>18. ASSUME NEW h \in Conns, RecvSelectSend(h) PROVE Tokens(g)' /\ Routines(g)'
    BY <1>18, <1>t DEF RecvSelectSend, Readable, TypeOK, Holding, Tokens, Routines, Signalled, Abandoned, Conns,
       modeVars, supVars, sigVars, sendVars, recvVars, peerVars
  <1>19. ASSUME NEW h \in Conns, RecvSelectDefault(h) PROVE Tokens(g)' /\ Routines(g)'
    BY <1>19, <1>t DEF RecvSelectDefault, Readable, TypeOK, Holding, Tokens, Routines, Signalled, Abandoned, Conns,
       modeVars, supVars, sigVars, sendVars, recvVars, peerVars
  <1>20. ASSUME NEW h \in Conns, RecvDrop(h) PROVE Tokens(g)' /\ Routines(g)'
    BY <1>20, <1>t DEF RecvDrop, TypeOK, Holding, Tokens, Routines, Signalled, Abandoned, Conns,
       modeVars, supVars, sigVars, sendVars, recvVars, peerVars
  <1>21. ASSUME NEW h \in Conns, RecvPut(h) PROVE Tokens(g)' /\ Routines(g)'
    BY <1>21, <1>t DEF RecvPut, TypeOK, Holding, Tokens, Routines, Signalled, Abandoned, Conns,
       modeVars, supVars, sigVars, sendVars, recvVars, peerVars
  <1>22. ASSUME NEW h \in Conns, RecvFails(h) PROVE Tokens(g)' /\ Routines(g)'
    BY <1>22, <1>t DEF RecvFails, TypeOK, Holding, Tokens, Routines, Signalled, Abandoned, Conns,
       modeVars, supVars, sigVars, sendVars, recvVars, peerVars
  <1>23. ASSUME NEW h \in Conns, RecvSignal(h) PROVE Tokens(g)' /\ Routines(g)'
    <2>1. conn \in 0..MaxConns /\ g \in Nat /\ g > 0
      BY <1>t DEF TypeOK, Conns
    <2>2. /\ \A k \in Conns \ {h} : /\ recvPc'[k] = recvPc[k]
                                 /\ signalConnError'[k] = signalConnError[k]
          /\ recvPc[h] = "fail" /\ recvPc'[h] = "failed" /\ sendPc' = sendPc
          /\ signalConnError[h] = 0 /\ signalConnError'[h] = 1
          /\ link' = link /\ conn' = conn /\ supPc' = supPc
          /\ signalShutSend' = signalShutSend /\ signalShutRecv' = signalShutRecv
      BY <1>23, <1>t DEF RecvSignal, TypeOK, supVars, sendVars
    <2>3. Tokens(g)'
      BY <1>t, <2>2 DEF Tokens, Signalled, Abandoned
    <2>4. Routines(g)'
      BY <1>t, <2>2 DEF Routines
    <2> QED
      BY <2>3, <2>4
  <1>24. ASSUME AllowServicedChainMessages PROVE Tokens(g)' /\ Routines(g)'
    BY <1>24, <1>t DEF AllowServicedChainMessages, TypeOK, Holding, Tokens, Routines, Signalled, Abandoned, Conns,
       modeVars, supVars, sigVars, sendVars, recvVars, peerVars
  <1>25. ASSUME PeerSelectSend PROVE Tokens(g)' /\ Routines(g)'
    BY <1>25, <1>t DEF PeerSelectSend, TypeOK, Holding, Tokens, Routines, Signalled, Abandoned, Conns,
       modeVars, supVars, sigVars, sendVars, recvVars, peerVars
  <1>26. ASSUME PeerSelectDefault PROVE Tokens(g)' /\ Routines(g)'
    BY <1>26, <1>t DEF PeerSelectDefault, TypeOK, Holding, Tokens, Routines, Signalled, Abandoned, Conns,
       modeVars, supVars, sigVars, sendVars, recvVars, peerVars
  <1>27. ASSUME PeerDrop PROVE Tokens(g)' /\ Routines(g)'
    BY <1>27, <1>t DEF PeerDrop, TypeOK, Holding, Tokens, Routines, Signalled, Abandoned, Conns,
       modeVars, supVars, sigVars, sendVars, recvVars, peerVars
  <1>28. ASSUME PeerPut PROVE Tokens(g)' /\ Routines(g)'
    BY <1>28, <1>t DEF PeerPut, TypeOK, Holding, Tokens, Routines, Signalled, Abandoned, Conns,
       modeVars, supVars, sigVars, sendVars, recvVars, peerVars
  <1>29. ASSUME PeerReceive PROVE Tokens(g)' /\ Routines(g)'
    BY <1>29, <1>t DEF PeerReceive, TypeOK, Holding, Tokens, Routines, Signalled, Abandoned, Conns,
       modeVars, supVars, sigVars, sendVars, recvVars, peerVars
  <1>30. ASSUME NEW h \in Conns, LinkFails(h) PROVE Tokens(g)' /\ Routines(g)'
    BY <1>30, <1>t DEF LinkFails, TypeOK, Holding, Tokens, Routines, Signalled, Abandoned, Conns,
       modeVars, supVars, sigVars, sendVars, recvVars, peerVars
  <1>31. CASE UNCHANGED vars
    BY <1>31, <1>t DEF vars, TypeOK, Holding, Tokens, Routines, Signalled, Abandoned,
       modeVars, supVars, sigVars, sendVars, recvVars, peerVars
  <1> QED
    BY <1>1, <1>2, <1>3, <1>4, <1>5, <1>6, <1>7, <1>8, <1>9, <1>10, <1>11, <1>12, <1>13, <1>14, <1>15, <1>16, <1>17, <1>18, <1>19, <1>20, <1>21, <1>22, <1>23, <1>24, <1>25, <1>26, <1>27, <1>28, <1>29, <1>30, <1>31
       DEF Next, Supervisor, Peer, sendRoutineConnection, recvRoutineConnection

-------------------------------------------------------------------------------

(* The inductive invariant holds of every reachable state.                 *)
LEMMA Invariant == Spec => []IInv
  <1>1. Init => IInv
    <2> SUFFICES ASSUME Init PROVE IInv
      OBVIOUS
    <2>1. TypeOK /\ Holding
      BY Bounds DEF Init, TypeOK, Holding
    <2>2. \A g \in Conns : Tokens(g) /\ Routines(g)
      BY DEF Init, Tokens, Routines, Signalled, Abandoned, Conns
    <2> QED
      BY <2>1, <2>2 DEF IInv
  <1>2. IInv /\ [Next]_vars => IInv'
    BY StepType, StepTokens DEF IInv
  <1> QED
    BY <1>1, <1>2, PTL DEF Spec

(* The types and the capacities of both channels.                          *)
THEOREM TypeCorrect == Spec => []TypeOK
  <1>1. IInv => TypeOK
    BY DEF IInv
  <1> QED
    BY Invariant, <1>1, PTL

(* However connections fail and routines of old connections linger, no     *)
(* send on a signal channel waits for ever.                                *)
THEOREM SignalsNeverBlock == Spec => []NoSignalBlocks
  <1>1. IInv => NoSignalBlocks
    <2> SUFFICES ASSUME IInv PROVE NoSignalBlocks
      OBVIOUS
    <2>t. TypeOK /\ Holding /\ \A g \in Conns : Tokens(g)
      BY DEF IInv
    <2>1. supPc \in {"shutSend", "shutRecv"} => conn \in Conns /\ conn \in Nat
      BY <2>t DEF TypeOK, Holding, Conns
    <2>2. supPc = "shutSend" => signalShutSend[conn] = 0
      BY <2>t, <2>1 DEF TypeOK, Tokens
    <2>3. supPc = "shutRecv" => signalShutRecv[conn] = 0
      BY <2>t, <2>1 DEF TypeOK, Tokens
    <2>4. ASSUME NEW g \in Conns, Abandoned(g), "fail" \in {sendPc[g], recvPc[g]}
          PROVE  signalConnError[g] = 0 /\ sendPc[g] # recvPc[g]
      <3>1. signalConnError[g] + 1 = Signalled(g) /\ signalConnError[g] \in 0..1
        BY <2>t, <2>4, Zenon DEF TypeOK, Tokens
      <3> QED
        BY <2>4, <3>1 DEF Signalled
    <2> QED
      BY <2>2, <2>3, <2>4 DEF NoSignalBlocks
  <1> QED
    BY Invariant, <1>1, PTL

(* The supervisor leaves only connections whose other end is gone.         *)
THEOREM AbandoningTheDead == Spec => []AbandonedIsDead
  <1>1. IInv => AbandonedIsDead
    <2> SUFFICES ASSUME IInv, NEW g \in Conns, Abandoned(g)
                 PROVE  link[g] \in {"eof", "down"}
      BY DEF AbandonedIsDead
    <2>1. signalConnError[g] + 1 = Signalled(g) /\ signalConnError[g] \in 0..1
      BY Zenon DEF IInv, TypeOK, Tokens
    <2>2. sendPc[g] = "failed" \/ recvPc[g] = "failed"
      BY <2>1 DEF Signalled
    <2>3. Routines(g)
      BY DEF IInv
    <2> QED
      BY <2>2, <2>3 DEF Routines
  <1> QED
    BY Invariant, <1>1, PTL

-------------------------------------------------------------------------------

(* What the drop-oldest channel sees of the receiving routines.            *)
chanPc == [g \in Conns |-> IF recvPc[g] \in {"drop", "put"} THEN recvPc[g] ELSE "select"]
chanReceived == [c \in {"peer"} |-> peerGot]

(* A step that the channel does not see.                                   *)
LEMMA Unseen ==
    ASSUME UNCHANGED <<marlinFrom, forwarded, peerGot, lostFrom>>, chanPc' = chanPc
    PROVE  UNCHANGED Channel!vars
  BY DEF Channel!vars, Channel!returnVars, chanPc

(* Every step is one of the drop-oldest channel or one it does not see.    *)
LEMMA StepChannel == IInv /\ [Next]_vars => [Channel!Next]_(Channel!vars)
  <1> SUFFICES ASSUME IInv, [Next]_vars PROVE Channel!Next \/ UNCHANGED Channel!vars
    OBVIOUS
  <1>t. TypeOK
    BY DEF IInv
  <1>1. ASSUME NEW g \in Conns, RecvSelectSend(g) PROVE Channel!SelectSend(g)
    <2>1. chanPc[g] = "select" /\ chanPc' = chanPc
      BY <1>1, <1>t DEF RecvSelectSend, Readable, chanPc, TypeOK
    <2> QED
      BY <1>1, <1>t, <2>1 DEF RecvSelectSend, Readable, FromBridge, Channel!SelectSend, Channel!returnVars, chanPc
  <1>2. ASSUME NEW g \in Conns, RecvSelectDefault(g) PROVE Channel!SelectDefault(g)
    <2>1. chanPc[g] = "select" /\ chanPc' = [chanPc EXCEPT ![g] = "drop"]
      BY <1>2, <1>t DEF RecvSelectDefault, Readable, chanPc, TypeOK
    <2> QED
      BY <1>2, <1>t, <2>1 DEF RecvSelectDefault, Readable, Channel!SelectDefault, Channel!returnVars, chanPc
  <1>3. ASSUME NEW g \in Conns, RecvDrop(g) PROVE Channel!DropHead(g)
    <2>1. chanPc[g] = "drop" /\ chanPc' = [chanPc EXCEPT ![g] = "put"]
      BY <1>3, <1>t DEF RecvDrop, chanPc, TypeOK
    <2> QED
      BY <1>3, <1>t, <2>1 DEF RecvDrop, Channel!DropHead, Channel!returnVars, chanPc
  <1>4. ASSUME NEW g \in Conns, RecvPut(g) PROVE Channel!Put(g)
    <2>1. chanPc[g] = "put" /\ chanPc' = [chanPc EXCEPT ![g] = "select"]
      BY <1>4, <1>t DEF RecvPut, chanPc, TypeOK
    <2> QED
      BY <1>4, <1>t, <2>1 DEF RecvPut, FromBridge, Channel!Put, Channel!Offer, Channel!returnVars, chanPc
  <1>5. CASE PeerReceive
    <2>1. chanPc' = chanPc /\ chanReceived["peer"] = peerGot
          /\ chanReceived' = [chanReceived EXCEPT !["peer"] = Append(@, Head(marlinFrom))]
      BY <1>5 DEF PeerReceive, chanPc, chanReceived
    <2>2. Channel!Receive("peer")
      BY <1>5, <2>1 DEF PeerReceive, Channel!Receive, Channel!returnVars, chanPc, chanReceived
    <2> QED
      BY <2>2 DEF Channel!Next
  <1>6. ASSUME NEW g \in Conns,
               \/ RecvShutdown(g) \/ RecvRead(g) \/ RecvIgnore(g)
               \/ RecvFails(g) \/ RecvSignal(g)
        PROVE  UNCHANGED Channel!vars
    <2>1. UNCHANGED <<marlinFrom, forwarded, peerGot, lostFrom>>
      BY <1>6 DEF RecvShutdown, RecvRead, RecvIgnore, RecvFails, RecvSignal
    <2>2. chanPc' = chanPc
      BY <1>6, <1>t DEF RecvShutdown, RecvRead, RecvIgnore, RecvFails, RecvSignal, chanPc, TypeOK
    <2> QED
      BY <2>1, <2>2, Unseen
  <1>7. CASE Connect
    <2>1. UNCHANGED <<marlinFrom, forwarded, peerGot, lostFrom>>
      BY <1>7 DEF Connect
    <2>2. chanPc' = chanPc
      <3>1. recvPc[conn + 1] = "none" /\ conn + 1 \in Conns
        BY <1>7, Bounds DEF Connect, IInv, Routines, TypeOK, Conns
      <3> QED
        BY <1>7, <1>t, <3>1 DEF Connect, chanPc, TypeOK
    <2> QED
      BY <2>1, <2>2, Unseen
  <1>8. ASSUME \/ ConnectFails \/ ConnErrorSeen \/ ShutSend \/ ShutRecv \/ Reattempt
               \/ \E g \in Conns : sendRoutineConnection(g) \/ LinkFails(g)
               \/ AllowServicedChainMessages \/ PeerSelectSend \/ PeerSelectDefault
               \/ PeerDrop \/ PeerPut \/ UNCHANGED vars
        PROVE  UNCHANGED Channel!vars
    <2>1. UNCHANGED <<recvVars, peerGot>>
      BY <1>8 DEF ConnectFails, ConnErrorSeen, ShutSend, ShutRecv, Reattempt,
         sendRoutineConnection, SendTake, SendShutdown, SendRequeue, SendDiscard,
         SendEncode, SendWrite, SendWriteFails, SendSignal, LinkFails,
         AllowServicedChainMessages, PeerSelectSend, PeerSelectDefault, PeerDrop,
         PeerPut, vars
    <2>2. UNCHANGED <<marlinFrom, forwarded, peerGot, lostFrom>> /\ chanPc' = chanPc
      BY <2>1 DEF recvVars, chanPc
    <2> QED
      BY <2>2, Unseen
  <1>9. ASSUME NEW g \in Conns,
               RecvSelectSend(g) \/ RecvSelectDefault(g) \/ RecvDrop(g) \/ RecvPut(g)
        PROVE  Channel!Next
    BY <1>1, <1>2, <1>3, <1>4, <1>9 DEF Channel!Next, Channel!Send
  <1> QED
    BY <1>5, <1>6, <1>7, <1>8, <1>9
       DEF Next, Supervisor, Peer, recvRoutineConnection

(* The receiving routines of all connections together use marlinFrom as    *)
(* the drop-oldest channel, so what is proved of that holds of them.       *)
THEOREM Implementation == Spec => MarlinFromIsDropOldest
  <1>1. Init => Channel!Init
    BY DEF Init, Channel!Init
  <1> QED
    BY Invariant, StepChannel, <1>1, PTL DEF Spec, MarlinFromIsDropOldest, Channel!Spec

-------------------------------------------------------------------------------
(* Where the messages of the peer side are.  The channel, the hands of the *)
(* sending routines, what was written, the hand of the peer side and what  *)
(* was lost are five sets that share no message, and each of the first     *)
(* three has none twice.                                                   *)

Elements(s) == {s[i] : i \in DOMAIN s}
Injective(s) == \A i, j \in DOMAIN s : s[i] = s[j] => i = j

Held(g) == sendPc[g] \in {"check", "requeue", "write"}
InChannel == Elements(marlinTo)
InHand == {sendMsg[g] : g \in {h \in Conns : Held(h)}}
Written == UNION {Elements(written[g]) : g \in Conns}
WithPeer == IF peerPc = "select" THEN {} ELSE {peerMsgs}

Partition(T, H, W, P, L, n) ==
    /\ T \union H \union W \union P \union L = 1..n
    /\ T \intersect H = {} /\ T \intersect W = {} /\ T \intersect P = {}
    /\ T \intersect L = {} /\ H \intersect W = {} /\ H \intersect P = {}
    /\ H \intersect L = {} /\ W \intersect P = {} /\ W \intersect L = {}
    /\ P \intersect L = {}

HandsDiffer == \A g, h \in Conns : Held(g) /\ Held(h) /\ sendMsg[g] = sendMsg[h] => g = h
WritesDiffer ==
    \A g, h \in Conns : \A i \in DOMAIN written[g], j \in DOMAIN written[h] :
        written[g][i] = written[h][j] => g = h /\ i = j

PlaceInv ==
    /\ Partition(InChannel, InHand, Written, WithPeer, lost, peerMsgs)
    /\ Injective(marlinTo) /\ HandsDiffer /\ WritesDiffer

(* The elements of a sequence without its head.                            *)
LEMMA TailElements ==
    ASSUME NEW S, NEW s \in Seq(S), s # << >>, Injective(s)
    PROVE  /\ Head(s) \in Elements(s) /\ Injective(Tail(s))
           /\ Elements(Tail(s)) = Elements(s) \ {Head(s)}
  <1>1. /\ Len(s) \in Nat \ {0} /\ DOMAIN s = 1..Len(s) /\ DOMAIN Tail(s) = 1..(Len(s) - 1)
        /\ Head(s) = s[1] /\ \A i \in 1..(Len(s) - 1) : Tail(s)[i] = s[i + 1]
    OBVIOUS
  <1>2. Injective(Tail(s))
    BY <1>1 DEF Injective
  <1>3. Head(s) \in Elements(s)
    BY <1>1 DEF Elements
  <1>4. ASSUME NEW x \in Elements(Tail(s)) PROVE x \in Elements(s) /\ x # Head(s)
    <2>1. PICK i \in 1..(Len(s) - 1) : x = s[i + 1]
      BY <1>1 DEF Elements
    <2>2. i + 1 \in DOMAIN s /\ 1 \in DOMAIN s /\ i + 1 # 1
      BY <1>1
    <2> QED
      BY <1>1, <2>1, <2>2 DEF Elements, Injective
  <1>5. ASSUME NEW x \in Elements(s), x # Head(s) PROVE x \in Elements(Tail(s))
    <2>1. PICK i \in 1..Len(s) : x = s[i]
      BY <1>1 DEF Elements
    <2>2. i # 1
      BY <1>1, <1>5, <2>1
    <2>3. i - 1 \in 1..(Len(s) - 1) /\ (i - 1) + 1 = i
      BY <1>1, <2>2
    <2>4. Tail(s)[i - 1] = x
      BY <1>1, <2>1, <2>3
    <2> QED
      BY <1>1, <2>3, <2>4 DEF Elements
  <1> QED
    BY <1>2, <1>3, <1>4, <1>5

(* The elements of a sequence with one more.                               *)
LEMMA AppendElements ==
    ASSUME NEW S, NEW s \in Seq(S), NEW e
    PROVE  /\ Elements(Append(s, e)) = Elements(s) \union {e}
           /\ Injective(s) /\ e \notin Elements(s) => Injective(Append(s, e))
  <1>1. /\ Len(s) \in Nat /\ DOMAIN s = 1..Len(s)
        /\ DOMAIN Append(s, e) = 1..(Len(s) + 1) /\ Append(s, e)[Len(s) + 1] = e
        /\ \A i \in 1..Len(s) : Append(s, e)[i] = s[i]
    OBVIOUS
  <1>2. ASSUME NEW x \in Elements(Append(s, e)) PROVE x \in Elements(s) \union {e}
    <2>1. PICK i \in 1..(Len(s) + 1) : x = Append(s, e)[i]
      BY <1>1 DEF Elements
    <2>2. i \in 1..Len(s) \/ i = Len(s) + 1
      BY <1>1
    <2> QED
      BY <1>1, <2>1, <2>2 DEF Elements
  <1>3. ASSUME NEW x \in Elements(s) \union {e} PROVE x \in Elements(Append(s, e))
    <2>1. CASE x = e
      BY <1>1, <2>1 DEF Elements
    <2>2. CASE x \in Elements(s)
      <3>1. PICK i \in 1..Len(s) : x = s[i]
        BY <1>1, <2>2 DEF Elements
      <3>2. i \in 1..(Len(s) + 1)
        BY <1>1
      <3> QED
        BY <1>1, <3>1, <3>2 DEF Elements
    <2> QED
      BY <2>1, <2>2
  <1>4. ASSUME Injective(s), e \notin Elements(s) PROVE Injective(Append(s, e))
    <2> SUFFICES ASSUME NEW i \in 1..(Len(s) + 1), NEW j \in 1..(Len(s) + 1),
                        Append(s, e)[i] = Append(s, e)[j]
                 PROVE  i = j
      BY <1>1 DEF Injective
    <2>1. CASE i \in 1..Len(s) /\ j \in 1..Len(s)
      BY <1>1, <1>4, <2>1 DEF Injective
    <2>2. CASE i \in 1..Len(s) /\ j = Len(s) + 1
      BY <1>1, <1>4, <2>2 DEF Elements
    <2>3. CASE j \in 1..Len(s) /\ i = Len(s) + 1
      BY <1>1, <1>4, <2>3 DEF Elements
    <2> QED
      BY <1>1, <2>1, <2>2, <2>3
  <1> QED
    BY <1>2, <1>3, <1>4

(* A sending routine lets go of its message.                               *)
LEMMA HandLeaves ==
    ASSUME TypeOK, HandsDiffer, NEW g \in Conns, Held(g), sendMsg' = sendMsg,
           NEW pc, pc \notin {"check", "requeue", "write"},
           sendPc' = [sendPc EXCEPT ![g] = pc]
    PROVE  /\ sendMsg[g] \in InHand /\ HandsDiffer'
           /\ InHand' = InHand \ {sendMsg[g]}
  <1>1. ASSUME NEW h \in Conns PROVE Held(h)' <=> Held(h) /\ h # g
    BY DEF Held, TypeOK
  <1>2. HandsDiffer'
    BY <1>1 DEF HandsDiffer
  <1>3. sendMsg[g] \in InHand
    BY DEF InHand
  <1>4. ASSUME NEW x PROVE x \in InHand' <=> x \in InHand \ {sendMsg[g]}
    <2>1. x \in InHand' <=> \E h \in Conns : Held(h) /\ h # g /\ x = sendMsg[h]
      BY <1>1 DEF InHand
    <2>2. x \in InHand <=> \E h \in Conns : Held(h) /\ x = sendMsg[h]
      BY DEF InHand
    <2> QED
      BY <2>1, <2>2 DEF HandsDiffer
  <1> QED
    BY <1>2, <1>3, <1>4

(* A sending routine goes on with its message, or without one.             *)
LEMMA HandSame ==
    ASSUME TypeOK, HandsDiffer, NEW g \in Conns, sendMsg' = sendMsg, NEW pc,
           Held(g) <=> pc \in {"check", "requeue", "write"},
           sendPc' = [sendPc EXCEPT ![g] = pc]
    PROVE  InHand' = InHand /\ HandsDiffer'
  <1>1. ASSUME NEW h \in Conns PROVE Held(h)' <=> Held(h)
    BY DEF Held, TypeOK
  <1>2. HandsDiffer'
    BY <1>1 DEF HandsDiffer
  <1>3. InHand' = InHand
    BY <1>1 DEF InHand
  <1> QED
    BY <1>2, <1>3

(* A sending routine takes message x.                                      *)
LEMMA HandTakes ==
    ASSUME TypeOK, HandsDiffer, NEW g \in Conns, ~Held(g), NEW x, x \notin InHand,
           sendMsg' = [sendMsg EXCEPT ![g] = x], sendPc' = [sendPc EXCEPT ![g] = "check"]
    PROVE  InHand' = InHand \union {x} /\ HandsDiffer'
  <1>1. ASSUME NEW h \in Conns
        PROVE  /\ Held(h)' <=> Held(h) \/ h = g
               /\ sendMsg'[h] = IF h = g THEN x ELSE sendMsg[h]
    BY DEF Held, TypeOK
  <1>2. \A h \in Conns : Held(h) => sendMsg[h] # x
    BY DEF InHand
  <1>3. HandsDiffer'
    BY <1>1, <1>2 DEF HandsDiffer
  <1>4. ASSUME NEW y PROVE y \in InHand' <=> y \in InHand \union {x}
    <2>1. y \in InHand' <=> \E h \in Conns : (Held(h) \/ h = g) /\ y = sendMsg'[h]
      BY <1>1 DEF InHand
    <2>2. y \in InHand <=> \E h \in Conns : Held(h) /\ y = sendMsg[h]
      BY DEF InHand
    <2> QED
      BY <1>1, <2>1, <2>2
  <1> QED
    BY <1>3, <1>4

(* Message x is written on connection g.                                   *)
LEMMA WriteOne ==
    ASSUME TypeOK, WritesDiffer, NEW g \in Conns, NEW x, x \notin Written,
           written' = [written EXCEPT ![g] = Append(written[g], x)]
    PROVE  Written' = Written \union {x} /\ WritesDiffer'
  <1>1. written[g] \in Seq(Msgs) /\ DOMAIN written = Conns
    BY DEF TypeOK
  <1>2. ASSUME NEW h \in Conns
        PROVE  written'[h] = IF h = g THEN Append(written[g], x) ELSE written[h]
    BY <1>1
  <1>3. Elements(Append(written[g], x)) = Elements(written[g]) \union {x}
    BY <1>1, AppendElements
  <1>4. ASSUME NEW y PROVE y \in Written' <=> y \in Written \union {x}
    <2>1. y \in Written' <=> \E h \in Conns : y \in Elements(written'[h])
      BY DEF Written, Elements
    <2>2. y \in Written <=> \E h \in Conns : y \in Elements(written[h])
      BY DEF Written, Elements
    <2> QED
      BY <1>2, <1>3, <2>1, <2>2
  <1>5. /\ Len(written[g]) \in Nat /\ DOMAIN written[g] = 1..Len(written[g])
        /\ DOMAIN Append(written[g], x) = 1..(Len(written[g]) + 1)
        /\ Append(written[g], x)[Len(written[g]) + 1] = x
        /\ \A i \in 1..Len(written[g]) : Append(written[g], x)[i] = written[g][i]
    BY <1>1
  <1>6. ASSUME NEW h \in Conns, NEW i, i \in DOMAIN written'[h]
        PROVE  \/ i \in DOMAIN written[h] /\ written'[h][i] = written[h][i]
                  /\ written'[h][i] # x
               \/ h = g /\ i = Len(written[g]) + 1 /\ written'[h][i] = x
    <2>1. ASSUME i \in DOMAIN written[h] PROVE written[h][i] # x
      BY <2>1 DEF Written, Elements
    <2>2. CASE h # g
      BY <1>2, <1>6, <2>1, <2>2
    <2>3. CASE h = g
      <3>1. i \in 1..Len(written[g]) \/ i = Len(written[g]) + 1
        BY <1>2, <1>5, <1>6, <2>3
      <3> QED
        BY <1>2, <1>5, <2>1, <2>3, <3>1
    <2> QED
      BY <2>2, <2>3
  <1>7. WritesDiffer'
    <2> SUFFICES ASSUME NEW h \in Conns, NEW k \in Conns, NEW i, i \in DOMAIN written'[h],
                        NEW j, j \in DOMAIN written'[k], written'[h][i] = written'[k][j]
                 PROVE  h = k /\ i = j
      BY DEF WritesDiffer
    <2> QED
      BY <1>6 DEF WritesDiffer
  <1> QED
    BY <1>4, <1>7

(* The next message is new, and one that moves leaves the set it was in.   *)
LEMMA PartitionMoves ==
    ASSUME NEW T, NEW H, NEW W, NEW P, NEW L, NEW n \in Nat, Partition(T, H, W, P, L, n)
    PROVE  /\ n + 1 \notin T \union H \union W \union P \union L
           /\ Partition(T \union {n + 1}, H, W, P, L, n + 1)
           /\ Partition(T, H, W, P \union {n + 1}, L, n + 1)
           /\ \A x \in T : /\ Partition(T \ {x}, H \union {x}, W, P, L, n)
                           /\ Partition(T \ {x}, H, W, P, L \union {x}, n)
           /\ \A x \in H : /\ Partition(T \union {x}, H \ {x}, W, P, L, n)
                           /\ Partition(T, H \ {x}, W \union {x}, P, L, n)
                           /\ Partition(T, H \ {x}, W, P, L \union {x}, n)
           /\ \A x \in P : Partition(T \union {x}, H, W, P \ {x}, L, n)
  <1>1. n + 1 \notin 1..n /\ 1..(n + 1) = (1..n) \union {n + 1}
    OBVIOUS
  <1>2. n + 1 \notin T \union H \union W \union P \union L
    BY <1>1 DEF Partition
  <1>a. PICK y : y = n + 1
    OBVIOUS
  <1>b. PICK new : new = 1..(n + 1)
    OBVIOUS
  <1>c. PICK old : old = 1..n
    OBVIOUS
  <1>d. /\ new = old \union {y} /\ T \union H \union W \union P \union L = old
        /\ y \notin T /\ y \notin H /\ y \notin W /\ y \notin P /\ y \notin L
    <2>1. T \union H \union W \union P \union L = old
      BY <1>c DEF Partition
    <2>2. new = old \union {y}
      BY <1>1, <1>a, <1>b, <1>c
    <2> QED
      BY <1>2, <1>a, <2>1, <2>2
  <1>e. /\ (T \union {y}) \union H \union W \union P \union L = new
        /\ T \union H \union W \union (P \union {y}) \union L = new
    BY <1>d
  <1>3. Partition(T \union {n + 1}, H, W, P, L, n + 1)
    <2>1. /\ (T \union {y}) \intersect H = {} /\ (T \union {y}) \intersect W = {}
          /\ (T \union {y}) \intersect P = {} /\ (T \union {y}) \intersect L = {}
      BY <1>d DEF Partition
    <2> QED
      BY <1>a, <1>b, <1>e, <2>1 DEF Partition
  <1>4. Partition(T, H, W, P \union {n + 1}, L, n + 1)
    <2>1. /\ T \intersect (P \union {y}) = {} /\ H \intersect (P \union {y}) = {}
          /\ W \intersect (P \union {y}) = {} /\ (P \union {y}) \intersect L = {}
      BY <1>d DEF Partition
    <2> QED
      BY <1>a, <1>b, <1>e, <2>1 DEF Partition
  <1>5. ASSUME NEW x \in T
        PROVE  /\ Partition(T \ {x}, H \union {x}, W, P, L, n)
               /\ Partition(T \ {x}, H, W, P, L \union {x}, n)
    BY DEF Partition
  <1>6. ASSUME NEW x \in H
        PROVE  /\ Partition(T \union {x}, H \ {x}, W, P, L, n)
               /\ Partition(T, H \ {x}, W \union {x}, P, L, n)
               /\ Partition(T, H \ {x}, W, P, L \union {x}, n)
    BY DEF Partition
  <1>7. ASSUME NEW x \in P PROVE Partition(T \union {x}, H, W, P \ {x}, L, n)
    BY DEF Partition
  <1> QED
    BY <1>2, <1>3, <1>4, <1>5, <1>6, <1>7

(* A step that the messages of the peer side do not see.                   *)
LEMMA PlacesUnseen ==
    ASSUME PlaceInv, UNCHANGED <<sendMsg, written, marlinTo, lost, peerVars>>,
           InHand' = InHand, HandsDiffer'
    PROVE  PlaceInv'
  BY DEF PlaceInv, InChannel, Written, WithPeer, WritesDiffer, peerVars

(* Every step moves a message from one of the sets to another, puts a new  *)
(* one in the channel or in the hand of the peer side, or moves none.      *)
LEMMA StepPlaces == IInv /\ PlaceInv /\ [Next]_vars => PlaceInv'
  <1> SUFFICES ASSUME IInv, PlaceInv, [Next]_vars PROVE PlaceInv'
    OBVIOUS
  <1>t. /\ TypeOK /\ HandsDiffer /\ WritesDiffer /\ Injective(marlinTo)
        /\ Partition(InChannel, InHand, Written, WithPeer, lost, peerMsgs)
        /\ peerMsgs \in Nat /\ marlinTo \in Seq(Msgs)
    BY DEF IInv, PlaceInv, TypeOK
  <1>1. ASSUME NEW g \in Conns, SendTake(g) PROVE PlaceInv'
    <2> DEFINE x == Head(marlinTo)
    <2>1. /\ x \in InChannel /\ Injective(marlinTo)' /\ InChannel' = InChannel \ {x}
      BY <1>1, <1>t, TailElements DEF SendTake, InChannel
    <2>2. ~Held(g) /\ x \notin InHand
      BY <1>1, <1>t, <2>1 DEF SendTake, Held, Partition
    <2>3. InHand' = InHand \union {x} /\ HandsDiffer'
      BY <1>1, <1>t, <2>2, HandTakes DEF SendTake
    <2>4. Written' = Written /\ WithPeer' = WithPeer /\ lost' = lost /\ peerMsgs' = peerMsgs
          /\ WritesDiffer'
      BY <1>1, <1>t DEF SendTake, Written, WithPeer, WritesDiffer, peerVars
    <2> QED
      BY <1>t, <2>1, <2>3, <2>4, PartitionMoves DEF PlaceInv
  <1>2. ASSUME NEW g \in Conns, SendRequeue(g) PROVE PlaceInv'
    <2> DEFINE x == sendMsg[g]
    <2>1. x \in InHand /\ InHand' = InHand \ {x} /\ HandsDiffer'
      BY <1>2, <1>t, HandLeaves DEF SendRequeue, Held
    <2>2. x \notin InChannel
      BY <1>t, <2>1 DEF Partition
    <2>3. InChannel' = InChannel \union {x} /\ Injective(marlinTo)'
      BY <1>2, <1>t, <2>2, AppendElements DEF SendRequeue, InChannel
    <2>4. Written' = Written /\ WithPeer' = WithPeer /\ lost' = lost /\ peerMsgs' = peerMsgs
          /\ WritesDiffer'
      BY <1>2, <1>t DEF SendRequeue, Written, WithPeer, WritesDiffer, peerVars
    <2> QED
      BY <1>t, <2>1, <2>3, <2>4, PartitionMoves DEF PlaceInv
  <1>3. ASSUME NEW g \in Conns, SendDiscard(g) \/ SendWriteFails(g) PROVE PlaceInv'
    <2> DEFINE x == sendMsg[g]
    <2>1. /\ Held(g) /\ sendMsg' = sendMsg /\ lost' = lost \union {x}
          /\ UNCHANGED <<written, marlinTo, peerVars>>
          /\ \/ sendPc' = [sendPc EXCEPT ![g] = "range"]
             \/ sendPc' = [sendPc EXCEPT ![g] = "fail"]
      BY <1>3 DEF SendDiscard, SendWriteFails, Held
    <2>2. x \in InHand /\ InHand' = InHand \ {x} /\ HandsDiffer'
      BY <1>t, <2>1, HandLeaves
    <2>3. InChannel' = InChannel /\ Injective(marlinTo)'
      BY <1>t, <2>1 DEF InChannel
    <2>4. Written' = Written /\ WithPeer' = WithPeer /\ peerMsgs' = peerMsgs /\ WritesDiffer'
      BY <1>t, <2>1 DEF Written, WithPeer, WritesDiffer, peerVars
    <2> QED
      BY <1>t, <2>1, <2>2, <2>3, <2>4, PartitionMoves DEF PlaceInv
  <1>4. ASSUME NEW g \in Conns, SendWrite(g) PROVE PlaceInv'
    <2> DEFINE x == sendMsg[g]
    <2>1. x \in InHand /\ InHand' = InHand \ {x} /\ HandsDiffer'
      BY <1>4, <1>t, HandLeaves DEF SendWrite, Held
    <2>2. x \notin Written
      BY <1>t, <2>1 DEF Partition
    <2>3. Written' = Written \union {x} /\ WritesDiffer'
      BY <1>4, <1>t, <2>2, WriteOne DEF SendWrite
    <2>4. InChannel' = InChannel /\ WithPeer' = WithPeer /\ lost' = lost /\ peerMsgs' = peerMsgs
          /\ Injective(marlinTo)'
      BY <1>4, <1>t DEF SendWrite, InChannel, WithPeer, peerVars
    <2> QED
      BY <1>t, <2>1, <2>3, <2>4, PartitionMoves DEF PlaceInv
  <1>5. ASSUME NEW g \in Conns, SendShutdown(g) \/ SendEncode(g) \/ SendSignal(g)
        PROVE  PlaceInv'
    <2>1. UNCHANGED <<sendMsg, written, marlinTo, lost, peerVars>>
      BY <1>5 DEF SendShutdown, SendEncode, SendSignal
    <2>2. \E pc \in {"requeue", "write", "failed"} :
            /\ sendPc' = [sendPc EXCEPT ![g] = pc]
            /\ Held(g) <=> pc \in {"check", "requeue", "write"}
      BY <1>5 DEF SendShutdown, SendEncode, SendSignal, Held
    <2>3. InHand' = InHand /\ HandsDiffer'
      BY <1>t, <2>1, <2>2, HandSame
    <2> QED
      BY <2>1, <2>3, PlacesUnseen
  <1>6. ASSUME Connect PROVE PlaceInv'
    <2>1. UNCHANGED <<sendMsg, written, marlinTo, lost, peerVars>>
      BY <1>6 DEF Connect
    <2>2. conn + 1 \in Conns /\ sendPc[conn + 1] = "none"
      BY <1>6, Bounds DEF Connect, IInv, Routines, TypeOK, Conns
    <2>3. ~Held(conn + 1) /\ sendPc' = [sendPc EXCEPT ![conn + 1] = "range"]
      BY <1>6, <2>2 DEF Connect, Held
    <2>4. InHand' = InHand /\ HandsDiffer'
      BY <1>t, <2>1, <2>2, <2>3, HandSame
    <2> QED
      BY <2>1, <2>4, PlacesUnseen
  <1>7. CASE PeerSelectSend
    <2>1. peerMsgs + 1 \notin InChannel
      BY <1>t, PartitionMoves
    <2>2. InChannel' = InChannel \union {peerMsgs + 1} /\ Injective(marlinTo)'
      BY <1>7, <1>t, <2>1, AppendElements DEF PeerSelectSend, InChannel
    <2>3. InHand' = InHand /\ Written' = Written /\ WithPeer' = WithPeer /\ lost' = lost
          /\ HandsDiffer' /\ WritesDiffer' /\ peerMsgs' = peerMsgs + 1
      BY <1>7, <1>t DEF PeerSelectSend, sendVars, InHand, Held, Written, WithPeer,
         HandsDiffer, WritesDiffer
    <2> QED
      BY <1>t, <2>2, <2>3, PartitionMoves DEF PlaceInv
  <1>8. CASE PeerSelectDefault
    <2>1. WithPeer' = WithPeer \union {peerMsgs + 1}
      BY <1>8 DEF PeerSelectDefault, WithPeer
    <2>2. InChannel' = InChannel /\ InHand' = InHand /\ Written' = Written /\ lost' = lost
          /\ HandsDiffer' /\ WritesDiffer' /\ peerMsgs' = peerMsgs + 1 /\ Injective(marlinTo)'
      BY <1>8, <1>t DEF PeerSelectDefault, sendVars, InChannel, InHand, Held, Written,
         HandsDiffer, WritesDiffer
    <2> QED
      BY <1>t, <2>1, <2>2, PartitionMoves DEF PlaceInv
  <1>9. CASE PeerDrop
    <2> DEFINE x == Head(marlinTo)
    <2>1. /\ x \in InChannel /\ Injective(marlinTo)' /\ InChannel' = InChannel \ {x}
      BY <1>9, <1>t, TailElements DEF PeerDrop, InChannel
    <2>2. InHand' = InHand /\ Written' = Written /\ WithPeer' = WithPeer
          /\ lost' = lost \union {x} /\ HandsDiffer' /\ WritesDiffer' /\ peerMsgs' = peerMsgs
      BY <1>9, <1>t DEF PeerDrop, sendVars, InHand, Held, Written, WithPeer,
         HandsDiffer, WritesDiffer
    <2> QED
      BY <1>t, <2>1, <2>2, PartitionMoves DEF PlaceInv
  <1>10. CASE PeerPut
    <2>1. peerMsgs \in WithPeer /\ WithPeer' = WithPeer \ {peerMsgs}
      BY <1>10 DEF PeerPut, WithPeer
    <2>2. peerMsgs \notin InChannel
      BY <1>t, <2>1 DEF Partition
    <2>3. InChannel' = InChannel \union {peerMsgs} /\ Injective(marlinTo)'
      BY <1>10, <1>t, <2>2, AppendElements DEF PeerPut, InChannel
    <2>4. InHand' = InHand /\ Written' = Written /\ lost' = lost
          /\ HandsDiffer' /\ WritesDiffer' /\ peerMsgs' = peerMsgs
      BY <1>10, <1>t DEF PeerPut, sendVars, InHand, Held, Written,
         HandsDiffer, WritesDiffer
    <2> QED
      BY <1>t, <2>1, <2>3, <2>4, PartitionMoves DEF PlaceInv
  <1>11. ASSUME \/ ConnectFails \/ ConnErrorSeen \/ ShutSend \/ ShutRecv \/ Reattempt
                \/ \E g \in Conns : recvRoutineConnection(g) \/ LinkFails(g)
                \/ AllowServicedChainMessages \/ PeerReceive \/ UNCHANGED vars
         PROVE  PlaceInv'
    <2>1. UNCHANGED <<sendVars, marlinTo, lost, peerVars>>
      BY <1>11 DEF ConnectFails, ConnErrorSeen, ShutSend, ShutRecv, Reattempt,
         recvRoutineConnection, RecvShutdown, RecvRead, RecvIgnore, RecvSelectSend,
         RecvSelectDefault, RecvDrop, RecvPut, RecvFails, RecvSignal, LinkFails,
         AllowServicedChainMessages, PeerReceive, vars
    <2>2. InHand' = InHand /\ HandsDiffer'
      BY <1>t, <2>1 DEF sendVars, InHand, Held, HandsDiffer
    <2> QED
      BY <2>1, <2>2, PlacesUnseen DEF sendVars
  <1>12. ASSUME NEW g \in Conns, sendRoutineConnection(g) PROVE PlaceInv'
    BY <1>1, <1>2, <1>3, <1>4, <1>5, <1>12 DEF sendRoutineConnection
  <1> QED
    BY <1>6, <1>7, <1>8, <1>9, <1>10, <1>11, <1>12 DEF Next, Supervisor, Peer

(* A message that is in one of the five sets has one place.                *)
LEMMA OnePlace ==
    ASSUME TypeOK, PlaceInv, NEW m \in 1..peerMsgs
    PROVE  \E p : Places(m) = {p}
  <1> DEFINE A == {<<"marlinTo", i>> : i \in {k \in DOMAIN marlinTo : marlinTo[k] = m}}
             B == {<<"hand", g>> : g \in {h \in Conns : sendMsg[h] = m /\ Held(h)}}
             C == UNION {{<<"written", g, i>> : i \in {k \in DOMAIN written[g] :
                                                  written[g][k] = m}} : g \in Conns}
             D == IF peerPc # "select" /\ m = peerMsgs THEN {<<"peer">>} ELSE {}
             E == IF m \in lost THEN {<<"lost">>} ELSE {}
  <1>1. Places(m) = A \union B \union C \union D \union E
    BY DEF Places, Held
  <1>2. /\ Partition(InChannel, InHand, Written, WithPeer, lost, peerMsgs)
        /\ Injective(marlinTo) /\ HandsDiffer /\ WritesDiffer
    BY DEF PlaceInv
  <1>3. (m \notin InChannel => A = {}) /\ (m \in InChannel => \E p : A = {p})
    <2>1. m \notin InChannel => A = {}
      BY DEF InChannel, Elements
    <2>2. ASSUME m \in InChannel PROVE \E p : A = {p}
      <3>1. PICK i \in DOMAIN marlinTo : marlinTo[i] = m
        BY <2>2 DEF InChannel, Elements
      <3>2. {k \in DOMAIN marlinTo : marlinTo[k] = m} = {i}
        BY <1>2, <3>1 DEF Injective
      <3>3. A = {<<"marlinTo", i>>}
        BY <3>2
      <3> QED
        BY <3>3
    <2> QED
      BY <2>1, <2>2
  <1>4. (m \notin InHand => B = {}) /\ (m \in InHand => \E p : B = {p})
    <2>1. m \notin InHand => B = {}
      BY DEF InHand
    <2>2. ASSUME m \in InHand PROVE \E p : B = {p}
      <3>1. PICK g \in Conns : Held(g) /\ sendMsg[g] = m
        BY <2>2 DEF InHand
      <3>2. {h \in Conns : sendMsg[h] = m /\ Held(h)} = {g}
        BY <1>2, <3>1 DEF HandsDiffer
      <3>3. B = {<<"hand", g>>}
        BY <3>2
      <3> QED
        BY <3>3
    <2> QED
      BY <2>1, <2>2
  <1>5. (m \notin Written => C = {}) /\ (m \in Written => \E p : C = {p})
    <2>1. m \notin Written => C = {}
      BY DEF Written, Elements
    <2>2. ASSUME m \in Written PROVE \E p : C = {p}
      <3>1. PICK g \in Conns : \E i \in DOMAIN written[g] : written[g][i] = m
        BY <2>2 DEF Written, Elements
      <3>2. PICK i \in DOMAIN written[g] : written[g][i] = m
        BY <3>1
      <3>3. ASSUME NEW h \in Conns
            PROVE  {k \in DOMAIN written[h] : written[h][k] = m} = IF h = g THEN {i} ELSE {}
        BY <1>2, <3>2 DEF WritesDiffer
      <3>4. ASSUME NEW p \in C PROVE p = <<"written", g, i>>
        BY <3>3
      <3>5. <<"written", g, i>> \in C
        BY <3>2
      <3>6. C = {<<"written", g, i>>}
        BY <3>4, <3>5
      <3> QED
        BY <3>6
    <2> QED
      BY <2>1, <2>2
  <1>6. (m \notin WithPeer => D = {}) /\ (m \in WithPeer => \E p : D = {p})
    BY DEF WithPeer
  <1>7. (m \notin lost => E = {}) /\ (m \in lost => \E p : E = {p})
    OBVIOUS
  <1> HIDE DEF A, B, C, D, E
  <1>8. m \in InChannel \/ m \in InHand \/ m \in Written \/ m \in WithPeer \/ m \in lost
    BY <1>2 DEF Partition
  <1>9. CASE m \in InChannel
    BY <1>1, <1>2, <1>3, <1>4, <1>5, <1>6, <1>7, <1>9 DEF Partition
  <1>10. CASE m \in InHand
    BY <1>1, <1>2, <1>3, <1>4, <1>5, <1>6, <1>7, <1>10 DEF Partition
  <1>11. CASE m \in Written
    BY <1>1, <1>2, <1>3, <1>4, <1>5, <1>6, <1>7, <1>11 DEF Partition
  <1>12. CASE m \in WithPeer
    BY <1>1, <1>2, <1>3, <1>4, <1>5, <1>6, <1>7, <1>12 DEF Partition
  <1>13. CASE m \in lost
    BY <1>1, <1>2, <1>3, <1>4, <1>5, <1>6, <1>7, <1>13 DEF Partition
  <1> QED
    BY <1>8, <1>9, <1>10, <1>11, <1>12, <1>13

(* Nothing is anywhere at first.                                           *)
LEMMA InitPlaces == Init => PlaceInv
  <1> SUFFICES ASSUME Init PROVE PlaceInv
    OBVIOUS
  <1>1. InChannel = {} /\ InHand = {} /\ WithPeer = {} /\ lost = {} /\ peerMsgs = 0
    BY DEF Init, InChannel, Elements, InHand, Held, WithPeer
  <1>2. Written = {} /\ WritesDiffer
    BY DEF Init, Written, Elements, WritesDiffer
  <1>3. Injective(marlinTo) /\ HandsDiffer
    BY DEF Init, Injective, HandsDiffer, Held
  <1> QED
    BY <1>1, <1>2, <1>3 DEF PlaceInv, Partition

LEMMA PlaceInvariant == Spec => [](IInv /\ PlaceInv)
  <1>1. IInv /\ PlaceInv /\ [Next]_vars => PlaceInv'
    BY StepPlaces
  <1> QED
    BY Invariant, InitPlaces, <1>1, PTL DEF Spec

(* Whatever connections fail, a message that the peer side has sent is in  *)
(* one place: the sending routines of marlin.go, old and new, write it     *)
(* once at most and lose it only where the code says so.                   *)
THEOREM OnePlaceForEach == Spec => []ExactlyOnePlace
  <1>1. IInv /\ PlaceInv => ExactlyOnePlace
    <2> SUFFICES ASSUME IInv, PlaceInv, NEW m \in 1..peerMsgs
                 PROVE  Cardinality(Places(m)) = 1
      BY DEF ExactlyOnePlace
    <2> QED
      BY OnePlace, FS_Singleton DEF IInv
  <1> QED
    BY PlaceInvariant, <1>1, PTL

-------------------------------------------------------------------------------
(* The order of the messages that were never put back: on each connection  *)
(* what was written is older than what its routine holds, and that is      *)
(* older than what is in the channel, which is in order itself.            *)

Before(x, y, Q) == {x, y} \intersect Q = {} => x < y
InOrder(s, Q) == \A i, j \in DOMAIN s : i < j => Before(s[i], s[j], Q)

Lane(g) ==
    /\ InOrder(written[g], requeued)
    /\ \A x \in Elements(written[g]), y \in InChannel : Before(x, y, requeued)
    /\ Held(g) => /\ \A x \in Elements(written[g]) : Before(x, sendMsg[g], requeued)
                  /\ \A y \in InChannel : Before(sendMsg[g], y, requeued)

OrderInv == InOrder(marlinTo, requeued) /\ \A g \in Conns : Lane(g)

(* The order is kept by taking the head away.                              *)
LEMMA TailInOrder ==
    ASSUME NEW S, NEW s \in Seq(S), s # << >>, NEW Q, InOrder(s, Q)
    PROVE  InOrder(Tail(s), Q) /\ \A y \in Elements(Tail(s)) : Before(Head(s), y, Q)
  <1>1. /\ Len(s) \in Nat \ {0} /\ DOMAIN s = 1..Len(s) /\ DOMAIN Tail(s) = 1..(Len(s) - 1)
        /\ Head(s) = s[1] /\ \A i \in 1..(Len(s) - 1) : Tail(s)[i] = s[i + 1]
    OBVIOUS
  <1>2. InOrder(Tail(s), Q)
    <2> SUFFICES ASSUME NEW i \in 1..(Len(s) - 1), NEW j \in 1..(Len(s) - 1), i < j
                 PROVE  Before(Tail(s)[i], Tail(s)[j], Q)
      BY <1>1 DEF InOrder
    <2>1. i + 1 \in DOMAIN s /\ j + 1 \in DOMAIN s /\ i + 1 < j + 1
      BY <1>1
    <2> QED
      BY <1>1, <2>1 DEF InOrder
  <1>3. ASSUME NEW y \in Elements(Tail(s)) PROVE Before(Head(s), y, Q)
    <2>1. PICK i \in 1..(Len(s) - 1) : y = s[i + 1]
      BY <1>1 DEF Elements
    <2>2. i + 1 \in DOMAIN s /\ 1 \in DOMAIN s /\ 1 < i + 1
      BY <1>1
    <2> QED
      BY <1>1, <2>1, <2>2 DEF InOrder
  <1> QED
    BY <1>2, <1>3

(* The order is kept by adding what is later than all the rest.            *)
LEMMA AppendInOrder ==
    ASSUME NEW S, NEW s \in Seq(S), NEW e, NEW Q, InOrder(s, Q),
           \A x \in Elements(s) : Before(x, e, Q)
    PROVE  InOrder(Append(s, e), Q)
  <1>1. /\ Len(s) \in Nat /\ DOMAIN s = 1..Len(s)
        /\ DOMAIN Append(s, e) = 1..(Len(s) + 1) /\ Append(s, e)[Len(s) + 1] = e
        /\ \A i \in 1..Len(s) : Append(s, e)[i] = s[i]
    OBVIOUS
  <1> SUFFICES ASSUME NEW i \in 1..(Len(s) + 1), NEW j \in 1..(Len(s) + 1), i < j
               PROVE  Before(Append(s, e)[i], Append(s, e)[j], Q)
    BY <1>1 DEF InOrder
  <1>2. i \in 1..Len(s)
    BY <1>1
  <1>3. CASE j \in 1..Len(s)
    BY <1>1, <1>2, <1>3 DEF InOrder
  <1>4. CASE j = Len(s) + 1
    BY <1>1, <1>2, <1>4 DEF Elements
  <1> QED
    BY <1>1, <1>3, <1>4

(* The more has been put back, the less order is asked for.                *)
LEMMA FewerInOrder ==
    ASSUME NEW Q, NEW R, Q \subseteq R
    PROVE  /\ \A x, y : Before(x, y, Q) => Before(x, y, R)
           /\ \A s : InOrder(s, Q) => InOrder(s, R)
  BY DEF Before, InOrder

(* Message n is put in the channel, later than all that are on their way.  *)
LEMMA LatestInOrder ==
    ASSUME TypeOK, OrderInv, NEW n \in Nat, marlinTo' = Append(marlinTo, n),
           \A x \in InChannel \union InHand \union Written : x \in Nat /\ x < n,
           UNCHANGED <<sendVars>>
    PROVE  OrderInv'
  <1>1. \A x \in InChannel \union InHand \union Written : Before(x, n, requeued)
    BY DEF Before
  <1>2. marlinTo \in Seq(Msgs) /\ InChannel' = InChannel \union {n}
    BY AppendElements DEF TypeOK, InChannel
  <1>3. InOrder(marlinTo, requeued)'
    BY <1>1, <1>2, AppendInOrder DEF OrderInv, InChannel, sendVars
  <1>4. ASSUME NEW g \in Conns PROVE Lane(g)'
    <2>1. /\ UNCHANGED <<written, requeued, sendMsg>>
          /\ Held(g)' <=> Held(g)
          /\ Elements(written[g]) \subseteq Written
          /\ Held(g) => sendMsg[g] \in InHand
      BY DEF sendVars, Held, Written, InHand
    <2>2. Lane(g)
      BY DEF OrderInv
    <2> QED
      BY <1>1, <1>2, <2>1, <2>2 DEF Lane
  <1> QED
    BY <1>3, <1>4 DEF OrderInv

(* A step that changes neither channel nor lanes.                          *)
LEMMA OrderUnseen ==
    ASSUME OrderInv, UNCHANGED <<marlinTo, requeued, sendMsg, written>>,
           \A g \in Conns : Held(g)' => Held(g)
    PROVE  OrderInv'
  BY DEF OrderInv, Lane, InChannel

LEMMA StepOrder == IInv /\ PlaceInv /\ OrderInv /\ [Next]_vars => OrderInv'
  <1> SUFFICES ASSUME IInv, PlaceInv, OrderInv, [Next]_vars PROVE OrderInv'
    OBVIOUS
  <1>t. /\ TypeOK /\ Injective(marlinTo) /\ peerMsgs \in Nat /\ marlinTo \in Seq(Msgs)
        /\ Partition(InChannel, InHand, Written, WithPeer, lost, peerMsgs)
        /\ InOrder(marlinTo, requeued) /\ \A g \in Conns : Lane(g)
        /\ DOMAIN sendPc = Conns /\ DOMAIN sendMsg = Conns /\ DOMAIN written = Conns
    BY DEF IInv, PlaceInv, TypeOK, OrderInv
  <1>n. \A x \in InChannel \union InHand \union Written : x \in Nat /\ x <= peerMsgs
    BY <1>t DEF Partition
  <1>1. ASSUME NEW g \in Conns, SendTake(g) PROVE OrderInv'
    <2> DEFINE x == Head(marlinTo)
    <2>1. /\ x \in InChannel /\ InChannel' = InChannel \ {x}
          /\ InOrder(marlinTo', requeued) /\ \A y \in InChannel' : Before(x, y, requeued)
      BY <1>1, <1>t, TailElements, TailInOrder DEF SendTake, InChannel
    <2>2. requeued' = requeued /\ written' = written
      BY <1>1 DEF SendTake
    <2>3. ASSUME NEW h \in Conns PROVE Lane(h)'
      <3>1. Lane(h) /\ sendMsg'[h] = IF h = g THEN x ELSE sendMsg[h]
        BY <1>1, <1>t DEF SendTake
      <3>2. h # g => (Held(h)' <=> Held(h))
        BY <1>1, <1>t DEF SendTake, Held
      <3> HIDE DEF x
      <3> QED
        BY <2>1, <2>2, <3>1, <3>2 DEF Lane
    <2> QED
      BY <2>1, <2>2, <2>3 DEF OrderInv
  <1>2. ASSUME NEW g \in Conns, SendRequeue(g) PROVE OrderInv'
    <2> DEFINE x == sendMsg[g]
    <2>1. requeued' = requeued \union {x} /\ marlinTo' = Append(marlinTo, x)
          /\ InChannel' = InChannel \union {x} /\ UNCHANGED <<sendMsg, written>>
      BY <1>2, <1>t, AppendElements DEF SendRequeue, InChannel
    <2>2. \A y : Before(y, x, requeued') 
      BY <2>1 DEF Before
    <2>3. InOrder(marlinTo', requeued')
      <3>1. InOrder(marlinTo, requeued')
        BY <1>t, <2>1, FewerInOrder
      <3> QED
        BY <1>t, <2>1, <2>2, <3>1, AppendInOrder
    <2>4. ASSUME NEW h \in Conns PROVE Lane(h)'
      <3>1. Lane(h) /\ (Held(h)' => Held(h))
        BY <1>2, <1>t DEF SendRequeue, Held
      <3>2. InOrder(written[h], requeued')
        BY <2>1, <3>1, FewerInOrder DEF Lane
      <3>3. \A y, z : Before(y, z, requeued) => Before(y, z, requeued')
        BY <2>1, FewerInOrder
      <3> HIDE DEF x
      <3> QED
        BY <2>1, <2>2, <3>1, <3>2, <3>3 DEF Lane
    <2> QED
      BY <2>3, <2>4 DEF OrderInv
  <1>3. ASSUME NEW g \in Conns, SendWrite(g) PROVE OrderInv'
    <2> DEFINE x == sendMsg[g]
    <2>1. /\ written' = [written EXCEPT ![g] = Append(written[g], x)]
          /\ UNCHANGED <<requeued, marlinTo, sendMsg>> /\ Held(g) /\ InChannel' = InChannel
      BY <1>3 DEF SendWrite, Held, InChannel
    <2>2. /\ written[g] \in Seq(Msgs) /\ Lane(g)
          /\ Elements(Append(written[g], x)) = Elements(written[g]) \union {x}
      BY <1>t, AppendElements DEF TypeOK
    <2>3. InOrder(Append(written[g], x), requeued)
      BY <2>1, <2>2, AppendInOrder DEF Lane
    <2>4. ASSUME NEW h \in Conns PROVE Lane(h)'
      <3>1. Lane(h) /\ (Held(h)' => Held(h) /\ h # g)
        BY <1>3, <1>t DEF SendWrite, Held
      <3>2. written'[h] = IF h = g THEN Append(written[g], x) ELSE written[h]
        BY <1>t, <2>1
      <3>3. CASE h = g
        BY <2>1, <2>2, <2>3, <3>1, <3>2, <3>3 DEF Lane
      <3>4. CASE h # g
        BY <2>1, <3>1, <3>2, <3>4 DEF Lane
      <3> QED
        BY <3>3, <3>4
    <2> QED
      BY <1>t, <2>1, <2>4 DEF OrderInv
  <1>4. ASSUME NEW g \in Conns,
               SendDiscard(g) \/ SendWriteFails(g) \/ SendShutdown(g) \/ SendEncode(g) \/ SendSignal(g)
        PROVE  OrderInv'
    <2>1. UNCHANGED <<marlinTo, requeued, sendMsg, written>>
      BY <1>4 DEF SendDiscard, SendWriteFails, SendShutdown, SendEncode, SendSignal
    <2>2. \E pc : /\ sendPc' = [sendPc EXCEPT ![g] = pc]
                  /\ pc \in {"check", "requeue", "write"} => Held(g)
      BY <1>4 DEF SendDiscard, SendWriteFails, SendShutdown, SendEncode, SendSignal, Held
    <2>3. \A h \in Conns : Held(h)' => Held(h)
      BY <1>t, <2>2 DEF Held
    <2> QED
      BY <2>1, <2>3, OrderUnseen
  <1>5. CASE Connect
    <2>1. \A h \in Conns : Held(h)' => Held(h)
      BY <1>5, <1>t DEF Connect, Held
    <2> QED
      BY <1>5, <2>1, OrderUnseen DEF Connect
  <1>6. CASE PeerSelectSend
    <2>1. \A x \in InChannel \union InHand \union Written : x \in Nat /\ x < peerMsgs + 1
      BY <1>t, <1>n
    <2>2. peerMsgs + 1 \in Nat /\ marlinTo' = Append(marlinTo, peerMsgs + 1)
          /\ UNCHANGED <<sendVars>>
      BY <1>6, <1>t DEF PeerSelectSend
    <2> QED
      BY <1>t, <2>1, <2>2, LatestInOrder
  <1>7. CASE PeerPut
    <2>1. peerMsgs \in WithPeer
      BY <1>7 DEF PeerPut, WithPeer
    <2>2. peerMsgs \notin InChannel \union InHand \union Written
      BY <1>t, <2>1 DEF Partition
    <2>3. \A x \in InChannel \union InHand \union Written : x \in Nat /\ x < peerMsgs
      BY <1>t, <1>n, <2>2
    <2>4. marlinTo' = Append(marlinTo, peerMsgs) /\ UNCHANGED <<sendVars>>
      BY <1>7 DEF PeerPut
    <2> QED
      BY <1>t, <2>3, <2>4, LatestInOrder
  <1>8. CASE PeerDrop
    <2>1. InChannel' \subseteq InChannel /\ InOrder(marlinTo', requeued)
      BY <1>8, <1>t, TailElements, TailInOrder DEF PeerDrop, InChannel
    <2>2. UNCHANGED sendVars
      BY <1>8 DEF PeerDrop
    <2>3. ASSUME NEW h \in Conns PROVE Lane(h)'
      <3>1. Lane(h)
        BY <1>t
      <3> QED
        BY <2>1, <2>2, <3>1 DEF Lane, sendVars, Held
    <2> QED
      BY <2>1, <2>2, <2>3 DEF OrderInv, sendVars
  <1>9. ASSUME \/ ConnectFails \/ ConnErrorSeen \/ ShutSend \/ ShutRecv \/ Reattempt
               \/ \E g \in Conns : recvRoutineConnection(g) \/ LinkFails(g)
               \/ AllowServicedChainMessages \/ PeerReceive \/ PeerSelectDefault
               \/ UNCHANGED vars
        PROVE  OrderInv'
    <2>1. UNCHANGED <<sendVars, marlinTo>>
      BY <1>9 DEF ConnectFails, ConnErrorSeen, ShutSend, ShutRecv, Reattempt,
         recvRoutineConnection, RecvShutdown, RecvRead, RecvIgnore, RecvSelectSend,
         RecvSelectDefault, RecvDrop, RecvPut, RecvFails, RecvSignal, LinkFails,
         AllowServicedChainMessages, PeerReceive, PeerSelectDefault, vars
    <2>2. \A h \in Conns : Held(h)' => Held(h)
      BY <2>1 DEF sendVars, Held
    <2> QED
      BY <2>1, <2>2, OrderUnseen DEF sendVars
  <1>10. ASSUME NEW g \in Conns, sendRoutineConnection(g) PROVE OrderInv'
    BY <1>1, <1>2, <1>3, <1>4, <1>10 DEF sendRoutineConnection
  <1> QED
    BY <1>5, <1>6, <1>7, <1>8, <1>9, <1>10 DEF Next, Supervisor, Peer

(* On each connection the bridge gets the messages in the order of the     *)
(* peer side, whatever else is dropped, lost or written on another         *)
(* connection, but for those that a shut-down routine put back.            *)
THEOREM WritingInOrder == Spec => []InOrderUnlessRequeued
  <1>1. Init => OrderInv
    BY DEF Init, OrderInv, Lane, InOrder, Elements, InChannel, Held
  <1>2. IInv /\ PlaceInv /\ OrderInv /\ [Next]_vars => OrderInv'
    BY StepOrder
  <1>3. OrderInv => InOrderUnlessRequeued
    BY DEF OrderInv, Lane, InOrder, Before, InOrderUnlessRequeued
  <1> QED
    BY PlaceInvariant, <1>1, <1>2, <1>3, PTL DEF Spec
===============================================================================
