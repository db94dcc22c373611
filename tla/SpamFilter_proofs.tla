-------------------------- MODULE SpamFilter_proofs --------------------------
(***************************************************************************)
(* Proofs about SpamFilter, for any workers, contents and capacity and     *)
(* every bound on connections and requests.                                *)
(***************************************************************************)
EXTENDS SpamFilter, FiniteSetTheorems, TLAPS

USE CapacityAssumption, BoundsAssumption

-------------------------------------------------------------------------------
(* Types.  What the types of the variables rest on: a routine or a worker  *)
(* holds a request or a verdict exactly where its code does, no more was   *)
(* read than was asked, and only connections that were made have routines. *)

Hands(r) ==
    /\ r.recv \in {"deny", "drop", "put"} => r.request \in Requests
    /\ r.recv \notin {"deny", "drop", "put"} => r.request = NoRequest
    /\ r.recv = "deny" => r.request.content = "garbled"
    /\ r.send \in {"check", "requeue", "write"} => r.verdict \in Verdicts
    /\ r.send \notin {"check", "requeue", "write"} => r.verdict = NoVerdict

HandlerInv ==
    /\ handler \in [Conns -> HandlerType]
    /\ \A g \in Conns :
         /\ Hands(handler[g])
         /\ handler[g].unread + handler[g].read <= asked
         /\ conn < g => handler[g].recv = "none" /\ handler[g].send = "none"

WorkerInv ==
    \A w \in Workers :
        IF worker[w].pc = "idle" THEN worker[w].request = NoRequest
        ELSE worker[w].request \in Requests

IInv ==
    /\ TypeOK /\ HandlerInv /\ WorkerInv
    /\ supPc \in {"watch", "shutSend", "shutRecv"} => conn # 0

(* Facts about the first element and the rest of a sequence.               *)
LEMMA HeadTail ==
    ASSUME NEW S, NEW s \in Seq(S), s # << >>
    PROVE  /\ Head(s) \in S /\ Tail(s) \in Seq(S)
           /\ Len(Tail(s)) = Len(s) - 1 /\ Len(s) \in Nat \ {0}
  OBVIOUS

(* Facts about a sequence with one more element.                           *)
LEMMA AppendOne ==
    ASSUME NEW S, NEW s \in Seq(S), NEW e \in S
    PROVE  /\ Append(s, e) \in Seq(S) /\ Len(Append(s, e)) = Len(s) + 1
           /\ Len(s) \in Nat
  OBVIOUS

(* A change of one handler keeps what is said of all.                      *)
LEMMA Update ==
    ASSUME HandlerInv, asked \in Nat, asked' \in Nat, asked <= asked',
           conn \in Nat, conn' \in Nat, conn <= conn', NEW h \in Conns, NEW q \in HandlerType,
           handler' = [handler EXCEPT ![h] = q], Hands(q), q.unread + q.read <= asked',
           conn' < h => q.recv = "none" /\ q.send = "none"
    PROVE  HandlerInv'
  <1>1. handler' \in [Conns -> HandlerType]
    BY DEF HandlerInv
  <1>2. ASSUME NEW g \in Conns
        PROVE  /\ Hands(handler'[g]) /\ handler'[g].unread + handler'[g].read <= asked'
               /\ conn' < g => handler'[g].recv = "none" /\ handler'[g].send = "none"
    <2>1. CASE g = h
      BY <2>1 DEF HandlerInv
    <2>2. CASE g # h
      <3>1. handler'[g] = handler[g]
        BY <2>2 DEF HandlerInv
      <3>2. handler[g].unread \in Nat /\ handler[g].read \in Nat /\ g \in Nat
        BY DEF HandlerInv, HandlerType, Conns
      <3>3. handler[g].unread + handler[g].read <= asked /\ Hands(handler[g])
            /\ (conn < g => handler[g].recv = "none" /\ handler[g].send = "none")
        BY DEF HandlerInv
      <3>4. conn' < g => conn < g
        BY <3>2
      <3> QED
        BY <3>1, <3>2, <3>3, <3>4
    <2> QED
      BY <2>1, <2>2
  <1>3. /\ \A g \in Conns : Hands(handler'[g])
        /\ \A g \in Conns : handler'[g].unread + handler'[g].read <= asked'
    BY <1>2
  <1> QED
    BY <1>1, <1>2 DEF HandlerInv, Hands, HandlerType

(* Every step keeps what is said of the handlers.                         *)
LEMMA StepHandlers == IInv /\ [Next]_vars => HandlerInv'
  <1> SUFFICES ASSUME IInv, [Next]_vars PROVE HandlerInv'
    OBVIOUS
  <1>t. /\ TypeOK /\ HandlerInv /\ handler \in [Conns -> HandlerType]
        /\ asked \in Nat /\ asked <= MaxRequests /\ conn \in Nat
        /\ supPc \in {"watch", "shutSend", "shutRecv"} => conn \in Conns
    BY DEF IInv, TypeOK, HandlerInv, Conns
  <1>1. CASE ConnErrorSeen
    <2>1. conn \in Conns
      BY <1>1, <1>t DEF ConnErrorSeen
    <2>2. PICK r \in HandlerType : r = handler[conn]
      BY <1>t, <2>1
    <2> DEFINE q == [r EXCEPT !.connError = 0]
    <2>3. handler' = [handler EXCEPT ![conn] = q]
      BY <1>1, <1>t, <2>1, <2>2 DEF ConnErrorSeen
    <2>4. /\ Hands(r) /\ r.unread + r.read <= asked
          /\ conn < conn => r.recv = "none" /\ r.send = "none"
          /\ r.unread \in 0..MaxRequests /\ r.read \in 0..MaxRequests
      BY <1>t, <2>1, <2>2 DEF HandlerInv, HandlerType
    <2>5. asked' = asked /\ conn' = conn
      BY <1>1, <1>t, <2>1, <2>2, <2>4 DEF ConnErrorSeen, supVars
    <2>7. q \in HandlerType
      BY  DEF HandlerType
    <2>8. Hands(q) /\ q.unread + q.read <= asked'
      BY <1>1, <1>t, <2>2, <2>4, <2>5 DEF ConnErrorSeen, Hands, HandlerType
    <2>9. conn' < conn => q.recv = "none" /\ q.send = "none"
      BY <1>1, <1>t, <2>1, <2>2, <2>4, <2>5 DEF ConnErrorSeen, HandlerType, Conns
    <2>10. asked' \in Nat /\ asked <= asked' /\ conn' \in Nat /\ conn <= conn'
      BY <1>t, <2>5
    <2> HIDE DEF q
    <2> QED
      BY <1>t, <2>1, <2>3, <2>7, <2>8, <2>9, <2>10, Update, Zenon
  <1>2. CASE ShutSend
    <2>1. conn \in Conns
      BY <1>2, <1>t DEF ShutSend
    <2>2. PICK r \in HandlerType : r = handler[conn]
      BY <1>t, <2>1
    <2> DEFINE q == [r EXCEPT !.shutSend = 1]
    <2>3. handler' = [handler EXCEPT ![conn] = q]
      BY <1>2, <1>t, <2>1, <2>2 DEF ShutSend
    <2>4. /\ Hands(r) /\ r.unread + r.read <= asked
          /\ conn < conn => r.recv = "none" /\ r.send = "none"
          /\ r.unread \in 0..MaxRequests /\ r.read \in 0..MaxRequests
      BY <1>t, <2>1, <2>2 DEF HandlerInv, HandlerType
    <2>5. asked' = asked /\ conn' = conn
      BY <1>2, <1>t, <2>1, <2>2, <2>4 DEF ShutSend, supVars
    <2>7. q \in HandlerType
      BY  DEF HandlerType
    <2>8. Hands(q) /\ q.unread + q.read <= asked'
      BY <1>2, <1>t, <2>2, <2>4, <2>5 DEF ShutSend, Hands, HandlerType
    <2>9. conn' < conn => q.recv = "none" /\ q.send = "none"
      BY <1>2, <1>t, <2>1, <2>2, <2>4, <2>5 DEF ShutSend, HandlerType, Conns
    <2>10. asked' \in Nat /\ asked <= asked' /\ conn' \in Nat /\ conn <= conn'
      BY <1>t, <2>5
    <2> HIDE DEF q
    <2> QED
      BY <1>t, <2>1, <2>3, <2>7, <2>8, <2>9, <2>10, Update, Zenon
  <1>3. CASE ShutRecv
    <2>1. conn \in Conns
      BY <1>3, <1>t DEF ShutRecv
    <2>2. PICK r \in HandlerType : r = handler[conn]
      BY <1>t, <2>1
    <2> DEFINE q == [r EXCEPT !.shutRecv = 1]
    <2>3. handler' = [handler EXCEPT ![conn] = q]
      BY <1>3, <1>t, <2>1, <2>2 DEF ShutRecv
    <2>4. /\ Hands(r) /\ r.unread + r.read <= asked
          /\ conn < conn => r.recv = "none" /\ r.send = "none"
          /\ r.unread \in 0..MaxRequests /\ r.read \in 0..MaxRequests
      BY <1>t, <2>1, <2>2 DEF HandlerInv, HandlerType
    <2>5. asked' = asked /\ conn' = conn
      BY <1>3, <1>t, <2>1, <2>2, <2>4 DEF ShutRecv, supVars
    <2>7. q \in HandlerType
      BY  DEF HandlerType
    <2>8. Hands(q) /\ q.unread + q.read <= asked'
      BY <1>3, <1>t, <2>2, <2>4, <2>5 DEF ShutRecv, Hands, HandlerType
    <2>9. conn' < conn => q.recv = "none" /\ q.send = "none"
      BY <1>3, <1>t, <2>1, <2>2, <2>4, <2>5 DEF ShutRecv, HandlerType, Conns
    <2>10. asked' \in Nat /\ asked <= asked' /\ conn' \in Nat /\ conn <= conn'
      BY <1>t, <2>5
    <2> HIDE DEF q
    <2> QED
      BY <1>t, <2>1, <2>3, <2>7, <2>8, <2>9, <2>10, Update, Zenon
  <1>4. CASE Accept
    <2>1. conn + 1 \in Conns
      BY <1>4, <1>t DEF Accept, Conns
    <2>2. PICK r \in HandlerType : r = handler[conn + 1]
      BY <1>t, <2>1
    <2> DEFINE q == [r EXCEPT !.link = "up", !.send = "range", !.recv = "top"]
    <2>3. handler' = [handler EXCEPT ![conn + 1] = q]
      BY <1>4, <1>t, <2>1, <2>2 DEF Accept
    <2>4. /\ Hands(r) /\ r.unread + r.read <= asked
          /\ conn < conn + 1 => r.recv = "none" /\ r.send = "none"
          /\ r.unread \in 0..MaxRequests /\ r.read \in 0..MaxRequests
      BY <1>t, <2>1, <2>2 DEF HandlerInv, HandlerType
    <2>5. asked' = asked /\ conn' = conn + 1
      BY <1>4, <1>t, <2>1, <2>2, <2>4 DEF Accept
    <2>7. q \in HandlerType
      BY  DEF HandlerType
    <2>8. Hands(q) /\ q.unread + q.read <= asked'
      BY <1>4, <1>t, <2>2, <2>4, <2>5 DEF Accept, Hands, HandlerType
    <2>9. conn' < conn + 1 => q.recv = "none" /\ q.send = "none"
      BY <1>4, <1>t, <2>1, <2>2, <2>4, <2>5 DEF Accept, HandlerType, Conns
    <2>10. asked' \in Nat /\ asked <= asked' /\ conn' \in Nat /\ conn <= conn'
      BY <1>t, <2>5
    <2> HIDE DEF q
    <2> QED
      BY <1>t, <2>1, <2>3, <2>7, <2>8, <2>9, <2>10, Update, Zenon
  <1>5. ASSUME NEW g \in Conns, SendTake(g) PROVE HandlerInv'
    <2>1. g \in Conns
      OBVIOUS
    <2>2. PICK r \in HandlerType : r = handler[g]
      BY <1>t, <2>1
    <2> DEFINE q == [r EXCEPT !.send = "check", !.verdict = Head(marlinTo)]
    <2>3. handler' = [handler EXCEPT ![g] = q]
      BY <1>5, <1>t, <2>1, <2>2 DEF SendTake
    <2>4. /\ Hands(r) /\ r.unread + r.read <= asked
          /\ conn < g => r.recv = "none" /\ r.send = "none"
          /\ r.unread \in 0..MaxRequests /\ r.read \in 0..MaxRequests
      BY <1>t, <2>1, <2>2 DEF HandlerInv, HandlerType
    <2>5. asked' = asked /\ conn' = conn
      BY <1>5, <1>t, <2>1, <2>2, <2>4 DEF SendTake, supVars
    <2>6. Head(marlinTo) \in Verdicts
      BY <1>5, <1>t, HeadTail DEF SendTake, TypeOK
    <2>7. q \in HandlerType
      BY <2>6 DEF HandlerType
    <2>8. Hands(q) /\ q.unread + q.read <= asked'
      BY <2>6, <1>5, <1>t, <2>2, <2>4, <2>5 DEF SendTake, Hands, HandlerType
    <2>9. conn' < g => q.recv = "none" /\ q.send = "none"
      BY <1>5, <1>t, <2>1, <2>2, <2>4, <2>5 DEF SendTake, HandlerType, Conns
    <2>10. asked' \in Nat /\ asked <= asked' /\ conn' \in Nat /\ conn <= conn'
      BY <1>t, <2>5
    <2> HIDE DEF q
    <2> QED
      BY <1>t, <2>1, <2>3, <2>7, <2>8, <2>9, <2>10, Update, Zenon
  <1>6. ASSUME NEW g \in Conns, SendShutdown(g) PROVE HandlerInv'
    <2>1. g \in Conns
      OBVIOUS
    <2>2. PICK r \in HandlerType : r = handler[g]
      BY <1>t, <2>1
    <2> DEFINE q == [r EXCEPT !.send = "requeue", !.shutSend = 0]
    <2>3. handler' = [handler EXCEPT ![g] = q]
      BY <1>6, <1>t, <2>1, <2>2 DEF SendShutdown
    <2>4. /\ Hands(r) /\ r.unread + r.read <= asked
          /\ conn < g => r.recv = "none" /\ r.send = "none"
          /\ r.unread \in 0..MaxRequests /\ r.read \in 0..MaxRequests
      BY <1>t, <2>1, <2>2 DEF HandlerInv, HandlerType
    <2>5. asked' = asked /\ conn' = conn
      BY <1>6, <1>t, <2>1, <2>2, <2>4 DEF SendShutdown, supVars
    <2>6. 0 \in 0..1 /\ 1 \in 0..1
      OBVIOUS
    <2>7. q \in HandlerType
      BY <2>6 DEF HandlerType
    <2>8. Hands(q) /\ q.unread + q.read <= asked'
      BY <1>6, <1>t, <2>2, <2>4, <2>5 DEF SendShutdown, Hands, HandlerType
    <2>9. conn' < g => q.recv = "none" /\ q.send = "none"
      BY <1>6, <1>t, <2>1, <2>2, <2>4, <2>5 DEF SendShutdown, HandlerType, Conns
    <2>10. asked' \in Nat /\ asked <= asked' /\ conn' \in Nat /\ conn <= conn'
      BY <1>t, <2>5
    <2> HIDE DEF q
    <2> QED
      BY <1>t, <2>1, <2>3, <2>7, <2>8, <2>9, <2>10, Update, Zenon
  <1>7. ASSUME NEW g \in Conns, SendRequeue(g) PROVE HandlerInv'
    <2>1. g \in Conns
      OBVIOUS
    <2>2. PICK r \in HandlerType : r = handler[g]
      BY <1>t, <2>1
    <2> DEFINE q == [r EXCEPT !.send = "shut", !.verdict = NoVerdict]
    <2>3. handler' = [handler EXCEPT ![g] = q]
      BY <1>7, <1>t, <2>1, <2>2 DEF SendRequeue
    <2>4. /\ Hands(r) /\ r.unread + r.read <= asked
          /\ conn < g => r.recv = "none" /\ r.send = "none"
          /\ r.unread \in 0..MaxRequests /\ r.read \in 0..MaxRequests
      BY <1>t, <2>1, <2>2 DEF HandlerInv, HandlerType
    <2>5. asked' = asked /\ conn' = conn
      BY <1>7, <1>t, <2>1, <2>2, <2>4 DEF SendRequeue, supVars
    <2>7. q \in HandlerType
      BY  DEF HandlerType
    <2>8. Hands(q) /\ q.unread + q.read <= asked'
      BY <1>7, <1>t, <2>2, <2>4, <2>5 DEF SendRequeue, Hands, HandlerType
    <2>9. conn' < g => q.recv = "none" /\ q.send = "none"
      BY <1>7, <1>t, <2>1, <2>2, <2>4, <2>5 DEF SendRequeue, HandlerType, Conns
    <2>10. asked' \in Nat /\ asked <= asked' /\ conn' \in Nat /\ conn <= conn'
      BY <1>t, <2>5
    <2> HIDE DEF q
    <2> QED
      BY <1>t, <2>1, <2>3, <2>7, <2>8, <2>9, <2>10, Update, Zenon
  <1>8. ASSUME NEW g \in Conns, SendDiscard(g) PROVE HandlerInv'
    <2>1. g \in Conns
      OBVIOUS
    <2>2. PICK r \in HandlerType : r = handler[g]
      BY <1>t, <2>1
    <2> DEFINE q == [r EXCEPT !.send = "range", !.verdict = NoVerdict]
    <2>3. handler' = [handler EXCEPT ![g] = q]
      BY <1>8, <1>t, <2>1, <2>2 DEF SendDiscard
    <2>4. /\ Hands(r) /\ r.unread + r.read <= asked
          /\ conn < g => r.recv = "none" /\ r.send = "none"
          /\ r.unread \in 0..MaxRequests /\ r.read \in 0..MaxRequests
      BY <1>t, <2>1, <2>2 DEF HandlerInv, HandlerType
    <2>5. asked' = asked /\ conn' = conn
      BY <1>8, <1>t, <2>1, <2>2, <2>4 DEF SendDiscard, supVars
    <2>7. q \in HandlerType
      BY  DEF HandlerType
    <2>8. Hands(q) /\ q.unread + q.read <= asked'
      BY <1>8, <1>t, <2>2, <2>4, <2>5 DEF SendDiscard, Hands, HandlerType
    <2>9. conn' < g => q.recv = "none" /\ q.send = "none"
      BY <1>8, <1>t, <2>1, <2>2, <2>4, <2>5 DEF SendDiscard, HandlerType, Conns
    <2>10. asked' \in Nat /\ asked <= asked' /\ conn' \in Nat /\ conn <= conn'
      BY <1>t, <2>5
    <2> HIDE DEF q
    <2> QED
      BY <1>t, <2>1, <2>3, <2>7, <2>8, <2>9, <2>10, Update, Zenon
  <1>9. ASSUME NEW g \in Conns, SendEncode(g) PROVE HandlerInv'
    <2>1. g \in Conns
      OBVIOUS
    <2>2. PICK r \in HandlerType : r = handler[g]
      BY <1>t, <2>1
    <2> DEFINE q == [r EXCEPT !.send = "write"]
    <2>3. handler' = [handler EXCEPT ![g] = q]
      BY <1>9, <1>t, <2>1, <2>2 DEF SendEncode
    <2>4. /\ Hands(r) /\ r.unread + r.read <= asked
          /\ conn < g => r.recv = "none" /\ r.send = "none"
          /\ r.unread \in 0..MaxRequests /\ r.read \in 0..MaxRequests
      BY <1>t, <2>1, <2>2 DEF HandlerInv, HandlerType
    <2>5. asked' = asked /\ conn' = conn
      BY <1>9, <1>t, <2>1, <2>2, <2>4 DEF SendEncode, supVars
    <2>7. q \in HandlerType
      BY  DEF HandlerType
    <2>8. Hands(q) /\ q.unread + q.read <= asked'
      BY <1>9, <1>t, <2>2, <2>4, <2>5 DEF SendEncode, Hands, HandlerType
    <2>9. conn' < g => q.recv = "none" /\ q.send = "none"
      BY <1>9, <1>t, <2>1, <2>2, <2>4, <2>5 DEF SendEncode, HandlerType, Conns
    <2>10. asked' \in Nat /\ asked <= asked' /\ conn' \in Nat /\ conn <= conn'
      BY <1>t, <2>5
    <2> HIDE DEF q
    <2> QED
      BY <1>t, <2>1, <2>3, <2>7, <2>8, <2>9, <2>10, Update, Zenon
  <1>10. ASSUME NEW g \in Conns, SendWrite(g) PROVE HandlerInv'
    <2>1. g \in Conns
      OBVIOUS
    <2>2. PICK r \in HandlerType : r = handler[g]
      BY <1>t, <2>1
    <2> DEFINE q == [r EXCEPT !.send = "range", !.verdict = NoVerdict]
    <2>3. handler' = [handler EXCEPT ![g] = q]
      BY <1>10, <1>t, <2>1, <2>2 DEF SendWrite
    <2>4. /\ Hands(r) /\ r.unread + r.read <= asked
          /\ conn < g => r.recv = "none" /\ r.send = "none"
          /\ r.unread \in 0..MaxRequests /\ r.read \in 0..MaxRequests
      BY <1>t, <2>1, <2>2 DEF HandlerInv, HandlerType
    <2>5. asked' = asked /\ conn' = conn
      BY <1>10, <1>t, <2>1, <2>2, <2>4 DEF SendWrite, supVars
    <2>7. q \in HandlerType
      BY  DEF HandlerType
    <2>8. Hands(q) /\ q.unread + q.read <= asked'
      BY <1>10, <1>t, <2>2, <2>4, <2>5 DEF SendWrite, Hands, HandlerType
    <2>9. conn' < g => q.recv = "none" /\ q.send = "none"
      BY <1>10, <1>t, <2>1, <2>2, <2>4, <2>5 DEF SendWrite, HandlerType, Conns
    <2>10. asked' \in Nat /\ asked <= asked' /\ conn' \in Nat /\ conn <= conn'
      BY <1>t, <2>5
    <2> HIDE DEF q
    <2> QED
      BY <1>t, <2>1, <2>3, <2>7, <2>8, <2>9, <2>10, Update, Zenon
  <1>11. ASSUME NEW g \in Conns, SendWriteFails(g) PROVE HandlerInv'
    <2>1. g \in Conns
      OBVIOUS
    <2>2. PICK r \in HandlerType : r = handler[g]
      BY <1>t, <2>1
    <2> DEFINE q == [r EXCEPT !.send = "fail", !.verdict = NoVerdict]
    <2>3. handler' = [handler EXCEPT ![g] = q]
      BY <1>11, <1>t, <2>1, <2>2 DEF SendWriteFails
    <2>4. /\ Hands(r) /\ r.unread + r.read <= asked
          /\ conn < g => r.recv = "none" /\ r.send = "none"
          /\ r.unread \in 0..MaxRequests /\ r.read \in 0..MaxRequests
      BY <1>t, <2>1, <2>2 DEF HandlerInv, HandlerType
    <2>5. asked' = asked /\ conn' = conn
      BY <1>11, <1>t, <2>1, <2>2, <2>4 DEF SendWriteFails, supVars
    <2>7. q \in HandlerType
      BY  DEF HandlerType
    <2>8. Hands(q) /\ q.unread + q.read <= asked'
      BY <1>11, <1>t, <2>2, <2>4, <2>5 DEF SendWriteFails, Hands, HandlerType
    <2>9. conn' < g => q.recv = "none" /\ q.send = "none"
      BY <1>11, <1>t, <2>1, <2>2, <2>4, <2>5 DEF SendWriteFails, HandlerType, Conns
    <2>10. asked' \in Nat /\ asked <= asked' /\ conn' \in Nat /\ conn <= conn'
      BY <1>t, <2>5
    <2> HIDE DEF q
    <2> QED
      BY <1>t, <2>1, <2>3, <2>7, <2>8, <2>9, <2>10, Update, Zenon
  <1>12. ASSUME NEW g \in Conns, SendSignal(g) PROVE HandlerInv'
    <2>1. g \in Conns
      OBVIOUS
    <2>2. PICK r \in HandlerType : r = handler[g]
      BY <1>t, <2>1
    <2> DEFINE q == [r EXCEPT !.send = "failed", !.connError = 1]
    <2>3. handler' = [handler EXCEPT ![g] = q]
      BY <1>12, <1>t, <2>1, <2>2 DEF SendSignal
    <2>4. /\ Hands(r) /\ r.unread + r.read <= asked
          /\ conn < g => r.recv = "none" /\ r.send = "none"
          /\ r.unread \in 0..MaxRequests /\ r.read \in 0..MaxRequests
      BY <1>t, <2>1, <2>2 DEF HandlerInv, HandlerType
    <2>5. asked' = asked /\ conn' = conn
      BY <1>12, <1>t, <2>1, <2>2, <2>4 DEF SendSignal, supVars
    <2>6. 0 \in 0..1 /\ 1 \in 0..1
      OBVIOUS
    <2>7. q \in HandlerType
      BY <2>6 DEF HandlerType
    <2>8. Hands(q) /\ q.unread + q.read <= asked'
      BY <1>12, <1>t, <2>2, <2>4, <2>5 DEF SendSignal, Hands, HandlerType
    <2>9. conn' < g => q.recv = "none" /\ q.send = "none"
      BY <1>12, <1>t, <2>1, <2>2, <2>4, <2>5 DEF SendSignal, HandlerType, Conns
    <2>10. asked' \in Nat /\ asked <= asked' /\ conn' \in Nat /\ conn <= conn'
      BY <1>t, <2>5
    <2> HIDE DEF q
    <2> QED
      BY <1>t, <2>1, <2>3, <2>7, <2>8, <2>9, <2>10, Update, Zenon
  <1>13. ASSUME NEW g \in Conns, RecvShutdown(g) PROVE HandlerInv'
    <2>1. g \in Conns
      OBVIOUS
    <2>2. PICK r \in HandlerType : r = handler[g]
      BY <1>t, <2>1
    <2> DEFINE q == [r EXCEPT !.recv = "shut", !.shutRecv = 0]
    <2>3. handler' = [handler EXCEPT ![g] = q]
      BY <1>13, <1>t, <2>1, <2>2 DEF RecvShutdown
    <2>4. /\ Hands(r) /\ r.unread + r.read <= asked
          /\ conn < g => r.recv = "none" /\ r.send = "none"
          /\ r.unread \in 0..MaxRequests /\ r.read \in 0..MaxRequests
      BY <1>t, <2>1, <2>2 DEF HandlerInv, HandlerType
    <2>5. asked' = asked /\ conn' = conn
      BY <1>13, <1>t, <2>1, <2>2, <2>4 DEF RecvShutdown, supVars
    <2>6. 0 \in 0..1 /\ 1 \in 0..1
      OBVIOUS
    <2>7. q \in HandlerType
      BY <2>6 DEF HandlerType
    <2>8. Hands(q) /\ q.unread + q.read <= asked'
      BY <1>13, <1>t, <2>2, <2>4, <2>5 DEF RecvShutdown, Hands, HandlerType
    <2>9. conn' < g => q.recv = "none" /\ q.send = "none"
      BY <1>13, <1>t, <2>1, <2>2, <2>4, <2>5 DEF RecvShutdown, HandlerType, Conns
    <2>10. asked' \in Nat /\ asked <= asked' /\ conn' \in Nat /\ conn <= conn'
      BY <1>t, <2>5
    <2> HIDE DEF q
    <2> QED
      BY <1>t, <2>1, <2>3, <2>7, <2>8, <2>9, <2>10, Update, Zenon
  <1>14. ASSUME NEW g \in Conns, RecvRead(g) PROVE HandlerInv'
    <2>1. g \in Conns
      OBVIOUS
    <2>2. PICK r \in HandlerType : r = handler[g]
      BY <1>t, <2>1
    <2> DEFINE q == [r EXCEPT !.recv = "read"]
    <2>3. handler' = [handler EXCEPT ![g] = q]
      BY <1>14, <1>t, <2>1, <2>2 DEF RecvRead
    <2>4. /\ Hands(r) /\ r.unread + r.read <= asked
          /\ conn < g => r.recv = "none" /\ r.send = "none"
          /\ r.unread \in 0..MaxRequests /\ r.read \in 0..MaxRequests
      BY <1>t, <2>1, <2>2 DEF HandlerInv, HandlerType
    <2>5. asked' = asked /\ conn' = conn
      BY <1>14, <1>t, <2>1, <2>2, <2>4 DEF RecvRead, supVars
    <2>7. q \in HandlerType
      BY  DEF HandlerType
    <2>8. Hands(q) /\ q.unread + q.read <= asked'
      BY <1>14, <1>t, <2>2, <2>4, <2>5 DEF RecvRead, Hands, HandlerType
    <2>9. conn' < g => q.recv = "none" /\ q.send = "none"
      BY <1>14, <1>t, <2>1, <2>2, <2>4, <2>5 DEF RecvRead, HandlerType, Conns
    <2>10. asked' \in Nat /\ asked <= asked' /\ conn' \in Nat /\ conn <= conn'
      BY <1>t, <2>5
    <2> HIDE DEF q
    <2> QED
      BY <1>t, <2>1, <2>3, <2>7, <2>8, <2>9, <2>10, Update, Zenon
  <1>15. ASSUME NEW g \in Conns, RecvIgnored(g) PROVE HandlerInv'
    <2>1. g \in Conns
      OBVIOUS
    <2>2. PICK r \in HandlerType : r = handler[g]
      BY <1>t, <2>1
    <2> DEFINE q == [r EXCEPT !.unread = r.unread - 1, !.recv = "top"]
    <2>3. handler' = [handler EXCEPT ![g] = q]
      BY <1>15, <1>t, <2>1, <2>2 DEF RecvIgnored, Readable
    <2>4. /\ Hands(r) /\ r.unread + r.read <= asked
          /\ conn < g => r.recv = "none" /\ r.send = "none"
          /\ r.unread \in 0..MaxRequests /\ r.read \in 0..MaxRequests
      BY <1>t, <2>1, <2>2 DEF HandlerInv, HandlerType
    <2>5. r.unread - 1 \in 0..MaxRequests /\ r.read + 1 \in 1..MaxRequests
          /\ r.read + 1 \in 0..MaxRequests
          /\ asked' = asked /\ conn' = conn
      BY <1>15, <1>t, <2>1, <2>2, <2>4 DEF RecvIgnored, Readable, supVars
    <2>7. q \in HandlerType
      BY <2>5 DEF HandlerType
    <2>8. Hands(q) /\ q.unread + q.read <= asked'
      BY <1>15, <1>t, <2>2, <2>4, <2>5 DEF RecvIgnored, Readable, Hands, HandlerType
    <2>9. conn' < g => q.recv = "none" /\ q.send = "none"
      BY <1>15, <1>t, <2>1, <2>2, <2>4, <2>5 DEF RecvIgnored, Readable, HandlerType, Conns
    <2>10. asked' \in Nat /\ asked <= asked' /\ conn' \in Nat /\ conn <= conn'
      BY <1>t, <2>5
    <2> HIDE DEF q
    <2> QED
      BY <1>t, <2>1, <2>3, <2>7, <2>8, <2>9, <2>10, Update, Zenon
  <1>16. ASSUME NEW g \in Conns, RecvUndecodable(g) PROVE HandlerInv'
    <2>1. g \in Conns
      OBVIOUS
    <2>2. PICK r \in HandlerType : r = handler[g]
      BY <1>t, <2>1
    <2> DEFINE q == [r EXCEPT !.unread = r.unread - 1, !.read = r.read + 1, !.request = Request(g, r.read + 1, "garbled"), !.chain = currentlyServicing, !.recv = "deny"]
    <2>3. handler' = [handler EXCEPT ![g] = q]
      BY <1>16, <1>t, <2>1, <2>2 DEF RecvUndecodable, Readable
    <2>4. /\ Hands(r) /\ r.unread + r.read <= asked
          /\ conn < g => r.recv = "none" /\ r.send = "none"
          /\ r.unread \in 0..MaxRequests /\ r.read \in 0..MaxRequests
      BY <1>t, <2>1, <2>2 DEF HandlerInv, HandlerType
    <2>5. r.unread - 1 \in 0..MaxRequests /\ r.read + 1 \in 1..MaxRequests
          /\ r.read + 1 \in 0..MaxRequests
          /\ asked' = asked /\ conn' = conn
      BY <1>16, <1>t, <2>1, <2>2, <2>4 DEF RecvUndecodable, Readable, supVars
    <2>6. /\ Request(g, r.read + 1, "garbled") \in Requests /\ currentlyServicing \in {"none", "chain"}
          /\ Request(g, r.read + 1, "garbled").content = "garbled"
      BY <1>t, <2>5 DEF Requests, Request, TypeOK
    <2>7. q \in HandlerType
      BY <2>5, <2>6 DEF HandlerType
    <2>8. Hands(q) /\ q.unread + q.read <= asked'
      BY <2>6, <1>16, <1>t, <2>2, <2>4, <2>5 DEF RecvUndecodable, Readable, Hands, HandlerType
    <2>9. conn' < g => q.recv = "none" /\ q.send = "none"
      BY <1>16, <1>t, <2>1, <2>2, <2>4, <2>5 DEF RecvUndecodable, Readable, HandlerType, Conns
    <2>10. asked' \in Nat /\ asked <= asked' /\ conn' \in Nat /\ conn <= conn'
      BY <1>t, <2>5
    <2> HIDE DEF q
    <2> QED
      BY <1>t, <2>1, <2>3, <2>7, <2>8, <2>9, <2>10, Update, Zenon
  <1>17. ASSUME NEW g \in Conns, RecvDeny(g) PROVE HandlerInv'
    <2>1. g \in Conns
      OBVIOUS
    <2>2. PICK r \in HandlerType : r = handler[g]
      BY <1>t, <2>1
    <2> DEFINE q == [r EXCEPT !.recv = "top", !.request = NoRequest, !.chain = "none"]
    <2>3. handler' = [handler EXCEPT ![g] = q]
      BY <1>17, <1>t, <2>1, <2>2 DEF RecvDeny
    <2>4. /\ Hands(r) /\ r.unread + r.read <= asked
          /\ conn < g => r.recv = "none" /\ r.send = "none"
          /\ r.unread \in 0..MaxRequests /\ r.read \in 0..MaxRequests
      BY <1>t, <2>1, <2>2 DEF HandlerInv, HandlerType
    <2>5. asked' = asked /\ conn' = conn
      BY <1>17, <1>t, <2>1, <2>2, <2>4 DEF RecvDeny, supVars
    <2>7. q \in HandlerType
      BY  DEF HandlerType
    <2>8. Hands(q) /\ q.unread + q.read <= asked'
      BY <1>17, <1>t, <2>2, <2>4, <2>5 DEF RecvDeny, Hands, HandlerType
    <2>9. conn' < g => q.recv = "none" /\ q.send = "none"
      BY <1>17, <1>t, <2>1, <2>2, <2>4, <2>5 DEF RecvDeny, HandlerType, Conns
    <2>10. asked' \in Nat /\ asked <= asked' /\ conn' \in Nat /\ conn <= conn'
      BY <1>t, <2>5
    <2> HIDE DEF q
    <2> QED
      BY <1>t, <2>1, <2>3, <2>7, <2>8, <2>9, <2>10, Update, Zenon
  <1>18. ASSUME NEW g \in Conns, RecvSelectSend(g) PROVE HandlerInv'
    <2>1. g \in Conns
      OBVIOUS
    <2>2. PICK r \in HandlerType : r = handler[g]
      BY <1>t, <2>1
    <2> DEFINE q == [r EXCEPT !.unread = r.unread - 1, !.read = r.read + 1, !.recv = "top"]
    <2>3. handler' = [handler EXCEPT ![g] = q]
      BY <1>18, <1>t, <2>1, <2>2 DEF RecvSelectSend, Readable
    <2>4. /\ Hands(r) /\ r.unread + r.read <= asked
          /\ conn < g => r.recv = "none" /\ r.send = "none"
          /\ r.unread \in 0..MaxRequests /\ r.read \in 0..MaxRequests
      BY <1>t, <2>1, <2>2 DEF HandlerInv, HandlerType
    <2>5. r.unread - 1 \in 0..MaxRequests /\ r.read + 1 \in 1..MaxRequests
          /\ r.read + 1 \in 0..MaxRequests
          /\ asked' = asked /\ conn' = conn
      BY <1>18, <1>t, <2>1, <2>2, <2>4 DEF RecvSelectSend, Readable, supVars
    <2>7. q \in HandlerType
      BY <2>5 DEF HandlerType
    <2>8. Hands(q) /\ q.unread + q.read <= asked'
      BY <1>18, <1>t, <2>2, <2>4, <2>5 DEF RecvSelectSend, Readable, Hands, HandlerType
    <2>9. conn' < g => q.recv = "none" /\ q.send = "none"
      BY <1>18, <1>t, <2>1, <2>2, <2>4, <2>5 DEF RecvSelectSend, Readable, HandlerType, Conns
    <2>10. asked' \in Nat /\ asked <= asked' /\ conn' \in Nat /\ conn <= conn'
      BY <1>t, <2>5
    <2> HIDE DEF q
    <2> QED
      BY <1>t, <2>1, <2>3, <2>7, <2>8, <2>9, <2>10, Update, Zenon
  <1>19. ASSUME NEW g \in Conns, RecvSelectDefault(g) PROVE HandlerInv'
    <2>1. g \in Conns
      OBVIOUS
    <2>2. PICK r \in HandlerType : r = handler[g]
      BY <1>t, <2>1
    <2>c. PICK c \in Contents :
            handler' = [handler EXCEPT ![g].unread = @ - 1, ![g].read = @ + 1,
                ![g].request = Request(g, handler[g].read + 1, c), ![g].recv = "drop"]
      BY <1>19 DEF RecvSelectDefault
    <2> DEFINE q == [r EXCEPT !.unread = r.unread - 1, !.read = r.read + 1, !.request = Request(g, r.read + 1, c), !.recv = "drop"]
    <2>3. handler' = [handler EXCEPT ![g] = q]
      BY <2>c, <1>t, <2>2
    <2>4. /\ Hands(r) /\ r.unread + r.read <= asked
          /\ conn < g => r.recv = "none" /\ r.send = "none"
          /\ r.unread \in 0..MaxRequests /\ r.read \in 0..MaxRequests
      BY <1>t, <2>1, <2>2 DEF HandlerInv, HandlerType
    <2>5. r.unread - 1 \in 0..MaxRequests /\ r.read + 1 \in 1..MaxRequests
          /\ r.read + 1 \in 0..MaxRequests
          /\ asked' = asked /\ conn' = conn
      BY <1>19, <1>t, <2>1, <2>2, <2>4 DEF RecvSelectDefault, Readable, supVars
    <2>6. Request(g, r.read + 1, c) \in Requests
      BY <2>5, ContentsAssumption DEF Requests, Request
    <2>7. q \in HandlerType
      BY <2>5, <2>6 DEF HandlerType
    <2>8. Hands(q) /\ q.unread + q.read <= asked'
      BY <2>6, <1>19, <1>t, <2>2, <2>4, <2>5 DEF RecvSelectDefault, Readable, Hands, HandlerType
    <2>9. conn' < g => q.recv = "none" /\ q.send = "none"
      BY <1>19, <1>t, <2>1, <2>2, <2>4, <2>5 DEF RecvSelectDefault, Readable, HandlerType, Conns
    <2>10. asked' \in Nat /\ asked <= asked' /\ conn' \in Nat /\ conn <= conn'
      BY <1>t, <2>5
    <2> HIDE DEF q
    <2> QED
      BY <1>t, <2>1, <2>3, <2>7, <2>8, <2>9, <2>10, Update, Zenon
  <1>20. ASSUME NEW g \in Conns, RecvDrop(g) PROVE HandlerInv'
    <2>1. g \in Conns
      OBVIOUS
    <2>2. PICK r \in HandlerType : r = handler[g]
      BY <1>t, <2>1
    <2> DEFINE q == [r EXCEPT !.recv = "put"]
    <2>3. handler' = [handler EXCEPT ![g] = q]
      BY <1>20, <1>t, <2>1, <2>2 DEF RecvDrop
    <2>4. /\ Hands(r) /\ r.unread + r.read <= asked
          /\ conn < g => r.recv = "none" /\ r.send = "none"
          /\ r.unread \in 0..MaxRequests /\ r.read \in 0..MaxRequests
      BY <1>t, <2>1, <2>2 DEF HandlerInv, HandlerType
    <2>5. asked' = asked /\ conn' = conn
      BY <1>20, <1>t, <2>1, <2>2, <2>4 DEF RecvDrop, supVars
    <2>7. q \in HandlerType
      BY  DEF HandlerType
    <2>8. Hands(q) /\ q.unread + q.read <= asked'
      BY <1>20, <1>t, <2>2, <2>4, <2>5 DEF RecvDrop, Hands, HandlerType
    <2>9. conn' < g => q.recv = "none" /\ q.send = "none"
      BY <1>20, <1>t, <2>1, <2>2, <2>4, <2>5 DEF RecvDrop, HandlerType, Conns
    <2>10. asked' \in Nat /\ asked <= asked' /\ conn' \in Nat /\ conn <= conn'
      BY <1>t, <2>5
    <2> HIDE DEF q
    <2> QED
      BY <1>t, <2>1, <2>3, <2>7, <2>8, <2>9, <2>10, Update, Zenon
  <1>21. ASSUME NEW g \in Conns, RecvPut(g) PROVE HandlerInv'
    <2>1. g \in Conns
      OBVIOUS
    <2>2. PICK r \in HandlerType : r = handler[g]
      BY <1>t, <2>1
    <2> DEFINE q == [r EXCEPT !.recv = "top", !.request = NoRequest]
    <2>3. handler' = [handler EXCEPT ![g] = q]
      BY <1>21, <1>t, <2>1, <2>2 DEF RecvPut
    <2>4. /\ Hands(r) /\ r.unread + r.read <= asked
          /\ conn < g => r.recv = "none" /\ r.send = "none"
          /\ r.unread \in 0..MaxRequests /\ r.read \in 0..MaxRequests
      BY <1>t, <2>1, <2>2 DEF HandlerInv, HandlerType
    <2>5. asked' = asked /\ conn' = conn
      BY <1>21, <1>t, <2>1, <2>2, <2>4 DEF RecvPut, supVars
    <2>7. q \in HandlerType
      BY  DEF HandlerType
    <2>8. Hands(q) /\ q.unread + q.read <= asked'
      BY <1>21, <1>t, <2>2, <2>4, <2>5 DEF RecvPut, Hands, HandlerType
    <2>9. conn' < g => q.recv = "none" /\ q.send = "none"
      BY <1>21, <1>t, <2>1, <2>2, <2>4, <2>5 DEF RecvPut, HandlerType, Conns
    <2>10. asked' \in Nat /\ asked <= asked' /\ conn' \in Nat /\ conn <= conn'
      BY <1>t, <2>5
    <2> HIDE DEF q
    <2> QED
      BY <1>t, <2>1, <2>3, <2>7, <2>8, <2>9, <2>10, Update, Zenon
  <1>22. ASSUME NEW g \in Conns, RecvFails(g) PROVE HandlerInv'
    <2>1. g \in Conns
      OBVIOUS
    <2>2. PICK r \in HandlerType : r = handler[g]
      BY <1>t, <2>1
    <2> DEFINE q == [r EXCEPT !.recv = "fail"]
    <2>3. handler' = [handler EXCEPT ![g] = q]
      BY <1>22, <1>t, <2>1, <2>2 DEF RecvFails
    <2>4. /\ Hands(r) /\ r.unread + r.read <= asked
          /\ conn < g => r.recv = "none" /\ r.send = "none"
          /\ r.unread \in 0..MaxRequests /\ r.read \in 0..MaxRequests
      BY <1>t, <2>1, <2>2 DEF HandlerInv, HandlerType
    <2>5. asked' = asked /\ conn' = conn
      BY <1>22, <1>t, <2>1, <2>2, <2>4 DEF RecvFails, ReadFails, supVars
    <2>7. q \in HandlerType
      BY  DEF HandlerType
    <2>8. Hands(q) /\ q.unread + q.read <= asked'
      BY <1>22, <1>t, <2>2, <2>4, <2>5 DEF RecvFails, ReadFails, Hands, HandlerType
    <2>9. conn' < g => q.recv = "none" /\ q.send = "none"
      BY <1>22, <1>t, <2>1, <2>2, <2>4, <2>5 DEF RecvFails, ReadFails, HandlerType, Conns
    <2>10. asked' \in Nat /\ asked <= asked' /\ conn' \in Nat /\ conn <= conn'
      BY <1>t, <2>5
    <2> HIDE DEF q
    <2> QED
      BY <1>t, <2>1, <2>3, <2>7, <2>8, <2>9, <2>10, Update, Zenon
  <1>23. ASSUME NEW g \in Conns, RecvSignal(g) PROVE HandlerInv'
    <2>1. g \in Conns
      OBVIOUS
    <2>2. PICK r \in HandlerType : r = handler[g]
      BY <1>t, <2>1
    <2> DEFINE q == [r EXCEPT !.recv = "failed", !.connError = 1]
    <2>3. handler' = [handler EXCEPT ![g] = q]
      BY <1>23, <1>t, <2>1, <2>2 DEF RecvSignal
    <2>4. /\ Hands(r) /\ r.unread + r.read <= asked
          /\ conn < g => r.recv = "none" /\ r.send = "none"
          /\ r.unread \in 0..MaxRequests /\ r.read \in 0..MaxRequests
      BY <1>t, <2>1, <2>2 DEF HandlerInv, HandlerType
    <2>5. asked' = asked /\ conn' = conn
      BY <1>23, <1>t, <2>1, <2>2, <2>4 DEF RecvSignal, supVars
    <2>6. 0 \in 0..1 /\ 1 \in 0..1
      OBVIOUS
    <2>7. q \in HandlerType
      BY <2>6 DEF HandlerType
    <2>8. Hands(q) /\ q.unread + q.read <= asked'
      BY <1>23, <1>t, <2>2, <2>4, <2>5 DEF RecvSignal, Hands, HandlerType
    <2>9. conn' < g => q.recv = "none" /\ q.send = "none"
      BY <1>23, <1>t, <2>1, <2>2, <2>4, <2>5 DEF RecvSignal, HandlerType, Conns
    <2>10. asked' \in Nat /\ asked <= asked' /\ conn' \in Nat /\ conn <= conn'
      BY <1>t, <2>5
    <2> HIDE DEF q
    <2> QED
      BY <1>t, <2>1, <2>3, <2>7, <2>8, <2>9, <2>10, Update, Zenon
  <1>24. ASSUME NEW g \in Conns, GatewayAsks(g) PROVE HandlerInv'
    <2>1. g \in Conns
      OBVIOUS
    <2>2. PICK r \in HandlerType : r = handler[g]
      BY <1>t, <2>1
    <2> DEFINE q == [r EXCEPT !.unread = r.unread + 1]
    <2>3. handler' = [handler EXCEPT ![g] = q]
      BY <1>24, <1>t, <2>1, <2>2 DEF GatewayAsks
    <2>4. /\ Hands(r) /\ r.unread + r.read <= asked
          /\ conn < g => r.recv = "none" /\ r.send = "none"
          /\ r.unread \in 0..MaxRequests /\ r.read \in 0..MaxRequests
      BY <1>t, <2>1, <2>2 DEF HandlerInv, HandlerType
    <2>5. r.unread + 1 \in 0..MaxRequests /\ asked' = asked + 1 /\ conn' = conn
      BY <1>24, <1>t, <2>1, <2>2, <2>4 DEF GatewayAsks, supVars
    <2>7. q \in HandlerType
      BY <2>5 DEF HandlerType
    <2>8. Hands(q) /\ q.unread + q.read <= asked'
      BY <1>24, <1>t, <2>2, <2>4, <2>5 DEF GatewayAsks, Hands, HandlerType
    <2>9. conn' < g => q.recv = "none" /\ q.send = "none"
      BY <1>24, <1>t, <2>1, <2>2, <2>4, <2>5 DEF GatewayAsks, HandlerType, Conns
    <2>10. asked' \in Nat /\ asked <= asked' /\ conn' \in Nat /\ conn <= conn'
      BY <1>t, <2>5
    <2> HIDE DEF q
    <2> QED
      BY <1>t, <2>1, <2>3, <2>7, <2>8, <2>9, <2>10, Update, Zenon
  <1>25. ASSUME NEW g \in Conns, LinkFails(g) PROVE HandlerInv'
    <2>1. g \in Conns
      OBVIOUS
    <2>2. PICK r \in HandlerType : r = handler[g]
      BY <1>t, <2>1
    <2>c. PICK s \in {"eof", "down"} : handler' = [handler EXCEPT ![g] = [r EXCEPT !.link = s]]
      BY <1>25, <1>t, <2>2 DEF LinkFails
    <2> DEFINE q == [r EXCEPT !.link = s]
    <2>3. handler' = [handler EXCEPT ![g] = q]
      BY <2>c, <1>t, <2>2
    <2>4. /\ Hands(r) /\ r.unread + r.read <= asked
          /\ conn < g => r.recv = "none" /\ r.send = "none"
          /\ r.unread \in 0..MaxRequests /\ r.read \in 0..MaxRequests
      BY <1>t, <2>1, <2>2 DEF HandlerInv, HandlerType
    <2>5. asked' = asked /\ conn' = conn
      BY <1>25, <1>t, <2>1, <2>2, <2>4 DEF LinkFails, supVars
    <2>6. s \in {"none", "up", "eof", "down"}
      OBVIOUS
    <2>7. q \in HandlerType
      BY <2>6 DEF HandlerType
    <2>8. Hands(q) /\ q.unread + q.read <= asked'
      BY <1>25, <1>t, <2>2, <2>4, <2>5 DEF LinkFails, Hands, HandlerType
    <2>9. conn' < g => q.recv = "none" /\ q.send = "none"
      BY <1>25, <1>t, <2>1, <2>2, <2>4, <2>5 DEF LinkFails, HandlerType, Conns
    <2>10. asked' \in Nat /\ asked <= asked' /\ conn' \in Nat /\ conn <= conn'
      BY <1>t, <2>5
    <2> HIDE DEF q
    <2> QED
      BY <1>t, <2>1, <2>3, <2>7, <2>8, <2>9, <2>10, Update, Zenon
  <1>26. ASSUME \/ Listen \/ ListenFails \/ ClosePanics \/ AcceptFails \/ Reattempt
               \/ AllowServicedChainMessages \/ UNCHANGED vars
               \/ \E w \in Workers : beginServicingSpamFilter(w) \/ WorkerPanics(w)
        PROVE  HandlerInv'
    <2>1. UNCHANGED <<handler, asked, conn>>
      BY <1>26 DEF Listen, ListenFails, ClosePanics, AcceptFails, Reattempt,
         AllowServicedChainMessages, beginServicingSpamFilter, WorkerTake, WorkerDecodes,
         WorkerCannotDecode, WorkerJudge, WorkerPanics, vars, supVars
    <2> QED
      BY <1>t, <2>1 DEF HandlerInv
  <1>27. ASSUME NEW g \in Conns, sendRoutineSpamFilter(g) PROVE HandlerInv'
    BY <1>5, <1>6, <1>7, <1>8, <1>9, <1>10, <1>11, <1>12, <1>27 DEF sendRoutineSpamFilter
  <1>28. ASSUME NEW g \in Conns, recvRoutineSpamFilter(g) PROVE HandlerInv'
    BY <1>13, <1>14, <1>15, <1>16, <1>17, <1>18, <1>19, <1>20, <1>21, <1>22, <1>23, <1>28 DEF recvRoutineSpamFilter
  <1> QED
    BY <1>1, <1>2, <1>3, <1>4, <1>24, <1>25, <1>26, <1>27, <1>28
       DEF Next, RunSpamFilterHandler

Supervising ==
    /\ currentlyServicing \in {"none", "chain"}
    /\ listening \in BOOLEAN /\ retried \in BOOLEAN
    /\ conn \in 0..MaxConns /\ asked \in 0..MaxRequests
    /\ supPc \in {"connect", "accept", "watch", "shutSend", "shutRecv", "sleep", "crashed"}
    /\ supPc \in {"watch", "shutSend", "shutRecv"} => conn # 0

FromTypes ==
    /\ marlinFrom \in Seq(Requests) /\ Len(marlinFrom) <= Capacity
    /\ dropped \subseteq Requests
    /\ worker \in [Workers -> [pc : {"idle", "first", "second", "judge"},
                               request : Requests \union {NoRequest}]]
    /\ WorkerInv

ToTypes ==
    /\ marlinTo \in Seq(Verdicts) /\ Len(marlinTo) <= Capacity
    /\ written \in [Conns -> Seq(Verdicts)]
    /\ lost \subseteq Verdicts

LEMMA Parts == IInv <=> Supervising /\ HandlerInv /\ FromTypes /\ ToTypes
  BY DEF IInv, TypeOK, Supervising, HandlerInv, FromTypes, ToTypes

(* Every step keeps the types of the supervisor's variables.               *)
LEMMA StepSupervising == IInv /\ [Next]_vars => Supervising'
  <1> SUFFICES ASSUME IInv, [Next]_vars PROVE Supervising'
    OBVIOUS
  <1>t. Supervising /\ conn \in Nat
    BY Parts DEF Supervising
  <1>1. CASE RunSpamFilterHandler
    <2>1. CASE Accept
      <3>1. conn' = conn + 1 /\ conn + 1 \in 0..MaxConns /\ conn + 1 # 0
        BY <2>1, <1>t DEF Accept
      <3> QED
        BY <2>1, <1>t, <3>1 DEF Accept, Supervising
    <2>2. CASE Listen \/ ListenFails \/ ClosePanics
      BY <2>2, <1>t DEF Listen, ListenFails, ClosePanics, Supervising
    <2>3. CASE AcceptFails \/ Reattempt
      BY <2>3, <1>t DEF AcceptFails, Reattempt, Supervising
    <2>4. CASE ConnErrorSeen \/ ShutSend \/ ShutRecv
      BY <2>4, <1>t DEF ConnErrorSeen, ShutSend, ShutRecv, Supervising
    <2> QED
      BY <1>1, <2>1, <2>2, <2>3, <2>4 DEF RunSpamFilterHandler
  <1>2. CASE AllowServicedChainMessages
    BY <1>2, <1>t DEF AllowServicedChainMessages, Supervising, supVars
  <1>3. ASSUME NEW w \in Workers, beginServicingSpamFilter(w) PROVE Supervising'
    BY <1>3, <1>t DEF beginServicingSpamFilter, WorkerTake, WorkerDecodes,
       WorkerCannotDecode, WorkerJudge, Supervising, supVars
  <1>4. ASSUME NEW w \in Workers, WorkerPanics(w) PROVE Supervising'
    BY <1>4, <1>t DEF WorkerPanics, Supervising
  <1>5. ASSUME NEW g \in Conns, sendRoutineSpamFilter(g) PROVE Supervising'
    BY <1>5, <1>t DEF sendRoutineSpamFilter, SendTake, SendShutdown, SendRequeue, SendDiscard,
       SendEncode, SendWrite, SendWriteFails, SendSignal, Supervising, supVars
  <1>6. ASSUME NEW g \in Conns, recvRoutineSpamFilter(g) PROVE Supervising'
    BY <1>6, <1>t DEF recvRoutineSpamFilter, RecvShutdown, RecvRead, RecvIgnored,
       RecvUndecodable, RecvDeny, RecvSelectSend, RecvSelectDefault, RecvDrop, RecvPut,
       RecvFails, RecvSignal, Supervising, supVars
  <1>7. ASSUME NEW g \in Conns, GatewayAsks(g) \/ LinkFails(g) PROVE Supervising'
    BY <1>7, <1>t DEF GatewayAsks, LinkFails, Supervising, supVars
  <1>8. CASE UNCHANGED vars
    BY <1>8, <1>t DEF vars, Supervising, supVars
  <1> QED
    BY <1>1, <1>2, <1>3, <1>4, <1>5, <1>6, <1>7, <1>8 DEF Next

(* The next request that the receiving routine of g reads is one.          *)
LEMMA NextRequest ==
    ASSUME IInv, NEW g \in Conns, Readable(g), NEW c \in Contents \union {"garbled"}
    PROVE  Request(g, handler[g].read + 1, c) \in Requests
  <1>1. /\ handler[g].unread \in Nat /\ handler[g].read \in Nat /\ asked <= MaxRequests
        /\ handler[g].unread + handler[g].read <= asked /\ handler[g].unread > 0 /\ asked \in Nat
    BY DEF IInv, HandlerInv, HandlerType, TypeOK, Readable
  <1>2. handler[g].read + 1 \in 1..MaxRequests
    BY <1>1
  <1> QED
    BY <1>2, ContentsAssumption DEF Request, Requests

(* A change of one worker keeps what is said of all.                       *)
LEMMA UpdateWorker ==
    ASSUME FromTypes, NEW w \in Workers, NEW q,
           worker' = [worker EXCEPT ![w] = q],
           q \in [pc : {"idle", "first", "second", "judge"}, request : Requests \union {NoRequest}],
           q.pc = "idle" => q.request = NoRequest, q.pc # "idle" => q.request \in Requests
    PROVE  /\ worker' \in [Workers -> [pc : {"idle", "first", "second", "judge"},
                                       request : Requests \union {NoRequest}]]
           /\ WorkerInv'
  BY DEF FromTypes, WorkerInv

(* Every step keeps the types of marlinFrom and of the workers.            *)
LEMMA StepFrom == IInv /\ [Next]_vars => FromTypes'
  <1> SUFFICES ASSUME IInv, [Next]_vars PROVE FromTypes'
    OBVIOUS
  <1>t. /\ FromTypes /\ marlinFrom \in Seq(Requests) /\ Len(marlinFrom) <= Capacity
        /\ Len(marlinFrom) \in Nat /\ dropped \subseteq Requests
    BY Parts DEF FromTypes
  <1>1. ASSUME NEW g \in Conns, RecvSelectSend(g) PROVE FromTypes'
    <2>1. PICK c \in Contents :
            marlinFrom' = Append(marlinFrom, Request(g, handler[g].read + 1, c))
      BY <1>1 DEF RecvSelectSend
    <2>2. Request(g, handler[g].read + 1, c) \in Requests
      BY <1>1, NextRequest DEF RecvSelectSend
    <2>3. Len(marlinFrom) < Capacity /\ dropped' = dropped /\ worker' = worker
      BY <1>1 DEF RecvSelectSend
    <2> QED
      BY <1>t, <2>1, <2>2, <2>3, AppendOne DEF FromTypes, WorkerInv
  <1>2. ASSUME NEW g \in Conns, RecvDrop(g) PROVE FromTypes'
    <2>1. marlinFrom # << >> /\ marlinFrom' = Tail(marlinFrom) /\ worker' = worker
          /\ dropped' = dropped \union {Head(marlinFrom)}
      BY <1>2 DEF RecvDrop
    <2>2. Head(marlinFrom) \in Requests /\ Tail(marlinFrom) \in Seq(Requests)
          /\ Len(Tail(marlinFrom)) <= Capacity
      BY <1>t, <2>1, HeadTail
    <2> QED
      BY <1>t, <2>1, <2>2 DEF FromTypes, WorkerInv
  <1>3. ASSUME NEW g \in Conns, RecvPut(g) PROVE FromTypes'
    <2>1. handler[g].request \in Requests
      BY <1>3 DEF RecvPut, IInv, HandlerInv, Hands
    <2>2. Len(marlinFrom) < Capacity /\ dropped' = dropped /\ worker' = worker
          /\ marlinFrom' = Append(marlinFrom, handler[g].request)
      BY <1>3 DEF RecvPut
    <2> QED
      BY <1>t, <2>1, <2>2, AppendOne DEF FromTypes, WorkerInv
  <1>4. ASSUME NEW w \in Workers, WorkerTake(w) PROVE FromTypes'
    <2> DEFINE q == [pc |-> IF Head(marlinFrom).content \in Bundles THEN "first" ELSE "judge",
                     request |-> Head(marlinFrom)]
    <2>1. marlinFrom # << >> /\ marlinFrom' = Tail(marlinFrom) /\ dropped' = dropped
          /\ worker' = [worker EXCEPT ![w] = q]
      BY <1>4 DEF WorkerTake
    <2>2. Head(marlinFrom) \in Requests /\ Tail(marlinFrom) \in Seq(Requests)
          /\ Len(Tail(marlinFrom)) <= Capacity
      BY <1>t, <2>1, HeadTail
    <2>3. /\ q \in [pc : {"idle", "first", "second", "judge"},
                    request : Requests \union {NoRequest}]
          /\ q.pc # "idle" /\ q.request \in Requests
      BY <2>2
    <2> HIDE DEF q
    <2>4. /\ worker' \in [Workers -> [pc : {"idle", "first", "second", "judge"},
                                      request : Requests \union {NoRequest}]]
          /\ WorkerInv'
      BY <1>t, <2>1, <2>3, UpdateWorker
    <2> QED
      BY <1>t, <2>1, <2>2, <2>4 DEF FromTypes
  <1>5. ASSUME NEW w \in Workers, WorkerDecodes(w) \/ WorkerCannotDecode(w) PROVE FromTypes'
    <2>1. PICK r \in [pc : {"idle", "first", "second", "judge"},
                      request : Requests \union {NoRequest}] : r = worker[w]
      BY <1>t DEF FromTypes
    <2> DEFINE q == [r EXCEPT !.pc = AfterDecoding(r.pc)]
    <2>2. r.pc \in {"first", "second"} /\ worker' = [worker EXCEPT ![w] = q]
          /\ UNCHANGED <<marlinFrom, dropped>>
      BY <1>5, <1>t, <2>1 DEF WorkerDecodes, WorkerCannotDecode, FromTypes
    <2>3. r.request \in Requests
      BY <1>t, <2>1, <2>2 DEF FromTypes, WorkerInv
    <2>4. AfterDecoding(r.pc) \in {"second", "judge"}
      BY <2>2 DEF AfterDecoding
    <2>5. /\ q \in [pc : {"idle", "first", "second", "judge"},
                    request : Requests \union {NoRequest}]
          /\ q.pc # "idle" /\ q.request \in Requests
      BY <2>3, <2>4
    <2> HIDE DEF q
    <2>6. /\ worker' \in [Workers -> [pc : {"idle", "first", "second", "judge"},
                                      request : Requests \union {NoRequest}]]
          /\ WorkerInv'
      BY <1>t, <2>2, <2>5, UpdateWorker
    <2> QED
      BY <1>t, <2>2, <2>6 DEF FromTypes
  <1>6. ASSUME NEW w \in Workers, WorkerJudge(w) PROVE FromTypes'
    <2> DEFINE q == [pc |-> "idle", request |-> NoRequest]
    <2>1. worker' = [worker EXCEPT ![w] = q] /\ UNCHANGED <<marlinFrom, dropped>>
      BY <1>6 DEF WorkerJudge
    <2>2. /\ q \in [pc : {"idle", "first", "second", "judge"},
                    request : Requests \union {NoRequest}]
          /\ q.pc = "idle" /\ q.request = NoRequest
      OBVIOUS
    <2> HIDE DEF q
    <2>3. /\ worker' \in [Workers -> [pc : {"idle", "first", "second", "judge"},
                                      request : Requests \union {NoRequest}]]
          /\ WorkerInv'
      BY <1>t, <2>1, <2>2, UpdateWorker
    <2> QED
      BY <1>t, <2>1, <2>3 DEF FromTypes
  <1>7. ASSUME NEW g \in Conns,
               \/ RecvShutdown(g) \/ RecvRead(g) \/ RecvIgnored(g) \/ RecvUndecodable(g)
               \/ RecvDeny(g) \/ RecvSelectDefault(g) \/ RecvFails(g) \/ RecvSignal(g)
        PROVE  FromTypes'
    <2>1. UNCHANGED fromVars
      BY <1>7 DEF RecvShutdown, RecvRead, RecvIgnored, RecvUndecodable, RecvDeny,
         RecvSelectDefault, RecvFails, RecvSignal
    <2> QED
      BY <1>t, <2>1 DEF fromVars, FromTypes, WorkerInv
  <1>8. ASSUME NEW g \in Conns, sendRoutineSpamFilter(g) \/ GatewayAsks(g) \/ LinkFails(g)
        PROVE  FromTypes'
    <2>1. UNCHANGED fromVars
      BY <1>8 DEF sendRoutineSpamFilter, SendTake, SendShutdown, SendRequeue, SendDiscard,
         SendEncode, SendWrite, SendWriteFails, SendSignal, GatewayAsks, LinkFails
    <2> QED
      BY <1>t, <2>1 DEF fromVars, FromTypes, WorkerInv
  <1>9. ASSUME \/ RunSpamFilterHandler \/ AllowServicedChainMessages \/ UNCHANGED vars
               \/ \E w \in Workers : WorkerPanics(w)
        PROVE  FromTypes'
    <2>1. UNCHANGED fromVars
      BY <1>9 DEF RunSpamFilterHandler, Listen, ListenFails, ClosePanics, Accept,
         AcceptFails, ConnErrorSeen, ShutSend, ShutRecv, Reattempt,
         AllowServicedChainMessages, WorkerPanics, vars
    <2> QED
      BY <1>t, <2>1 DEF fromVars, FromTypes, WorkerInv
  <1> QED
    BY <1>1, <1>2, <1>3, <1>4, <1>5, <1>6, <1>7, <1>8, <1>9
       DEF Next, recvRoutineSpamFilter, beginServicingSpamFilter

(* Every step keeps the types of marlinTo and of what became of verdicts.  *)
LEMMA StepTo == IInv /\ [Next]_vars => ToTypes'
  <1> SUFFICES ASSUME IInv, [Next]_vars PROVE ToTypes'
    OBVIOUS
  <1>t. /\ ToTypes /\ FromTypes /\ marlinTo \in Seq(Verdicts) /\ Len(marlinTo) <= Capacity
        /\ Len(marlinTo) \in Nat /\ lost \subseteq Verdicts /\ written \in [Conns -> Seq(Verdicts)]
        /\ \A g \in Conns : handler[g].send \in {"check", "requeue", "write"} =>
             handler[g].verdict \in Verdicts
    BY Parts DEF ToTypes, HandlerInv, Hands
  <1>a. ASSUME NEW v \in Verdicts, Len(marlinTo) < Capacity, marlinTo' = Append(marlinTo, v),
               UNCHANGED <<written, lost>>
        PROVE  ToTypes'
    BY <1>t, <1>a, AppendOne DEF ToTypes
  <1>1. ASSUME NEW g \in Conns, SendTake(g) PROVE ToTypes'
    <2>1. marlinTo # << >> /\ marlinTo' = Tail(marlinTo) /\ UNCHANGED <<written, lost>>
      BY <1>1 DEF SendTake
    <2>2. Tail(marlinTo) \in Seq(Verdicts) /\ Len(Tail(marlinTo)) <= Capacity
      BY <1>t, <2>1, HeadTail
    <2> QED
      BY <1>t, <2>1, <2>2 DEF ToTypes
  <1>2. ASSUME NEW g \in Conns, SendRequeue(g) PROVE ToTypes'
    BY <1>2, <1>t, <1>a DEF SendRequeue
  <1>3. ASSUME NEW g \in Conns, SendDiscard(g) \/ SendWriteFails(g) PROVE ToTypes'
    <2>1. /\ lost' = lost \union {handler[g].verdict} /\ UNCHANGED <<marlinTo, written>>
          /\ handler[g].verdict \in Verdicts
      BY <1>3, <1>t DEF SendDiscard, SendWriteFails
    <2> QED
      BY <1>t, <2>1 DEF ToTypes
  <1>4. ASSUME NEW g \in Conns, SendWrite(g) PROVE ToTypes'
    <2>1. /\ written' = [written EXCEPT ![g] = Append(written[g], handler[g].verdict)]
          /\ handler[g].verdict \in Verdicts /\ UNCHANGED <<marlinTo, lost>>
      BY <1>4, <1>t DEF SendWrite
    <2>2. Append(written[g], handler[g].verdict) \in Seq(Verdicts)
      BY <1>t, <2>1, AppendOne
    <2> QED
      BY <1>t, <2>1, <2>2 DEF ToTypes
  <1>5. ASSUME NEW g \in Conns, RecvDeny(g) PROVE ToTypes'
    <2>1. handler[g].request \in Requests /\ handler[g].chain \in {"none", "chain"}
      BY <1>5 DEF RecvDeny, IInv, HandlerInv, Hands, HandlerType
    <2>2. Verdict(handler[g].request, "garbled", FALSE, handler[g].chain) \in Verdicts
      BY <2>1 DEF Verdict, Verdicts
    <2> QED
      BY <1>5, <1>a, <2>2 DEF RecvDeny
  <1>6. ASSUME NEW w \in Workers, WorkerCannotDecode(w) \/ WorkerJudge(w) PROVE ToTypes'
    <2>1. PICK allow \in BOOLEAN : SendVerdict(w, allow)
      BY <1>6 DEF WorkerCannotDecode, WorkerJudge
    <2>2. worker[w].pc \in {"first", "second", "judge"} /\ UNCHANGED <<written, lost>>
      BY <1>6 DEF WorkerCannotDecode, WorkerJudge
    <2>3. worker[w].request \in Requests
      BY <1>t, <2>2 DEF FromTypes, WorkerInv
    <2>4. Verdict(worker[w].request, worker[w].pc, allow, "chain") \in Verdicts
      BY <2>2, <2>3 DEF Verdict, Verdicts
    <2> QED
      BY <1>a, <2>1, <2>2, <2>4 DEF SendVerdict
  <1>7. ASSUME NEW g \in Conns,
               \/ SendShutdown(g) \/ SendEncode(g) \/ SendSignal(g) \/ GatewayAsks(g)
               \/ LinkFails(g) \/ RecvShutdown(g) \/ RecvRead(g) \/ RecvIgnored(g)
               \/ RecvUndecodable(g) \/ RecvSelectSend(g) \/ RecvSelectDefault(g)
               \/ RecvDrop(g) \/ RecvPut(g) \/ RecvFails(g) \/ RecvSignal(g)
        PROVE  ToTypes'
    <2>1. UNCHANGED toVars
      BY <1>7 DEF SendShutdown, SendEncode, SendSignal, GatewayAsks, LinkFails,
         RecvShutdown, RecvRead, RecvIgnored, RecvUndecodable, RecvSelectSend,
         RecvSelectDefault, RecvDrop, RecvPut, RecvFails, RecvSignal
    <2> QED
      BY <1>t, <2>1 DEF toVars, ToTypes
  <1>8. ASSUME \/ RunSpamFilterHandler \/ AllowServicedChainMessages \/ UNCHANGED vars
               \/ \E w \in Workers : WorkerTake(w) \/ WorkerDecodes(w) \/ WorkerPanics(w)
        PROVE  ToTypes'
    <2>1. UNCHANGED toVars
      BY <1>8 DEF RunSpamFilterHandler, Listen, ListenFails, ClosePanics, Accept,
         AcceptFails, ConnErrorSeen, ShutSend, ShutRecv, Reattempt,
         AllowServicedChainMessages, WorkerTake, WorkerDecodes, WorkerPanics, vars
    <2> QED
      BY <1>t, <2>1 DEF toVars, ToTypes
  <1> QED
    BY <1>1, <1>2, <1>3, <1>4, <1>5, <1>6, <1>7, <1>8
       DEF Next, sendRoutineSpamFilter, recvRoutineSpamFilter, beginServicingSpamFilter

LEMMA InitInv == Init => IInv
  <1> SUFFICES ASSUME Init PROVE IInv
    OBVIOUS
  <1>1. NewHandler \in HandlerType /\ Hands(NewHandler)
        /\ NewHandler.unread + NewHandler.read <= 0
        /\ NewHandler.recv = "none" /\ NewHandler.send = "none"
    BY DEF NewHandler, HandlerType, Hands
  <1>2. handler = [g \in Conns |-> NewHandler] /\ asked = 0
    BY DEF Init
  <1>3. HandlerInv
    BY <1>1, <1>2 DEF HandlerInv
  <1>4. Supervising
    <2>1. 0 \in 0..MaxConns /\ 0 \in 0..MaxRequests
      OBVIOUS
    <2> QED
      BY <2>1 DEF Init, Supervising
  <1>5. FromTypes
    BY DEF Init, FromTypes, WorkerInv
  <1>6. ToTypes
    BY DEF Init, ToTypes
  <1> QED
    BY <1>3, <1>4, <1>5, <1>6, Parts

LEMMA Invariant == Spec => []IInv
  <1>1. IInv /\ [Next]_vars => IInv'
    <2>1. (Supervising /\ HandlerInv /\ FromTypes /\ ToTypes)' => IInv'
      BY DEF IInv, TypeOK, Supervising, HandlerInv, FromTypes, ToTypes
    <2> QED
      BY <2>1, StepSupervising, StepHandlers, StepFrom, StepTo
  <1> QED
    BY InitInv, <1>1, PTL DEF Spec

(* For any number of workers, connections and requests, every variable     *)
(* keeps its type and neither channel ever holds more than its capacity.   *)
THEOREM TypeCorrect == Spec => []TypeOK
  <1>1. IInv => TypeOK
    BY DEF IInv
  <1> QED
    BY Invariant, <1>1, PTL

-------------------------------------------------------------------------------
(* Where the requests are.  Each kind of place is a function from its      *)
(* places to the request there, Nothing where there is none.               *)

Nothing == <<0, 0>>
Key(r) == <<r.from, r.n>>
EndKey(v) == IF v.step \in {"garbled", "judge"} THEN Key(v.request) ELSE Nothing

Keys(f) == {f[x] : x \in DOMAIN f} \ {Nothing}
Distinct(f) == \A x, y \in DOMAIN f : f[x] = f[y] /\ f[x] # Nothing => x = y

RecvAt == [h \in Conns |-> Key(handler[h].request)]
WorkerAt == [w \in Workers |-> Key(worker[w].request)]
FromAt == [i \in DOMAIN marlinFrom |-> Key(marlinFrom[i])]
DroppedAt == [r \in dropped |-> Key(r)]
ToAt == [i \in DOMAIN marlinTo |-> EndKey(marlinTo[i])]
SendAt == [h \in Conns |-> EndKey(handler[h].verdict)]
LostAt == [v \in lost |-> EndKey(v)]
WritingPlaces == UNION {{<<h, i>> : i \in DOMAIN written[h]} : h \in Conns}
WrittenAt == [x \in WritingPlaces |-> EndKey(written[x[1]][x[2]])]

Kinds == {"recv", "worker", "marlinFrom", "dropped", "marlinTo", "send", "lost", "written"}
Where ==
    [p \in Kinds |->
       CASE p = "recv" -> RecvAt [] p = "worker" -> WorkerAt
         [] p = "marlinFrom" -> FromAt [] p = "dropped" -> DroppedAt
         [] p = "marlinTo" -> ToAt [] p = "send" -> SendAt
         [] p = "lost" -> LostAt [] p = "written" -> WrittenAt]

ReadKeys == UNION {{<<g, n>> : n \in 1..handler[g].read} : g \in Conns}

Placed(at, keys) ==
    /\ \A p \in Kinds : Distinct(at[p])
    /\ \A p, q \in Kinds : Keys(at[p]) \intersect Keys(at[q]) # {} => p = q
    /\ UNION {Keys(at[p]) : p \in Kinds} = keys

PlaceInv == Placed(Where, ReadKeys)

(* What a verdict that allows comes from, and that there is no other one   *)
(* to such a request.                                                      *)
Sound(v) ==
    /\ v.allow => v.step = "judge" /\ v.request.content \in {"vote", "block"}
    /\ v.request.content \in {"vote", "block"} => v.step = "judge"

SoundVerdicts == {v \in Verdicts : Sound(v)}
VerdictInv ==
    /\ marlinTo \in Seq(SoundVerdicts) /\ written \in [Conns -> Seq(SoundVerdicts)]
    /\ \A g \in Conns : handler[g].verdict \in SoundVerdicts \union {NoVerdict}

-------------------------------------------------------------------------------
(* From one kind of place a request leaves, and at one it arrives.         *)

Leaves(f, g, k) ==
    k \in Keys(f) \union {Nothing} /\ Keys(g) = Keys(f) \ {k} /\ Distinct(g)
Arrives(f, g, k) ==
    Keys(g) = (Keys(f) \union {k}) \ {Nothing} /\ (k \notin Keys(f) => Distinct(g))

(* A place d more.                                                         *)
LEMMA AddArrives ==
    ASSUME NEW f, NEW g, NEW d, DOMAIN g = DOMAIN f \union {d},
           \A x \in DOMAIN f : g[x] = f[x], Distinct(f)
    PROVE  Arrives(f, g, g[d])
  <1>1. Keys(g) = (Keys(f) \union {g[d]}) \ {Nothing}
    BY DEF Keys
  <1>2. ASSUME g[d] \notin Keys(f) PROVE Distinct(g)
    <2> SUFFICES ASSUME NEW x \in DOMAIN g, NEW y \in DOMAIN g, g[x] = g[y], g[x] # Nothing
                 PROVE  x = y
      BY DEF Distinct
    <2>1. \A z \in DOMAIN f : g[z] = g[d] => g[z] = Nothing
      BY <1>2 DEF Keys
    <2> QED
      BY <2>1 DEF Distinct
  <1> QED
    BY <1>1, <1>2 DEF Arrives

(* The first of n places is given up, and the others move.                 *)
LEMMA FirstLeaves ==
    ASSUME NEW n \in Nat \ {0}, NEW f, NEW g, DOMAIN f = 1..n, DOMAIN g = 1..(n - 1),
           \A i \in 1..(n - 1) : g[i] = f[i + 1], Distinct(f)
    PROVE  Leaves(f, g, f[1])
  <1>0. 1 \in 1..n
    OBVIOUS
  <1>1. f[1] \in Keys(f) \union {Nothing}
    BY <1>0 DEF Keys
  <1>2. Distinct(g)
    BY DEF Distinct
  <1>3. ASSUME NEW x \in Keys(g) PROVE x \in Keys(f) \ {f[1]}
    <2>1. PICK i \in 1..(n - 1) : x = f[i + 1] /\ x # Nothing
      BY DEF Keys
    <2>2. i + 1 \in 1..n /\ i + 1 # 1
      OBVIOUS
    <2> QED
      BY <1>0, <2>1, <2>2 DEF Keys, Distinct
  <1>4. ASSUME NEW x \in Keys(f) \ {f[1]} PROVE x \in Keys(g)
    <2>1. PICK i \in 1..n : x = f[i] /\ x # Nothing
      BY DEF Keys
    <2>2. i # 1
      BY <1>4, <2>1
    <2>3. i - 1 \in 1..(n - 1) /\ (i - 1) + 1 = i
      BY <2>2
    <2>4. g[i - 1] = x
      BY <2>1, <2>3
    <2> QED
      BY <2>1, <2>3, <2>4 DEF Keys
  <1> QED
    BY <1>1, <1>2, <1>3, <1>4 DEF Leaves

(* One place of a set of them is emptied, or filled.                       *)
LEMMA OneLeaves ==
    ASSUME NEW D, NEW f, DOMAIN f = D, NEW d \in D, NEW g, DOMAIN g = D,
           \A x \in D \ {d} : g[x] = f[x], g[d] = Nothing, Distinct(f)
    PROVE  Leaves(f, g, f[d])
  <1>1. f[d] \in Keys(f) \union {Nothing}
    BY DEF Keys
  <1>2. Distinct(g)
    BY DEF Distinct
  <1>3. ASSUME NEW x \in Keys(g) PROVE x \in Keys(f) \ {f[d]}
    BY DEF Keys, Distinct
  <1>4. ASSUME NEW x \in Keys(f) \ {f[d]} PROVE x \in Keys(g)
    BY DEF Keys
  <1> QED
    BY <1>1, <1>2, <1>3, <1>4 DEF Leaves

LEMMA OneArrives ==
    ASSUME NEW D, NEW f, DOMAIN f = D, NEW d \in D, NEW g, DOMAIN g = D,
           \A x \in D \ {d} : g[x] = f[x], f[d] = Nothing, Distinct(f)
    PROVE  Arrives(f, g, g[d])
  <1>1. ASSUME NEW x \in Keys(g) PROVE x \in (Keys(f) \union {g[d]}) \ {Nothing}
    BY DEF Keys
  <1>2. ASSUME NEW x \in (Keys(f) \union {g[d]}) \ {Nothing} PROVE x \in Keys(g)
    BY DEF Keys
  <1>3. ASSUME g[d] \notin Keys(f) PROVE Distinct(g)
    <2> SUFFICES ASSUME NEW x \in D, NEW y \in D, g[x] = g[y], g[x] # Nothing
                 PROVE  x = y
      BY DEF Distinct
    <2>1. \A z \in D \ {d} : g[z] = g[d] => g[z] = Nothing
      BY <1>3 DEF Keys
    <2> QED
      BY <2>1 DEF Distinct
  <1> QED
    BY <1>1, <1>2, <1>3 DEF Arrives

(* A request that goes from one kind of place to another is still in one,  *)
(* and so is a new one that comes to a place.                              *)
LEMMA Moves ==
    ASSUME NEW at, NEW bt, NEW keys, Placed(at, keys), NEW a \in Kinds, NEW b \in Kinds,
           a # b, NEW k, Leaves(at[a], bt[a], k), Arrives(at[b], bt[b], k),
           \A p \in Kinds \ {a, b} : bt[p] = at[p]
    PROVE  Placed(bt, keys)
  <1>1. Nothing \notin Keys(at[b])
    BY DEF Keys
  <1>2. k \notin Keys(at[b])
    BY <1>1 DEF Leaves, Placed
  <1>3. Distinct(bt[a]) /\ Distinct(bt[b])
    BY <1>2 DEF Leaves, Arrives
  <1>4. \A p \in Kinds : Distinct(bt[p])
    BY <1>3 DEF Placed
  <1>5. ASSUME NEW p \in Kinds, NEW x
        PROVE  x \in Keys(bt[p]) <=>
                 IF x = k /\ x # Nothing THEN p = b ELSE x \in Keys(at[p])
    <2>1. Nothing \notin Keys(at[p])
      BY DEF Keys
    <2>2. CASE p = a
      BY <2>1, <2>2 DEF Leaves
    <2>3. CASE p = b
      BY <2>1, <2>3 DEF Arrives
    <2>4. CASE p # a /\ p # b
      BY <2>1, <2>4 DEF Leaves, Placed
    <2> QED
      BY <2>2, <2>3, <2>4
  <1>6. \A p, q \in Kinds : Keys(bt[p]) \intersect Keys(bt[q]) # {} => p = q
    <2> SUFFICES ASSUME NEW p \in Kinds, NEW q \in Kinds, NEW x,
                        x \in Keys(bt[p]), x \in Keys(bt[q])
                 PROVE  p = q
      OBVIOUS
    <2>1. CASE x = k /\ x # Nothing
      BY <1>5, <2>1
    <2>2. CASE ~(x = k /\ x # Nothing)
      <3>1. x \in Keys(at[p]) /\ x \in Keys(at[q])
        BY <1>5, <2>2
      <3> QED
        BY <3>1 DEF Placed
    <2> QED
      BY <2>1, <2>2
  <1>7. ASSUME NEW x
        PROVE  (\E p \in Kinds : x \in Keys(bt[p])) <=> (\E p \in Kinds : x \in Keys(at[p]))
    <2>1. CASE x = k /\ x # Nothing
      <3>1. x \in Keys(at[a]) /\ x \in Keys(bt[b])
        BY <1>5, <2>1 DEF Leaves
      <3> QED
        BY <3>1
    <2>2. CASE ~(x = k /\ x # Nothing)
      BY <1>5, <2>2
    <2> QED
      BY <2>1, <2>2
  <1>8. UNION {Keys(bt[p]) : p \in Kinds} = UNION {Keys(at[p]) : p \in Kinds}
    BY <1>7
  <1> QED
    BY <1>4, <1>6, <1>8 DEF Placed

LEMMA Enters ==
    ASSUME NEW at, NEW bt, NEW keys, Placed(at, keys), NEW b \in Kinds,
           NEW k, k # Nothing, k \notin keys, Arrives(at[b], bt[b], k),
           \A p \in Kinds \ {b} : bt[p] = at[p]
    PROVE  Placed(bt, keys \union {k})
  <1>1. \A p \in Kinds : k \notin Keys(at[p]) /\ Nothing \notin Keys(at[p])
    BY DEF Placed, Keys
  <1>2. Distinct(bt[b])
    BY <1>1 DEF Arrives
  <1>3. \A p \in Kinds : Distinct(bt[p])
    BY <1>2 DEF Placed
  <1>4. ASSUME NEW p \in Kinds, NEW x
        PROVE  x \in Keys(bt[p]) <=> (IF x = k THEN p = b ELSE x \in Keys(at[p]))
    BY <1>1 DEF Arrives
  <1>5. \A p, q \in Kinds : Keys(bt[p]) \intersect Keys(bt[q]) # {} => p = q
    <2> SUFFICES ASSUME NEW p \in Kinds, NEW q \in Kinds, NEW x,
                        x \in Keys(bt[p]), x \in Keys(bt[q])
                 PROVE  p = q
      OBVIOUS
    <2>1. CASE x = k
      BY <1>4, <2>1
    <2>2. CASE x # k
      <3>1. x \in Keys(at[p]) /\ x \in Keys(at[q])
        BY <1>4, <2>2
      <3> QED
        BY <3>1 DEF Placed
    <2> QED
      BY <2>1, <2>2
  <1>6. ASSUME NEW x
        PROVE  (\E p \in Kinds : x \in Keys(bt[p]))
                 <=> x = k \/ (\E p \in Kinds : x \in Keys(at[p]))
    BY <1>4
  <1>7. ASSUME NEW x PROVE x \in UNION {Keys(bt[p]) : p \in Kinds} <=> x \in keys \union {k}
    <2>1. x \in keys <=> \E p \in Kinds : x \in Keys(at[p])
      BY DEF Placed
    <2>2. x \in UNION {Keys(bt[p]) : p \in Kinds} <=> \E p \in Kinds : x \in Keys(bt[p])
      OBVIOUS
    <2> QED
      BY <1>6, <2>1, <2>2
  <1>8. UNION {Keys(bt[p]) : p \in Kinds} = keys \union {k}
    BY <1>7
  <1> QED
    BY <1>3, <1>5, <1>8 DEF Placed

(* The two channels, when a request or a verdict is taken or sent.         *)
LEMMA FromLeaves ==
    ASSUME marlinFrom \in Seq(Requests), marlinFrom # << >>, Distinct(FromAt),
           marlinFrom' = Tail(marlinFrom)
    PROVE  Leaves(FromAt, FromAt', Key(Head(marlinFrom)))
  <1>1. /\ Len(marlinFrom) \in Nat \ {0} /\ DOMAIN marlinFrom = 1..Len(marlinFrom)
        /\ DOMAIN Tail(marlinFrom) = 1..(Len(marlinFrom) - 1)
        /\ Head(marlinFrom) = marlinFrom[1]
        /\ \A i \in 1..(Len(marlinFrom) - 1) : Tail(marlinFrom)[i] = marlinFrom[i + 1]
    OBVIOUS
  <1>2. /\ DOMAIN FromAt = 1..Len(marlinFrom) /\ DOMAIN FromAt' = 1..(Len(marlinFrom) - 1)
        /\ FromAt[1] = Key(Head(marlinFrom))
        /\ \A i \in 1..(Len(marlinFrom) - 1) : FromAt'[i] = FromAt[i + 1]
    BY <1>1 DEF FromAt
  <1> QED
    BY <1>1, <1>2, FirstLeaves

LEMMA FromArrives ==
    ASSUME marlinFrom \in Seq(Requests), Distinct(FromAt), NEW r,
           marlinFrom' = Append(marlinFrom, r)
    PROVE  Arrives(FromAt, FromAt', Key(r))
  <1>1. /\ Len(marlinFrom) \in Nat /\ DOMAIN marlinFrom = 1..Len(marlinFrom)
        /\ DOMAIN Append(marlinFrom, r) = 1..(Len(marlinFrom) + 1)
        /\ Append(marlinFrom, r)[Len(marlinFrom) + 1] = r
        /\ \A i \in 1..Len(marlinFrom) : Append(marlinFrom, r)[i] = marlinFrom[i]
    OBVIOUS
  <1>2. 1..(Len(marlinFrom) + 1) = (1..Len(marlinFrom)) \union {Len(marlinFrom) + 1}
    BY <1>1
  <1>3. /\ DOMAIN FromAt' = DOMAIN FromAt \union {Len(marlinFrom) + 1}
        /\ FromAt'[Len(marlinFrom) + 1] = Key(r)
        /\ \A i \in DOMAIN FromAt : FromAt'[i] = FromAt[i]
    BY <1>1, <1>2 DEF FromAt
  <1> QED
    BY <1>3, AddArrives

LEMMA ToLeaves ==
    ASSUME marlinTo \in Seq(Verdicts), marlinTo # << >>, Distinct(ToAt),
           marlinTo' = Tail(marlinTo)
    PROVE  Leaves(ToAt, ToAt', EndKey(Head(marlinTo)))
  <1>1. /\ Len(marlinTo) \in Nat \ {0} /\ DOMAIN marlinTo = 1..Len(marlinTo)
        /\ DOMAIN Tail(marlinTo) = 1..(Len(marlinTo) - 1)
        /\ Head(marlinTo) = marlinTo[1]
        /\ \A i \in 1..(Len(marlinTo) - 1) : Tail(marlinTo)[i] = marlinTo[i + 1]
    OBVIOUS
  <1>2. /\ DOMAIN ToAt = 1..Len(marlinTo) /\ DOMAIN ToAt' = 1..(Len(marlinTo) - 1)
        /\ ToAt[1] = EndKey(Head(marlinTo))
        /\ \A i \in 1..(Len(marlinTo) - 1) : ToAt'[i] = ToAt[i + 1]
    BY <1>1 DEF ToAt
  <1> QED
    BY <1>1, <1>2, FirstLeaves

LEMMA ToArrives ==
    ASSUME marlinTo \in Seq(Verdicts), Distinct(ToAt), NEW v,
           marlinTo' = Append(marlinTo, v)
    PROVE  Arrives(ToAt, ToAt', EndKey(v))
  <1>1. /\ Len(marlinTo) \in Nat /\ DOMAIN marlinTo = 1..Len(marlinTo)
        /\ DOMAIN Append(marlinTo, v) = 1..(Len(marlinTo) + 1)
        /\ Append(marlinTo, v)[Len(marlinTo) + 1] = v
        /\ \A i \in 1..Len(marlinTo) : Append(marlinTo, v)[i] = marlinTo[i]
    OBVIOUS
  <1>2. 1..(Len(marlinTo) + 1) = (1..Len(marlinTo)) \union {Len(marlinTo) + 1}
    BY <1>1
  <1>3. /\ DOMAIN ToAt' = DOMAIN ToAt \union {Len(marlinTo) + 1}
        /\ ToAt'[Len(marlinTo) + 1] = EndKey(v)
        /\ \A i \in DOMAIN ToAt : ToAt'[i] = ToAt[i]
    BY <1>1, <1>2 DEF ToAt
  <1> QED
    BY <1>3, AddArrives

(* The hands of the receiving and of the sending routines.                 *)
LEMMA RecvLeaves ==
    ASSUME NEW g \in Conns, handler'[g].request = NoRequest, Distinct(RecvAt),
           \A h \in Conns \ {g} : handler'[h].request = handler[h].request
    PROVE  Leaves(RecvAt, RecvAt', Key(handler[g].request))
  <1>1. /\ DOMAIN RecvAt = Conns /\ DOMAIN RecvAt' = Conns
        /\ RecvAt[g] = Key(handler[g].request)
        /\ \A h \in Conns \ {g} : RecvAt'[h] = RecvAt[h]
    BY DEF RecvAt
  <1>2. RecvAt'[g] = Nothing
    BY DEF RecvAt, Key, NoRequest, Request, Nothing
  <1> QED
    BY <1>1, <1>2, OneLeaves

LEMMA RecvArrives ==
    ASSUME NEW g \in Conns, handler[g].request = NoRequest, Distinct(RecvAt),
           \A h \in Conns \ {g} : handler'[h].request = handler[h].request
    PROVE  Arrives(RecvAt, RecvAt', Key(handler'[g].request))
  <1>1. /\ DOMAIN RecvAt = Conns /\ DOMAIN RecvAt' = Conns
        /\ RecvAt'[g] = Key(handler'[g].request)
        /\ \A h \in Conns \ {g} : RecvAt'[h] = RecvAt[h]
    BY DEF RecvAt
  <1>2. RecvAt[g] = Nothing
    BY DEF RecvAt, Key, NoRequest, Request, Nothing
  <1> QED
    BY <1>1, <1>2, OneArrives

LEMMA SendLeaves ==
    ASSUME NEW g \in Conns, handler'[g].verdict = NoVerdict, Distinct(SendAt),
           \A h \in Conns \ {g} : handler'[h].verdict = handler[h].verdict
    PROVE  Leaves(SendAt, SendAt', EndKey(handler[g].verdict))
  <1>1. /\ DOMAIN SendAt = Conns /\ DOMAIN SendAt' = Conns
        /\ SendAt[g] = EndKey(handler[g].verdict)
        /\ \A h \in Conns \ {g} : SendAt'[h] = SendAt[h]
    BY DEF SendAt
  <1>2. SendAt'[g] = Nothing
    BY DEF SendAt, EndKey, NoVerdict, Verdict, Nothing
  <1> QED
    BY <1>1, <1>2, OneLeaves

LEMMA SendArrives ==
    ASSUME NEW g \in Conns, handler[g].verdict = NoVerdict, Distinct(SendAt),
           \A h \in Conns \ {g} : handler'[h].verdict = handler[h].verdict
    PROVE  Arrives(SendAt, SendAt', EndKey(handler'[g].verdict))
  <1>1. /\ DOMAIN SendAt = Conns /\ DOMAIN SendAt' = Conns
        /\ SendAt'[g] = EndKey(handler'[g].verdict)
        /\ \A h \in Conns \ {g} : SendAt'[h] = SendAt[h]
    BY DEF SendAt
  <1>2. SendAt[g] = Nothing
    BY DEF SendAt, EndKey, NoVerdict, Verdict, Nothing
  <1> QED
    BY <1>1, <1>2, OneArrives

(* A worker gives its request up, or takes one.                            *)
LEMMA WorkerLeaves ==
    ASSUME FromTypes, NEW w \in Workers, Distinct(WorkerAt),
           worker' = [worker EXCEPT ![w] = [pc |-> "idle", request |-> NoRequest]]
    PROVE  Leaves(WorkerAt, WorkerAt', Key(worker[w].request))
  <1>1. /\ DOMAIN WorkerAt = Workers /\ DOMAIN WorkerAt' = Workers
        /\ WorkerAt[w] = Key(worker[w].request)
        /\ \A h \in Workers \ {w} : WorkerAt'[h] = WorkerAt[h]
    BY DEF WorkerAt, FromTypes
  <1>2. WorkerAt'[w] = Nothing
    BY DEF WorkerAt, FromTypes, Key, NoRequest, Request, Nothing
  <1> QED
    BY <1>1, <1>2, OneLeaves

LEMMA WorkerArrives ==
    ASSUME FromTypes, NEW w \in Workers, Distinct(WorkerAt), worker[w].request = NoRequest,
           NEW pc, NEW r, worker' = [worker EXCEPT ![w] = [pc |-> pc, request |-> r]]
    PROVE  Arrives(WorkerAt, WorkerAt', Key(r))
  <1>1. /\ DOMAIN WorkerAt = Workers /\ DOMAIN WorkerAt' = Workers
        /\ WorkerAt'[w] = Key(r)
        /\ \A h \in Workers \ {w} : WorkerAt'[h] = WorkerAt[h]
    BY DEF WorkerAt, FromTypes
  <1>2. WorkerAt[w] = Nothing
    BY DEF WorkerAt, FromTypes, Key, NoRequest, Request, Nothing
  <1> QED
    BY <1>1, <1>2, OneArrives

(* Thrown away, lost, and written: nothing leaves from there.              *)
LEMMA DroppedArrives ==
    ASSUME Distinct(DroppedAt), NEW r, dropped' = dropped \union {r}
    PROVE  Arrives(DroppedAt, DroppedAt', Key(r))
  <1>1. /\ DOMAIN DroppedAt' = DOMAIN DroppedAt \union {r} /\ DroppedAt'[r] = Key(r)
        /\ \A x \in DOMAIN DroppedAt : DroppedAt'[x] = DroppedAt[x]
    BY DEF DroppedAt
  <1> QED
    BY <1>1, AddArrives

LEMMA LostArrives ==
    ASSUME Distinct(LostAt), NEW v, lost' = lost \union {v}
    PROVE  Arrives(LostAt, LostAt', EndKey(v))
  <1>1. /\ DOMAIN LostAt' = DOMAIN LostAt \union {v} /\ LostAt'[v] = EndKey(v)
        /\ \A x \in DOMAIN LostAt : LostAt'[x] = LostAt[x]
    BY DEF LostAt
  <1> QED
    BY <1>1, AddArrives

LEMMA WrittenArrives ==
    ASSUME Distinct(WrittenAt), ToTypes, NEW g \in Conns, NEW v,
           written' = [written EXCEPT ![g] = Append(written[g], v)]
    PROVE  Arrives(WrittenAt, WrittenAt', EndKey(v))
  <1> DEFINE n == Len(written[g]) + 1
  <1>1. /\ written[g] \in Seq(Verdicts) /\ DOMAIN written = Conns
        /\ n \in Nat /\ DOMAIN written[g] = 1..(n - 1) /\ DOMAIN Append(written[g], v) = 1..n
        /\ Append(written[g], v)[n] = v
        /\ \A i \in 1..(n - 1) : Append(written[g], v)[i] = written[g][i]
    BY DEF ToTypes
  <1>2. 1..n = (1..(n - 1)) \union {n}
    BY <1>1
  <1> HIDE DEF n
  <1>3. ASSUME NEW h \in Conns
        PROVE  /\ DOMAIN written'[h] = DOMAIN written[h] \union (IF h = g THEN {n} ELSE {})
               /\ \A i \in DOMAIN written[h] : written'[h][i] = written[h][i]
    BY <1>1, <1>2
  <1>4. ASSUME NEW x PROVE x \in WritingPlaces' <=> x \in WritingPlaces \union {<<g, n>>}
    <2>1. x \in WritingPlaces' <=> \E h \in Conns : \E i \in DOMAIN written'[h] : x = <<h, i>>
      BY DEF WritingPlaces
    <2>2. x \in WritingPlaces <=> \E h \in Conns : \E i \in DOMAIN written[h] : x = <<h, i>>
      BY DEF WritingPlaces
    <2> QED
      BY <1>3, <2>1, <2>2
  <1>5. WritingPlaces' = WritingPlaces \union {<<g, n>>}
    BY <1>4
  <1>6. ASSUME NEW x \in WritingPlaces PROVE WrittenAt'[x] = WrittenAt[x]
    <2>0. PICK h \in Conns : \E i \in DOMAIN written[h] : x = <<h, i>>
      BY DEF WritingPlaces
    <2>1. PICK i \in DOMAIN written[h] : x = <<h, i>>
      BY <2>0
    <2>2. written'[h][i] = written[h][i]
      BY <1>3
    <2>3. x[1] = h /\ x[2] = i
      BY <2>1
    <2> QED
      BY <1>5, <2>2, <2>3 DEF WrittenAt
  <1>7. WrittenAt'[<<g, n>>] = EndKey(v)
    BY <1>1, <1>5 DEF WrittenAt
  <1>8. DOMAIN WrittenAt' = DOMAIN WrittenAt \union {<<g, n>>}
    BY <1>5 DEF WrittenAt
  <1>9. \A x \in DOMAIN WrittenAt : WrittenAt'[x] = WrittenAt[x]
    BY <1>6 DEF WrittenAt
  <1> QED
    BY <1>7, <1>8, <1>9, AddArrives

LEMMA WhereIs ==
    /\ Where["recv"] = RecvAt /\ Where["worker"] = WorkerAt
    /\ Where["marlinFrom"] = FromAt /\ Where["dropped"] = DroppedAt
    /\ Where["marlinTo"] = ToAt /\ Where["send"] = SendAt
    /\ Where["lost"] = LostAt /\ Where["written"] = WrittenAt
  BY DEF Where, Kinds

LEMMA WhereNext ==
    /\ Where'["recv"] = RecvAt' /\ Where'["worker"] = WorkerAt'
    /\ Where'["marlinFrom"] = FromAt' /\ Where'["dropped"] = DroppedAt'
    /\ Where'["marlinTo"] = ToAt' /\ Where'["send"] = SendAt'
    /\ Where'["lost"] = LostAt' /\ Where'["written"] = WrittenAt'
  BY DEF Where, Kinds

(* A step that moves a request, one that a new request comes with, and one *)
(* that no place sees.                                                     *)
LEMMA StateMoves ==
    ASSUME PlaceInv, NEW a \in Kinds, NEW b \in Kinds, a # b, NEW k,
           Leaves(Where[a], Where'[a], k), Arrives(Where[b], Where'[b], k),
           \A p \in Kinds \ {a, b} : Where'[p] = Where[p], ReadKeys' = ReadKeys
    PROVE  PlaceInv'
  <1>1. Placed(Where, ReadKeys)
    BY DEF PlaceInv
  <1>2. Placed(Where', ReadKeys)
    BY <1>1, Moves
  <1> QED
    BY <1>2 DEF PlaceInv

LEMMA StateEnters ==
    ASSUME PlaceInv, NEW b \in Kinds, NEW k, k # Nothing, k \notin ReadKeys,
           Arrives(Where[b], Where'[b], k), \A p \in Kinds \ {b} : Where'[p] = Where[p],
           ReadKeys' = ReadKeys \union {k}
    PROVE  PlaceInv'
  <1>1. Placed(Where, ReadKeys)
    BY DEF PlaceInv
  <1>2. Placed(Where', ReadKeys \union {k})
    BY <1>1, Enters
  <1> QED
    BY <1>2 DEF PlaceInv

(* One more request was read on connection g.                              *)
LEMMA ReadMore ==
    ASSUME NEW g \in Conns, NEW n \in Nat, handler[g].read = n, handler'[g].read = n + 1,
           \A h \in Conns \ {g} : handler'[h].read = handler[h].read
    PROVE  /\ <<g, n + 1>> # Nothing /\ <<g, n + 1>> \notin ReadKeys
           /\ ReadKeys' = ReadKeys \union {<<g, n + 1>>}
  <1>1. <<g, n + 1>> # Nothing
    BY DEF Nothing, Conns
  <1>2. n + 1 \notin 1..n /\ 1..(n + 1) = (1..n) \union {n + 1}
    OBVIOUS
  <1>3. ASSUME NEW x PROVE x \in ReadKeys' <=> x \in ReadKeys \union {<<g, n + 1>>}
    <2>1. x \in ReadKeys' <=> \E h \in Conns : \E i \in 1..handler'[h].read : x = <<h, i>>
      BY DEF ReadKeys
    <2>2. x \in ReadKeys <=> \E h \in Conns : \E i \in 1..handler[h].read : x = <<h, i>>
      BY DEF ReadKeys
    <2>3. ASSUME NEW h \in Conns, h # g
          PROVE  (\E i \in 1..handler'[h].read : x = <<h, i>>)
                   <=> (\E i \in 1..handler[h].read : x = <<h, i>>)
      BY <2>3
    <2>4. (\E i \in 1..handler'[g].read : x = <<g, i>>)
            <=> (\E i \in 1..handler[g].read : x = <<g, i>>) \/ x = <<g, n + 1>>
      BY <1>2
    <2> QED
      BY <2>1, <2>2, <2>3, <2>4
  <1>4. <<g, n + 1>> \notin ReadKeys
    BY <1>2 DEF ReadKeys
  <1> QED
    BY <1>1, <1>3, <1>4

LEMMA SameHands ==
    ASSUME \A h \in Conns : /\ handler'[h].request = handler[h].request
                            /\ handler'[h].verdict = handler[h].verdict
                            /\ handler'[h].read = handler[h].read
    PROVE  RecvAt' = RecvAt /\ SendAt' = SendAt /\ ReadKeys' = ReadKeys
  <1>1. RecvAt' = RecvAt
    BY DEF RecvAt
  <1>2. SendAt' = SendAt
    BY DEF SendAt
  <1>3. ReadKeys' = ReadKeys
    BY DEF ReadKeys
  <1> QED
    BY <1>1, <1>2, <1>3

LEMMA SameFrom ==
    UNCHANGED fromVars => FromAt' = FromAt /\ DroppedAt' = DroppedAt /\ WorkerAt' = WorkerAt
  BY DEF fromVars, FromAt, DroppedAt, WorkerAt

LEMMA SameTo ==
    UNCHANGED toVars => ToAt' = ToAt /\ LostAt' = LostAt /\ WrittenAt' = WrittenAt
  BY DEF toVars, ToAt, LostAt, WrittenAt, WritingPlaces

(* The steps that no place of a request sees.                              *)
LEMMA Unseen ==
    ASSUME PlaceInv, UNCHANGED <<fromVars, toVars>>,
           \A h \in Conns : /\ handler'[h].request = handler[h].request
                            /\ handler'[h].verdict = handler[h].verdict
                            /\ handler'[h].read = handler[h].read
    PROVE  PlaceInv'
  <1>1. UNCHANGED fromVars /\ UNCHANGED toVars
    OBVIOUS
  <1>2. /\ RecvAt' = RecvAt /\ SendAt' = SendAt /\ FromAt' = FromAt /\ DroppedAt' = DroppedAt
        /\ WorkerAt' = WorkerAt /\ ToAt' = ToAt /\ LostAt' = LostAt /\ WrittenAt' = WrittenAt
    BY <1>1, SameHands, SameFrom, SameTo
  <1>3. Where' = Where
    BY <1>2 DEF Where
  <1>4. ReadKeys' = ReadKeys
    BY SameHands
  <1> QED
    BY <1>3, <1>4 DEF PlaceInv

LEMMA StepUnseen ==
    ASSUME IInv, PlaceInv,
           \/ RunSpamFilterHandler \/ AllowServicedChainMessages \/ UNCHANGED vars
           \/ \E w \in Workers : WorkerPanics(w)
           \/ \E g \in Conns :
                \/ SendShutdown(g) \/ SendEncode(g) \/ SendSignal(g) \/ RecvShutdown(g)
                \/ RecvRead(g) \/ RecvIgnored(g) \/ RecvFails(g) \/ RecvSignal(g)
                \/ GatewayAsks(g) \/ LinkFails(g)
    PROVE  PlaceInv'
  <1>t. /\ handler \in [Conns -> HandlerType]
        /\ supPc \in {"watch", "shutSend", "shutRecv"} => conn \in Conns
        /\ supPc = "accept" /\ conn < MaxConns => conn + 1 \in Conns
    BY DEF IInv, TypeOK, Conns
  <1> DEFINE KeptAll == \A h \in Conns : /\ handler'[h].request = handler[h].request
                                      /\ handler'[h].verdict = handler[h].verdict
                                      /\ handler'[h].read = handler[h].read
  <1>1. CASE ConnErrorSeen
    <2>1. KeptAll /\ UNCHANGED <<fromVars, toVars>>
      BY <1>1, <1>t DEF ConnErrorSeen, HandlerType
    <2> QED
      BY <2>1, Unseen
  <1>2. CASE ShutSend
    <2>1. KeptAll /\ UNCHANGED <<fromVars, toVars>>
      BY <1>2, <1>t DEF ShutSend, HandlerType
    <2> QED
      BY <2>1, Unseen
  <1>3. CASE ShutRecv
    <2>1. KeptAll /\ UNCHANGED <<fromVars, toVars>>
      BY <1>3, <1>t DEF ShutRecv, HandlerType
    <2> QED
      BY <2>1, Unseen
  <1>4. CASE Accept
    <2>1. KeptAll /\ UNCHANGED <<fromVars, toVars>>
      BY <1>4, <1>t DEF Accept, HandlerType
    <2> QED
      BY <2>1, Unseen
  <1>5. ASSUME NEW g \in Conns, SendShutdown(g) PROVE PlaceInv'
    <2>1. KeptAll /\ UNCHANGED <<fromVars, toVars>>
      BY <1>5, <1>t DEF SendShutdown, HandlerType
    <2> QED
      BY <2>1, Unseen
  <1>6. ASSUME NEW g \in Conns, SendEncode(g) PROVE PlaceInv'
    <2>1. KeptAll /\ UNCHANGED <<fromVars, toVars>>
      BY <1>6, <1>t DEF SendEncode, HandlerType
    <2> QED
      BY <2>1, Unseen
  <1>7. ASSUME NEW g \in Conns, SendSignal(g) PROVE PlaceInv'
    <2>1. KeptAll /\ UNCHANGED <<fromVars, toVars>>
      BY <1>7, <1>t DEF SendSignal, HandlerType
    <2> QED
      BY <2>1, Unseen
  <1>8. ASSUME NEW g \in Conns, RecvShutdown(g) PROVE PlaceInv'
    <2>1. KeptAll /\ UNCHANGED <<fromVars, toVars>>
      BY <1>8, <1>t DEF RecvShutdown, HandlerType
    <2> QED
      BY <2>1, Unseen
  <1>9. ASSUME NEW g \in Conns, RecvRead(g) PROVE PlaceInv'
    <2>1. KeptAll /\ UNCHANGED <<fromVars, toVars>>
      BY <1>9, <1>t DEF RecvRead, HandlerType
    <2> QED
      BY <2>1, Unseen
  <1>10. ASSUME NEW g \in Conns, RecvIgnored(g) PROVE PlaceInv'
    <2>1. KeptAll /\ UNCHANGED <<fromVars, toVars>>
      BY <1>10, <1>t DEF RecvIgnored, HandlerType
    <2> QED
      BY <2>1, Unseen
  <1>11. ASSUME NEW g \in Conns, RecvFails(g) PROVE PlaceInv'
    <2>1. KeptAll /\ UNCHANGED <<fromVars, toVars>>
      BY <1>11, <1>t DEF RecvFails, HandlerType
    <2> QED
      BY <2>1, Unseen
  <1>12. ASSUME NEW g \in Conns, RecvSignal(g) PROVE PlaceInv'
    <2>1. KeptAll /\ UNCHANGED <<fromVars, toVars>>
      BY <1>12, <1>t DEF RecvSignal, HandlerType
    <2> QED
      BY <2>1, Unseen
  <1>13. ASSUME NEW g \in Conns, GatewayAsks(g) PROVE PlaceInv'
    <2>1. KeptAll /\ UNCHANGED <<fromVars, toVars>>
      BY <1>13, <1>t DEF GatewayAsks, HandlerType
    <2> QED
      BY <2>1, Unseen
  <1>14. ASSUME NEW g \in Conns, LinkFails(g) PROVE PlaceInv'
    <2>1. KeptAll /\ UNCHANGED <<fromVars, toVars>>
      BY <1>14, <1>t DEF LinkFails, HandlerType
    <2> QED
      BY <2>1, Unseen
  <1>15. ASSUME \/ Listen \/ ListenFails \/ ClosePanics \/ AcceptFails \/ Reattempt
               \/ AllowServicedChainMessages \/ UNCHANGED vars
               \/ \E w \in Workers : WorkerPanics(w)
        PROVE  PlaceInv'
    <2>1. UNCHANGED <<handler, fromVars, toVars>>
      BY <1>15 DEF Listen, ListenFails, ClosePanics, AcceptFails, Reattempt,
         AllowServicedChainMessages, WorkerPanics, vars
    <2> QED
      BY <2>1, Unseen
  <1> QED
    BY <1>1, <1>2, <1>3, <1>4, <1>5, <1>6, <1>7, <1>8, <1>9, <1>10, <1>11, <1>12, <1>13, <1>14, <1>15 DEF RunSpamFilterHandler

LEMMA Same ==
    /\ worker' = worker => WorkerAt' = WorkerAt
    /\ marlinFrom' = marlinFrom => FromAt' = FromAt
    /\ dropped' = dropped => DroppedAt' = DroppedAt
    /\ marlinTo' = marlinTo => ToAt' = ToAt
    /\ lost' = lost => LostAt' = LostAt
    /\ written' = written => WrittenAt' = WrittenAt
    /\ handler' = handler => RecvAt' = RecvAt /\ SendAt' = SendAt /\ ReadKeys' = ReadKeys
    /\ (\A h \in Conns : handler'[h].request = handler[h].request) => RecvAt' = RecvAt
    /\ (\A h \in Conns : handler'[h].verdict = handler[h].verdict) => SendAt' = SendAt
    /\ (\A h \in Conns : handler'[h].read = handler[h].read) => ReadKeys' = ReadKeys
  BY DEF WorkerAt, FromAt, DroppedAt, ToAt, LostAt, WrittenAt, WritingPlaces, RecvAt,
     SendAt, ReadKeys

(* Every step moves a request from one kind of place to another, brings a  *)
(* new one to a place, or moves none.                                      *)
LEMMA StepPlaces == IInv /\ PlaceInv /\ [Next]_vars => PlaceInv'
  <1> SUFFICES ASSUME IInv, PlaceInv, [Next]_vars PROVE PlaceInv'
    OBVIOUS
  <1>t. /\ handler \in [Conns -> HandlerType] /\ FromTypes /\ ToTypes
        /\ marlinFrom \in Seq(Requests) /\ marlinTo \in Seq(Verdicts)
        /\ \A h \in Conns : Hands(handler[h]) /\ handler[h].read \in Nat
    BY Parts DEF HandlerInv, FromTypes, ToTypes, HandlerType
  <1>d. /\ Distinct(RecvAt) /\ Distinct(WorkerAt) /\ Distinct(FromAt) /\ Distinct(DroppedAt)
        /\ Distinct(ToAt) /\ Distinct(SendAt) /\ Distinct(LostAt) /\ Distinct(WrittenAt)
    BY WhereIs DEF PlaceInv, Placed, Kinds
  <1>1. ASSUME NEW g \in Conns, SendTake(g) PROVE PlaceInv'
    <2>1. /\ \A h \in Conns : handler'[h].request = handler[h].request
          /\ handler'[g].verdict = Head(marlinTo)
          /\ \A h \in Conns \ {g} : handler'[h].verdict = handler[h].verdict
          /\ \A h \in Conns : handler'[h].read = handler[h].read
      BY <1>1, <1>t DEF SendTake, HandlerType
    <2>2. UNCHANGED <<worker, marlinFrom, dropped, lost, written>>
      BY <1>1 DEF SendTake, fromVars, toVars
    <2>3. RecvAt' = RecvAt /\ WorkerAt' = WorkerAt /\ FromAt' = FromAt /\ DroppedAt' = DroppedAt
          /\ LostAt' = LostAt /\ WrittenAt' = WrittenAt /\ ReadKeys' = ReadKeys
      BY <2>1, <2>2, Same
    <2>4. \A p \in Kinds \ {"marlinTo", "send"} : Where'[p] = Where[p]
      BY <2>3, WhereIs, WhereNext DEF Kinds
    <2>5. Leaves(ToAt, ToAt', EndKey(Head(marlinTo)))
      BY <1>1, <1>t, <1>d, ToLeaves DEF SendTake
    <2>6. Arrives(SendAt, SendAt', EndKey(Head(marlinTo)))
      BY <1>1, <1>t, <1>d, <2>1, SendArrives DEF SendTake, Hands
    <2> QED
      BY <2>3, <2>4, <2>5, <2>6, WhereIs, WhereNext, StateMoves DEF Kinds
  <1>2. ASSUME NEW g \in Conns, SendRequeue(g) PROVE PlaceInv'
    <2>1. /\ \A h \in Conns : handler'[h].request = handler[h].request
          /\ handler'[g].verdict = NoVerdict
          /\ \A h \in Conns \ {g} : handler'[h].verdict = handler[h].verdict
          /\ \A h \in Conns : handler'[h].read = handler[h].read
      BY <1>2, <1>t DEF SendRequeue, HandlerType
    <2>2. UNCHANGED <<worker, marlinFrom, dropped, lost, written>>
      BY <1>2 DEF SendRequeue, fromVars, toVars
    <2>3. RecvAt' = RecvAt /\ WorkerAt' = WorkerAt /\ FromAt' = FromAt /\ DroppedAt' = DroppedAt
          /\ LostAt' = LostAt /\ WrittenAt' = WrittenAt /\ ReadKeys' = ReadKeys
      BY <2>1, <2>2, Same
    <2>4. \A p \in Kinds \ {"send", "marlinTo"} : Where'[p] = Where[p]
      BY <2>3, WhereIs, WhereNext DEF Kinds
    <2>5. Leaves(SendAt, SendAt', EndKey(handler[g].verdict))
      BY <1>d, <2>1, SendLeaves
    <2>6. Arrives(ToAt, ToAt', EndKey(handler[g].verdict))
      BY <1>2, <1>t, <1>d, ToArrives DEF SendRequeue
    <2> QED
      BY <2>3, <2>4, <2>5, <2>6, WhereIs, WhereNext, StateMoves DEF Kinds
  <1>3. ASSUME NEW g \in Conns, SendDiscard(g) PROVE PlaceInv'
    <2>1. /\ \A h \in Conns : handler'[h].request = handler[h].request
          /\ handler'[g].verdict = NoVerdict
          /\ \A h \in Conns \ {g} : handler'[h].verdict = handler[h].verdict
          /\ \A h \in Conns : handler'[h].read = handler[h].read
      BY <1>3, <1>t DEF SendDiscard, HandlerType
    <2>2. UNCHANGED <<worker, marlinFrom, dropped, marlinTo, written>>
      BY <1>3 DEF SendDiscard, fromVars, toVars
    <2>3. RecvAt' = RecvAt /\ WorkerAt' = WorkerAt /\ FromAt' = FromAt /\ DroppedAt' = DroppedAt
          /\ ToAt' = ToAt /\ WrittenAt' = WrittenAt /\ ReadKeys' = ReadKeys
      BY <2>1, <2>2, Same
    <2>4. \A p \in Kinds \ {"send", "lost"} : Where'[p] = Where[p]
      BY <2>3, WhereIs, WhereNext DEF Kinds
    <2>5. Leaves(SendAt, SendAt', EndKey(handler[g].verdict))
      BY <1>d, <2>1, SendLeaves
    <2>6. Arrives(LostAt, LostAt', EndKey(handler[g].verdict))
      BY <1>3, <1>d, LostArrives DEF SendDiscard
    <2> QED
      BY <2>3, <2>4, <2>5, <2>6, WhereIs, WhereNext, StateMoves DEF Kinds
  <1>4. ASSUME NEW g \in Conns, SendWriteFails(g) PROVE PlaceInv'
    <2>1. /\ \A h \in Conns : handler'[h].request = handler[h].request
          /\ handler'[g].verdict = NoVerdict
          /\ \A h \in Conns \ {g} : handler'[h].verdict = handler[h].verdict
          /\ \A h \in Conns : handler'[h].read = handler[h].read
      BY <1>4, <1>t DEF SendWriteFails, HandlerType
    <2>2. UNCHANGED <<worker, marlinFrom, dropped, marlinTo, written>>
      BY <1>4 DEF SendWriteFails, fromVars, toVars
    <2>3. RecvAt' = RecvAt /\ WorkerAt' = WorkerAt /\ FromAt' = FromAt /\ DroppedAt' = DroppedAt
          /\ ToAt' = ToAt /\ WrittenAt' = WrittenAt /\ ReadKeys' = ReadKeys
      BY <2>1, <2>2, Same
    <2>4. \A p \in Kinds \ {"send", "lost"} : Where'[p] = Where[p]
      BY <2>3, WhereIs, WhereNext DEF Kinds
    <2>5. Leaves(SendAt, SendAt', EndKey(handler[g].verdict))
      BY <1>d, <2>1, SendLeaves
    <2>6. Arrives(LostAt, LostAt', EndKey(handler[g].verdict))
      BY <1>4, <1>d, LostArrives DEF SendWriteFails
    <2> QED
      BY <2>3, <2>4, <2>5, <2>6, WhereIs, WhereNext, StateMoves DEF Kinds
  <1>5. ASSUME NEW g \in Conns, SendWrite(g) PROVE PlaceInv'
    <2>1. /\ \A h \in Conns : handler'[h].request = handler[h].request
          /\ handler'[g].verdict = NoVerdict
          /\ \A h \in Conns \ {g} : handler'[h].verdict = handler[h].verdict
          /\ \A h \in Conns : handler'[h].read = handler[h].read
      BY <1>5, <1>t DEF SendWrite, HandlerType
    <2>2. UNCHANGED <<worker, marlinFrom, dropped, marlinTo, lost>>
      BY <1>5 DEF SendWrite, fromVars, toVars
    <2>3. RecvAt' = RecvAt /\ WorkerAt' = WorkerAt /\ FromAt' = FromAt /\ DroppedAt' = DroppedAt
          /\ ToAt' = ToAt /\ LostAt' = LostAt /\ ReadKeys' = ReadKeys
      BY <2>1, <2>2, Same
    <2>4. \A p \in Kinds \ {"send", "written"} : Where'[p] = Where[p]
      BY <2>3, WhereIs, WhereNext DEF Kinds
    <2>5. Leaves(SendAt, SendAt', EndKey(handler[g].verdict))
      BY <1>d, <2>1, SendLeaves
    <2>6. Arrives(WrittenAt, WrittenAt', EndKey(handler[g].verdict))
      BY <1>5, <1>t, <1>d, WrittenArrives DEF SendWrite
    <2> QED
      BY <2>3, <2>4, <2>5, <2>6, WhereIs, WhereNext, StateMoves DEF Kinds
  <1>6. ASSUME NEW g \in Conns, RecvDeny(g) PROVE PlaceInv'
    <2>1. /\ handler'[g].request = NoRequest
          /\ \A h \in Conns \ {g} : handler'[h].request = handler[h].request
          /\ \A h \in Conns : handler'[h].verdict = handler[h].verdict
          /\ \A h \in Conns : handler'[h].read = handler[h].read
      BY <1>6, <1>t DEF RecvDeny, HandlerType
    <2>2. UNCHANGED <<worker, marlinFrom, dropped, lost, written>>
      BY <1>6 DEF RecvDeny, fromVars, toVars
    <2>3. WorkerAt' = WorkerAt /\ FromAt' = FromAt /\ DroppedAt' = DroppedAt /\ SendAt' = SendAt
          /\ LostAt' = LostAt /\ WrittenAt' = WrittenAt /\ ReadKeys' = ReadKeys
      BY <2>1, <2>2, Same
    <2>4. \A p \in Kinds \ {"recv", "marlinTo"} : Where'[p] = Where[p]
      BY <2>3, WhereIs, WhereNext DEF Kinds
    <2>5. Leaves(RecvAt, RecvAt', Key(handler[g].request))
      BY <1>d, <2>1, RecvLeaves
    <2>6. Arrives(ToAt, ToAt', Key(handler[g].request))
      BY <1>6, <1>t, <1>d, ToArrives DEF RecvDeny, EndKey, Verdict
    <2> QED
      BY <2>3, <2>4, <2>5, <2>6, WhereIs, WhereNext, StateMoves DEF Kinds
  <1>7. ASSUME NEW g \in Conns, RecvDrop(g) PROVE PlaceInv'
    <2>1. /\ \A h \in Conns : handler'[h].request = handler[h].request
          /\ \A h \in Conns : handler'[h].verdict = handler[h].verdict
          /\ \A h \in Conns : handler'[h].read = handler[h].read
      BY <1>7, <1>t DEF RecvDrop, HandlerType
    <2>2. UNCHANGED <<worker, marlinTo, lost, written>>
      BY <1>7 DEF RecvDrop, fromVars, toVars
    <2>3. RecvAt' = RecvAt /\ WorkerAt' = WorkerAt /\ ToAt' = ToAt /\ SendAt' = SendAt
          /\ LostAt' = LostAt /\ WrittenAt' = WrittenAt /\ ReadKeys' = ReadKeys
      BY <2>1, <2>2, Same
    <2>4. \A p \in Kinds \ {"marlinFrom", "dropped"} : Where'[p] = Where[p]
      BY <2>3, WhereIs, WhereNext DEF Kinds
    <2>5. Leaves(FromAt, FromAt', Key(Head(marlinFrom)))
      BY <1>7, <1>t, <1>d, FromLeaves DEF RecvDrop
    <2>6. Arrives(DroppedAt, DroppedAt', Key(Head(marlinFrom)))
      BY <1>7, <1>d, DroppedArrives DEF RecvDrop
    <2> QED
      BY <2>3, <2>4, <2>5, <2>6, WhereIs, WhereNext, StateMoves DEF Kinds
  <1>8. ASSUME NEW g \in Conns, RecvPut(g) PROVE PlaceInv'
    <2>1. /\ handler'[g].request = NoRequest
          /\ \A h \in Conns \ {g} : handler'[h].request = handler[h].request
          /\ \A h \in Conns : handler'[h].verdict = handler[h].verdict
          /\ \A h \in Conns : handler'[h].read = handler[h].read
      BY <1>8, <1>t DEF RecvPut, HandlerType
    <2>2. UNCHANGED <<worker, dropped, marlinTo, lost, written>>
      BY <1>8 DEF RecvPut, fromVars, toVars
    <2>3. WorkerAt' = WorkerAt /\ DroppedAt' = DroppedAt /\ ToAt' = ToAt /\ SendAt' = SendAt
          /\ LostAt' = LostAt /\ WrittenAt' = WrittenAt /\ ReadKeys' = ReadKeys
      BY <2>1, <2>2, Same
    <2>4. \A p \in Kinds \ {"recv", "marlinFrom"} : Where'[p] = Where[p]
      BY <2>3, WhereIs, WhereNext DEF Kinds
    <2>5. Leaves(RecvAt, RecvAt', Key(handler[g].request))
      BY <1>d, <2>1, RecvLeaves
    <2>6. Arrives(FromAt, FromAt', Key(handler[g].request))
      BY <1>8, <1>t, <1>d, FromArrives DEF RecvPut
    <2> QED
      BY <2>3, <2>4, <2>5, <2>6, WhereIs, WhereNext, StateMoves DEF Kinds
  <1>9. ASSUME NEW g \in Conns, RecvUndecodable(g) PROVE PlaceInv'
    <2>1. /\ handler'[g].request = Request(g, handler[g].read + 1, "garbled")
          /\ \A h \in Conns \ {g} : handler'[h].request = handler[h].request
          /\ \A h \in Conns : handler'[h].verdict = handler[h].verdict
          /\ handler'[g].read = handler[g].read + 1
          /\ \A h \in Conns \ {g} : handler'[h].read = handler[h].read
      BY <1>9, <1>t DEF RecvUndecodable, Readable, HandlerType
    <2>2. UNCHANGED <<worker, marlinFrom, dropped, marlinTo, lost, written>>
      BY <1>9 DEF RecvUndecodable, fromVars, toVars
    <2>3. WorkerAt' = WorkerAt /\ FromAt' = FromAt /\ DroppedAt' = DroppedAt /\ ToAt' = ToAt
          /\ SendAt' = SendAt /\ LostAt' = LostAt /\ WrittenAt' = WrittenAt
      BY <2>1, <2>2, Same
    <2>4. \A p \in Kinds \ {"recv"} : Where'[p] = Where[p]
      BY <2>3, WhereIs, WhereNext DEF Kinds
    <2>h. handler[g].request = NoRequest
      BY <1>9, <1>t DEF RecvUndecodable, Readable, Hands
    <2>5. Arrives(RecvAt, RecvAt', <<g, handler[g].read + 1>>)
      BY <1>d, <2>1, <2>h, RecvArrives DEF Key, Request
    <2>e. /\ Arrives(Where["recv"], Where'["recv"], <<g, handler[g].read + 1>>) /\ "recv" \in Kinds
      BY <2>5, WhereIs, WhereNext DEF Kinds
    <2>r. /\ <<g, handler[g].read + 1>> # Nothing /\ <<g, handler[g].read + 1>> \notin ReadKeys
          /\ ReadKeys' = ReadKeys \union {<<g, handler[g].read + 1>>}
      BY <1>t, <2>1, ReadMore
    <2> QED
      BY <2>4, <2>e, <2>r, StateEnters
  <1>10. ASSUME NEW g \in Conns, RecvSelectSend(g) PROVE PlaceInv'
    <2>p. PICK c \in Contents :
            marlinFrom' = Append(marlinFrom, Request(g, handler[g].read + 1, c))
      BY <1>10 DEF RecvSelectSend
    <2>1. /\ \A h \in Conns : handler'[h].request = handler[h].request
          /\ \A h \in Conns : handler'[h].verdict = handler[h].verdict
          /\ handler'[g].read = handler[g].read + 1
          /\ \A h \in Conns \ {g} : handler'[h].read = handler[h].read
      BY <2>p, <1>10, <1>t DEF RecvSelectSend, Readable, HandlerType
    <2>2. UNCHANGED <<worker, dropped, marlinTo, lost, written>>
      BY <1>10 DEF RecvSelectSend, fromVars, toVars
    <2>3. RecvAt' = RecvAt /\ WorkerAt' = WorkerAt /\ DroppedAt' = DroppedAt /\ ToAt' = ToAt
          /\ SendAt' = SendAt /\ LostAt' = LostAt /\ WrittenAt' = WrittenAt
      BY <2>1, <2>2, Same
    <2>4. \A p \in Kinds \ {"marlinFrom"} : Where'[p] = Where[p]
      BY <2>3, WhereIs, WhereNext DEF Kinds
    <2>5. Arrives(FromAt, FromAt', <<g, handler[g].read + 1>>)
      BY <2>p, <1>t, <1>d, FromArrives DEF Key, Request
    <2>e. /\ Arrives(Where["marlinFrom"], Where'["marlinFrom"], <<g, handler[g].read + 1>>) /\ "marlinFrom" \in Kinds
      BY <2>5, WhereIs, WhereNext DEF Kinds
    <2>r. /\ <<g, handler[g].read + 1>> # Nothing /\ <<g, handler[g].read + 1>> \notin ReadKeys
          /\ ReadKeys' = ReadKeys \union {<<g, handler[g].read + 1>>}
      BY <1>t, <2>1, ReadMore
    <2> QED
      BY <2>4, <2>e, <2>r, StateEnters
  <1>11. ASSUME NEW g \in Conns, RecvSelectDefault(g) PROVE PlaceInv'
    <2>p. PICK c \in Contents :
            handler' = [handler EXCEPT ![g].unread = @ - 1, ![g].read = @ + 1,
              ![g].request = Request(g, handler[g].read + 1, c), ![g].recv = "drop"]
      BY <1>11 DEF RecvSelectDefault
    <2>1. /\ handler'[g].request = Request(g, handler[g].read + 1, c)
          /\ \A h \in Conns \ {g} : handler'[h].request = handler[h].request
          /\ \A h \in Conns : handler'[h].verdict = handler[h].verdict
          /\ handler'[g].read = handler[g].read + 1
          /\ \A h \in Conns \ {g} : handler'[h].read = handler[h].read
      BY <2>p, <1>11, <1>t DEF RecvSelectDefault, Readable, HandlerType
    <2>2. UNCHANGED <<worker, marlinFrom, dropped, marlinTo, lost, written>>
      BY <1>11 DEF RecvSelectDefault, fromVars, toVars
    <2>3. WorkerAt' = WorkerAt /\ FromAt' = FromAt /\ DroppedAt' = DroppedAt /\ ToAt' = ToAt
          /\ SendAt' = SendAt /\ LostAt' = LostAt /\ WrittenAt' = WrittenAt
      BY <2>1, <2>2, Same
    <2>4. \A p \in Kinds \ {"recv"} : Where'[p] = Where[p]
      BY <2>3, WhereIs, WhereNext DEF Kinds
    <2>h. handler[g].request = NoRequest
      BY <1>11, <1>t DEF RecvSelectDefault, Readable, Hands
    <2>5. Arrives(RecvAt, RecvAt', <<g, handler[g].read + 1>>)
      BY <1>d, <2>1, <2>h, RecvArrives DEF Key, Request
    <2>e. /\ Arrives(Where["recv"], Where'["recv"], <<g, handler[g].read + 1>>) /\ "recv" \in Kinds
      BY <2>5, WhereIs, WhereNext DEF Kinds
    <2>r. /\ <<g, handler[g].read + 1>> # Nothing /\ <<g, handler[g].read + 1>> \notin ReadKeys
          /\ ReadKeys' = ReadKeys \union {<<g, handler[g].read + 1>>}
      BY <1>t, <2>1, ReadMore
    <2> QED
      BY <2>4, <2>e, <2>r, StateEnters
  <1>12. ASSUME NEW w \in Workers, WorkerTake(w) PROVE PlaceInv'
    <2>2. UNCHANGED <<handler, dropped, marlinTo, lost, written>>
      BY <1>12 DEF WorkerTake, fromVars, toVars
    <2>3. RecvAt' = RecvAt /\ DroppedAt' = DroppedAt /\ ToAt' = ToAt /\ SendAt' = SendAt
          /\ LostAt' = LostAt /\ WrittenAt' = WrittenAt /\ ReadKeys' = ReadKeys
      BY <2>2, Same
    <2>4. \A p \in Kinds \ {"marlinFrom", "worker"} : Where'[p] = Where[p]
      BY <2>3, WhereIs, WhereNext DEF Kinds
    <2>5. Leaves(FromAt, FromAt', Key(Head(marlinFrom)))
      BY <1>12, <1>t, <1>d, FromLeaves DEF WorkerTake
    <2>6. Arrives(WorkerAt, WorkerAt', Key(Head(marlinFrom)))
      BY <1>12, <1>t, <1>d, WorkerArrives DEF WorkerTake, FromTypes, WorkerInv
    <2> QED
      BY <2>3, <2>4, <2>5, <2>6, WhereIs, WhereNext, StateMoves DEF Kinds
  <1>13. ASSUME NEW w \in Workers, WorkerJudge(w) PROVE PlaceInv'
    <2>p. PICK allow \in BOOLEAN : SendVerdict(w, allow)
      BY <1>13 DEF WorkerJudge
    <2>2. UNCHANGED <<handler, marlinFrom, dropped, lost, written>>
      BY <1>13 DEF WorkerJudge, fromVars, toVars
    <2>3. RecvAt' = RecvAt /\ FromAt' = FromAt /\ DroppedAt' = DroppedAt /\ SendAt' = SendAt
          /\ LostAt' = LostAt /\ WrittenAt' = WrittenAt /\ ReadKeys' = ReadKeys
      BY <2>2, Same
    <2>4. \A p \in Kinds \ {"worker", "marlinTo"} : Where'[p] = Where[p]
      BY <2>3, WhereIs, WhereNext DEF Kinds
    <2>5. Leaves(WorkerAt, WorkerAt', Key(worker[w].request))
      BY <1>13, <1>t, <1>d, WorkerLeaves DEF WorkerJudge
    <2>6. Arrives(ToAt, ToAt', Key(worker[w].request))
      BY <2>p, <1>13, <1>t, <1>d, ToArrives DEF WorkerJudge, SendVerdict, EndKey, Verdict
    <2> QED
      BY <2>3, <2>4, <2>5, <2>6, WhereIs, WhereNext, StateMoves DEF Kinds
  <1>14. ASSUME NEW w \in Workers, WorkerDecodes(w) \/ WorkerCannotDecode(w) PROVE PlaceInv'
    <2>0. UNCHANGED <<handler, marlinFrom, dropped, lost, written>>
      BY <1>14 DEF WorkerDecodes, WorkerCannotDecode, toVars
    <2>1. WorkerAt' = WorkerAt
      <3>1. worker' = [worker EXCEPT ![w].pc = AfterDecoding(@)]
        BY <1>14 DEF WorkerDecodes, WorkerCannotDecode
      <3>2. \A v \in Workers : worker'[v].request = worker[v].request
        BY <1>t, <3>1 DEF FromTypes
      <3> QED
        BY <3>2 DEF WorkerAt
    <2>2. /\ RecvAt' = RecvAt /\ FromAt' = FromAt /\ DroppedAt' = DroppedAt
          /\ SendAt' = SendAt /\ LostAt' = LostAt /\ WrittenAt' = WrittenAt
      BY <2>0, Same
    <2>3. ReadKeys' = ReadKeys
      BY <2>0, Same
    <2>4. \A p \in Kinds \ {"worker", "marlinTo"} : Where'[p] = Where[p]
      BY <2>2, WhereIs, WhereNext DEF Kinds
    <2>5. Leaves(WorkerAt, WorkerAt', Nothing)
      BY <1>d, <2>1 DEF Leaves, Keys
    <2>6. Arrives(ToAt, ToAt', Nothing)
      <3>1. CASE WorkerDecodes(w)
        <4>1. ToAt' = ToAt
          BY <3>1 DEF WorkerDecodes, toVars, ToAt
        <4> QED
          BY <1>d, <4>1 DEF Arrives, Keys
      <3>2. CASE WorkerCannotDecode(w)
        <4> DEFINE v == Verdict(worker[w].request, worker[w].pc, FALSE, "chain")
        <4>1. marlinTo' = Append(marlinTo, v)
          BY <3>2 DEF WorkerCannotDecode, SendVerdict
        <4>2. EndKey(v) = Nothing
          BY <3>2 DEF WorkerCannotDecode, EndKey, Verdict
        <4> HIDE DEF v
        <4> QED
          BY <1>t, <1>d, <4>1, <4>2, ToArrives
      <3> QED
        BY <1>14, <3>1, <3>2
    <2> QED
      BY <2>3, <2>4, <2>5, <2>6, WhereIs, WhereNext, StateMoves DEF Kinds
  <1>15. CASE RunSpamFilterHandler \/ AllowServicedChainMessages \/ UNCHANGED vars
    BY <1>15, StepUnseen
  <1>16. ASSUME NEW w \in Workers, WorkerPanics(w) PROVE PlaceInv'
    BY <1>16, StepUnseen
  <1>17. ASSUME NEW g \in Conns,
               \/ SendShutdown(g) \/ SendEncode(g) \/ SendSignal(g) \/ RecvShutdown(g)
               \/ RecvRead(g) \/ RecvIgnored(g) \/ RecvFails(g) \/ RecvSignal(g)
               \/ GatewayAsks(g) \/ LinkFails(g)
         PROVE  PlaceInv'
    BY <1>17, StepUnseen
  <1>18. ASSUME NEW g \in Conns, sendRoutineSpamFilter(g) PROVE PlaceInv'
    BY <1>1, <1>2, <1>3, <1>4, <1>5, <1>17, <1>18 DEF sendRoutineSpamFilter
  <1>19. ASSUME NEW g \in Conns, recvRoutineSpamFilter(g) PROVE PlaceInv'
    BY <1>6, <1>7, <1>8, <1>9, <1>10, <1>11, <1>17, <1>19 DEF recvRoutineSpamFilter
  <1>20. ASSUME NEW w \in Workers, beginServicingSpamFilter(w) PROVE PlaceInv'
    BY <1>12, <1>13, <1>14, <1>20 DEF beginServicingSpamFilter
  <1> QED
    BY <1>15, <1>16, <1>17, <1>18, <1>19, <1>20 DEF Next

LEMMA InitPlaces == Init => PlaceInv
  <1> SUFFICES ASSUME Init PROVE PlaceInv
    OBVIOUS
  <1>1. /\ \A h \in Conns : /\ Key(handler[h].request) = Nothing
                            /\ EndKey(handler[h].verdict) = Nothing
                            /\ handler[h].read = 0
        /\ \A w \in Workers : Key(worker[w].request) = Nothing
    BY DEF Init, NewHandler, NoVerdict, NoRequest, Verdict, Request, EndKey, Key, Nothing
  <1>2. WritingPlaces = {}
    BY DEF Init, WritingPlaces
  <1>3. /\ DOMAIN FromAt = {} /\ DOMAIN DroppedAt = {} /\ DOMAIN ToAt = {}
        /\ DOMAIN LostAt = {} /\ DOMAIN WrittenAt = {}
    BY <1>2 DEF Init, FromAt, DroppedAt, ToAt, LostAt, WrittenAt
  <1>4. /\ \A h \in DOMAIN RecvAt : RecvAt[h] = Nothing
        /\ \A h \in DOMAIN SendAt : SendAt[h] = Nothing
        /\ \A w \in DOMAIN WorkerAt : WorkerAt[w] = Nothing
    BY <1>1 DEF RecvAt, SendAt, WorkerAt
  <1>5. ASSUME NEW p \in Kinds PROVE \A x \in DOMAIN Where[p] : Where[p][x] = Nothing
    BY <1>3, <1>4, WhereIs DEF Kinds
  <1>6. ASSUME NEW p \in Kinds PROVE Distinct(Where[p]) /\ Keys(Where[p]) = {}
    BY <1>5 DEF Distinct, Keys
  <1>7. ReadKeys = {}
    BY <1>1 DEF ReadKeys
  <1> QED
    BY <1>6, <1>7 DEF PlaceInv, Placed

LEMMA PlaceInvariant == Spec => [](IInv /\ PlaceInv)
  <1>1. IInv /\ PlaceInv /\ [Next]_vars => PlaceInv'
    BY StepPlaces
  <1> QED
    BY Invariant, InitPlaces, <1>1, PTL DEF Spec

(* At most one place of a kind has a given request.                        *)
LEMMA OneAt ==
    ASSUME NEW f, NEW k, k # Nothing, Distinct(f)
    PROVE  /\ k \notin Keys(f) => {x \in DOMAIN f : f[x] = k} = {}
           /\ k \in Keys(f) => \E x \in DOMAIN f : {y \in DOMAIN f : f[y] = k} = {x}
  <1>1. k \notin Keys(f) => {x \in DOMAIN f : f[x] = k} = {}
    BY DEF Keys
  <1>2. ASSUME k \in Keys(f) PROVE \E x \in DOMAIN f : {y \in DOMAIN f : f[y] = k} = {x}
    <2>1. PICK x \in DOMAIN f : f[x] = k
      BY <1>2 DEF Keys
    <2>2. {y \in DOMAIN f : f[y] = k} = {x}
      BY <2>1 DEF Distinct
    <2> QED
      BY <2>1, <2>2
  <1> QED
    BY <1>1, <1>2

(* A request that was read has one place.                                  *)
LEMMA OnePlace ==
    ASSUME PlaceInv, NEW g \in Conns, NEW n \in 1..handler[g].read
    PROVE  \E p : Places(g, n) = {p}
  <1> DEFINE k == <<g, n>>
             In(f) == {x \in DOMAIN f : f[x] = k}
             A == {<<"recv", h>> : h \in {h \in Conns : handler[h].request.from = g
                                                       /\ handler[h].request.n = n}}
             B == {<<"worker", w>> : w \in {w \in Workers : worker[w].request.from = g
                                                    /\ worker[w].request.n = n}}
             C == {<<"marlinFrom", i>> : i \in {i \in DOMAIN marlinFrom :
                             marlinFrom[i].from = g /\ marlinFrom[i].n = n}}
             D == {<<"dropped", r>> : r \in {r \in dropped : r.from = g /\ r.n = n}}
             E == {<<"marlinTo", i>> : i \in {i \in DOMAIN marlinTo : Ends(marlinTo[i], g, n)}}
             F == {<<"send", h>> : h \in {h \in Conns : Ends(handler[h].verdict, g, n)}}
             G == {<<"lost", v>> : v \in {v \in lost : Ends(v, g, n)}}
             H == UNION {{<<"written", h, i>> : i \in {i \in DOMAIN written[h] :
                                          Ends(written[h][i], g, n)}} : h \in Conns}
  <1>1. Places(g, n) = A \union B \union C \union D \union E \union F \union G \union H
    BY DEF Places
  <1>2. k # Nothing
    BY DEF Nothing, Conns
  <1>3. /\ \A r : Key(r) = k <=> r.from = g /\ r.n = n
        /\ \A v : EndKey(v) = k <=> Ends(v, g, n)
    BY <1>2 DEF Key, EndKey, Ends
  <1>4. \A p \in Kinds : Distinct(Where[p])
    BY DEF PlaceInv, Placed
  <1>5. \A p \in Kinds : /\ k \notin Keys(Where[p]) => In(Where[p]) = {}
                         /\ k \in Keys(Where[p]) => \E x \in DOMAIN Where[p] : In(Where[p]) = {x}
    BY <1>2, <1>4, OneAt
  <1> HIDE DEF k
  <1>6. /\ A = {<<"recv", x>> : x \in In(RecvAt)}
        /\ B = {<<"worker", x>> : x \in In(WorkerAt)}
        /\ C = {<<"marlinFrom", x>> : x \in In(FromAt)}
        /\ D = {<<"dropped", x>> : x \in In(DroppedAt)}
    BY <1>3 DEF RecvAt, WorkerAt, FromAt, DroppedAt
  <1>7. /\ E = {<<"marlinTo", x>> : x \in In(ToAt)}
        /\ F = {<<"send", x>> : x \in In(SendAt)}
        /\ G = {<<"lost", x>> : x \in In(LostAt)}
    BY <1>3 DEF ToAt, SendAt, LostAt
  <1>8. H = {<<"written", x[1], x[2]>> : x \in In(WrittenAt)}
    <2>1. ASSUME NEW p \in H PROVE p \in {<<"written", x[1], x[2]>> : x \in In(WrittenAt)}
      <3>1. PICK h \in Conns : \E i \in DOMAIN written[h] :
                                 Ends(written[h][i], g, n) /\ p = <<"written", h, i>>
        OBVIOUS
      <3>2. PICK i \in DOMAIN written[h] : Ends(written[h][i], g, n) /\ p = <<"written", h, i>>
        BY <3>1
      <3>3. <<h, i>> \in WritingPlaces
        BY DEF WritingPlaces
      <3>4. <<h, i>> \in In(WrittenAt)
        BY <1>3, <3>2, <3>3 DEF WrittenAt
      <3> QED
        BY <3>2, <3>4
    <2>2. ASSUME NEW x \in In(WrittenAt) PROVE <<"written", x[1], x[2]>> \in H
      <3>1. x \in WritingPlaces /\ EndKey(written[x[1]][x[2]]) = k
        BY DEF WrittenAt
      <3>2. PICK h \in Conns : \E i \in DOMAIN written[h] : x = <<h, i>>
        BY <3>1 DEF WritingPlaces
      <3>3. PICK i \in DOMAIN written[h] : x = <<h, i>>
        BY <3>2
      <3>4. x[1] = h /\ x[2] = i
        BY <3>3
      <3> QED
        BY <1>3, <3>1, <3>4
    <2> QED
      BY <2>1, <2>2
  <1> HIDE DEF A, B, C, D, E, F, G, H, In
  <1>9. (k \notin Keys(RecvAt) => A = {}) /\ (k \in Keys(RecvAt) => \E p : A = {p})
    <2>1. /\ k \notin Keys(RecvAt) => In(RecvAt) = {}
          /\ k \in Keys(RecvAt) => \E x : In(RecvAt) = {x}
      BY <1>5, WhereIs DEF Kinds
    <2>2. In(RecvAt) = {} => A = {}
      BY <1>6
    <2>3. ASSUME NEW x, In(RecvAt) = {x} PROVE A = {<<"recv", x>>}
      BY <1>6, <2>3
    <2> QED
      BY <2>1, <2>2, <2>3
  <1>10. (k \notin Keys(WorkerAt) => B = {}) /\ (k \in Keys(WorkerAt) => \E p : B = {p})
    <2>1. /\ k \notin Keys(WorkerAt) => In(WorkerAt) = {}
          /\ k \in Keys(WorkerAt) => \E x : In(WorkerAt) = {x}
      BY <1>5, WhereIs DEF Kinds
    <2>2. In(WorkerAt) = {} => B = {}
      BY <1>6
    <2>3. ASSUME NEW x, In(WorkerAt) = {x} PROVE B = {<<"worker", x>>}
      BY <1>6, <2>3
    <2> QED
      BY <2>1, <2>2, <2>3
  <1>11. (k \notin Keys(FromAt) => C = {}) /\ (k \in Keys(FromAt) => \E p : C = {p})
    <2>1. /\ k \notin Keys(FromAt) => In(FromAt) = {}
          /\ k \in Keys(FromAt) => \E x : In(FromAt) = {x}
      BY <1>5, WhereIs DEF Kinds
    <2>2. In(FromAt) = {} => C = {}
      BY <1>6
    <2>3. ASSUME NEW x, In(FromAt) = {x} PROVE C = {<<"marlinFrom", x>>}
      BY <1>6, <2>3
    <2> QED
      BY <2>1, <2>2, <2>3
  <1>12. (k \notin Keys(DroppedAt) => D = {}) /\ (k \in Keys(DroppedAt) => \E p : D = {p})
    <2>1. /\ k \notin Keys(DroppedAt) => In(DroppedAt) = {}
          /\ k \in Keys(DroppedAt) => \E x : In(DroppedAt) = {x}
      BY <1>5, WhereIs DEF Kinds
    <2>2. In(DroppedAt) = {} => D = {}
      BY <1>6
    <2>3. ASSUME NEW x, In(DroppedAt) = {x} PROVE D = {<<"dropped", x>>}
      BY <1>6, <2>3
    <2> QED
      BY <2>1, <2>2, <2>3
  <1>13. (k \notin Keys(ToAt) => E = {}) /\ (k \in Keys(ToAt) => \E p : E = {p})
    <2>1. /\ k \notin Keys(ToAt) => In(ToAt) = {}
          /\ k \in Keys(ToAt) => \E x : In(ToAt) = {x}
      BY <1>5, WhereIs DEF Kinds
    <2>2. In(ToAt) = {} => E = {}
      BY <1>7
    <2>3. ASSUME NEW x, In(ToAt) = {x} PROVE E = {<<"marlinTo", x>>}
      BY <1>7, <2>3
    <2> QED
      BY <2>1, <2>2, <2>3
  <1>14. (k \notin Keys(SendAt) => F = {}) /\ (k \in Keys(SendAt) => \E p : F = {p})
    <2>1. /\ k \notin Keys(SendAt) => In(SendAt) = {}
          /\ k \in Keys(SendAt) => \E x : In(SendAt) = {x}
      BY <1>5, WhereIs DEF Kinds
    <2>2. In(SendAt) = {} => F = {}
      BY <1>7
    <2>3. ASSUME NEW x, In(SendAt) = {x} PROVE F = {<<"send", x>>}
      BY <1>7, <2>3
    <2> QED
      BY <2>1, <2>2, <2>3
  <1>15. (k \notin Keys(LostAt) => G = {}) /\ (k \in Keys(LostAt) => \E p : G = {p})
    <2>1. /\ k \notin Keys(LostAt) => In(LostAt) = {}
          /\ k \in Keys(LostAt) => \E x : In(LostAt) = {x}
      BY <1>5, WhereIs DEF Kinds
    <2>2. In(LostAt) = {} => G = {}
      BY <1>7
    <2>3. ASSUME NEW x, In(LostAt) = {x} PROVE G = {<<"lost", x>>}
      BY <1>7, <2>3
    <2> QED
      BY <2>1, <2>2, <2>3
  <1>16. (k \notin Keys(WrittenAt) => H = {}) /\ (k \in Keys(WrittenAt) => \E p : H = {p})
    <2>1. /\ k \notin Keys(WrittenAt) => In(WrittenAt) = {}
          /\ k \in Keys(WrittenAt) => \E x : In(WrittenAt) = {x}
      BY <1>5, WhereIs DEF Kinds
    <2>2. In(WrittenAt) = {} => H = {}
      BY <1>8
    <2>3. ASSUME NEW x, In(WrittenAt) = {x} PROVE H = {<<"written", x[1], x[2]>>}
      BY <1>8, <2>3
    <2> QED
      BY <2>1, <2>2, <2>3
  <1>17. k \in ReadKeys
    BY DEF ReadKeys, k
  <1>18. PICK q \in Kinds : k \in Keys(Where[q])
    BY <1>17 DEF PlaceInv, Placed
  <1>19. \A p \in Kinds \ {q} : k \notin Keys(Where[p])
    BY <1>18 DEF PlaceInv, Placed
  <1>20. /\ q = "recv" \/ k \notin Keys(RecvAt)
         /\ q = "worker" \/ k \notin Keys(WorkerAt)
         /\ q = "marlinFrom" \/ k \notin Keys(FromAt)
         /\ q = "dropped" \/ k \notin Keys(DroppedAt)
         /\ q = "marlinTo" \/ k \notin Keys(ToAt)
         /\ q = "send" \/ k \notin Keys(SendAt)
         /\ q = "lost" \/ k \notin Keys(LostAt)
         /\ q = "written" \/ k \notin Keys(WrittenAt)
    BY <1>19, WhereIs DEF Kinds
  <1>21. CASE q = "recv"
    BY <1>1, <1>9, <1>10, <1>11, <1>12, <1>13, <1>14, <1>15, <1>16, <1>18, <1>20, <1>21, WhereIs
  <1>22. CASE q = "worker"
    BY <1>1, <1>9, <1>10, <1>11, <1>12, <1>13, <1>14, <1>15, <1>16, <1>18, <1>20, <1>22, WhereIs
  <1>23. CASE q = "marlinFrom"
    BY <1>1, <1>9, <1>10, <1>11, <1>12, <1>13, <1>14, <1>15, <1>16, <1>18, <1>20, <1>23, WhereIs
  <1>24. CASE q = "dropped"
    BY <1>1, <1>9, <1>10, <1>11, <1>12, <1>13, <1>14, <1>15, <1>16, <1>18, <1>20, <1>24, WhereIs
  <1>25. CASE q = "marlinTo"
    BY <1>1, <1>9, <1>10, <1>11, <1>12, <1>13, <1>14, <1>15, <1>16, <1>18, <1>20, <1>25, WhereIs
  <1>26. CASE q = "send"
    BY <1>1, <1>9, <1>10, <1>11, <1>12, <1>13, <1>14, <1>15, <1>16, <1>18, <1>20, <1>26, WhereIs
  <1>27. CASE q = "lost"
    BY <1>1, <1>9, <1>10, <1>11, <1>12, <1>13, <1>14, <1>15, <1>16, <1>18, <1>20, <1>27, WhereIs
  <1>28. CASE q = "written"
    BY <1>1, <1>9, <1>10, <1>11, <1>12, <1>13, <1>14, <1>15, <1>16, <1>18, <1>20, <1>28, WhereIs
  <1> QED
    BY <1>18, <1>21, <1>22, <1>23, <1>24, <1>25, <1>26, <1>27, <1>28 DEF Kinds

(* However many workers, routines and connections there are, and whichever *)
(* of them fail, a request that was read is judged once, and forgotten     *)
(* only where the code throws it or its verdict away.                      *)
THEOREM BeingInOnePlace == Spec => []RequestInOnePlace
  <1>1. PlaceInv => RequestInOnePlace
    <2> SUFFICES ASSUME PlaceInv, NEW g \in Conns, NEW n \in 1..handler[g].read
                 PROVE  Cardinality(Places(g, n)) = 1
      BY DEF RequestInOnePlace
    <2>1. PICK p : Places(g, n) = {p}
      BY OnePlace
    <2> QED
      BY <2>1, FS_Singleton
  <1> QED
    BY PlaceInvariant, <1>1, PTL

-------------------------------------------------------------------------------
(* Verdicts that allow.  They are the last verdicts of requests that get   *)
(* no other kind of verdict, and the last verdict is one.                  *)

(* Every step keeps what is said of verdicts.                              *)
LEMMA StepVerdicts == IInv /\ VerdictInv /\ [Next]_vars => VerdictInv'
  <1> SUFFICES ASSUME IInv, VerdictInv, [Next]_vars PROVE VerdictInv'
    OBVIOUS
  <1>t. /\ handler \in [Conns -> HandlerType] /\ FromTypes
        /\ \A h \in Conns : Hands(handler[h]) /\ handler[h].verdict \in SoundVerdicts \union {NoVerdict}
        /\ marlinTo \in Seq(SoundVerdicts) /\ written \in [Conns -> Seq(SoundVerdicts)]
        /\ NoVerdict \notin Verdicts
        /\ supPc \in {"watch", "shutSend", "shutRecv"} => conn \in Conns
        /\ supPc = "accept" /\ conn < MaxConns => conn + 1 \in Conns
    BY Parts DEF HandlerInv, VerdictInv, NoVerdict, Verdict, Verdicts, Supervising, Conns
  <1> DEFINE KeptAll == \A h \in Conns : handler'[h].verdict = handler[h].verdict
  <1>1. ASSUME NEW g \in Conns, SendTake(g) PROVE VerdictInv'
    <2>1. Head(marlinTo) \in SoundVerdicts /\ Tail(marlinTo) \in Seq(SoundVerdicts)
      BY <1>1, <1>t, HeadTail DEF SendTake
    <2>2. \A h \in Conns : handler'[h].verdict = IF h = g THEN Head(marlinTo) ELSE handler[h].verdict
      BY <1>1, <1>t DEF SendTake, HandlerType
    <2>3. marlinTo' = Tail(marlinTo) /\ written' = written
      BY <1>1 DEF SendTake
    <2> QED
      BY <1>t, <2>1, <2>2, <2>3 DEF VerdictInv
  <1>2. ASSUME NEW g \in Conns, SendRequeue(g) PROVE VerdictInv'
    <2>1. handler[g].verdict \in SoundVerdicts
      BY <1>2, <1>t DEF SendRequeue, Hands
    <2>2. \A h \in Conns : handler'[h].verdict = IF h = g THEN NoVerdict ELSE handler[h].verdict
      BY <1>2, <1>t DEF SendRequeue, HandlerType
    <2>3. marlinTo' = Append(marlinTo, handler[g].verdict) /\ written' = written
      BY <1>2 DEF SendRequeue
    <2> QED
      BY <1>t, <2>1, <2>2, <2>3, AppendOne DEF VerdictInv
  <1>3. ASSUME NEW g \in Conns, SendDiscard(g) \/ SendWriteFails(g) PROVE VerdictInv'
    <2>1. \A h \in Conns : handler'[h].verdict = IF h = g THEN NoVerdict ELSE handler[h].verdict
      BY <1>3, <1>t DEF SendDiscard, SendWriteFails, HandlerType
    <2>2. UNCHANGED <<marlinTo, written>>
      BY <1>3 DEF SendDiscard, SendWriteFails
    <2> QED
      BY <1>t, <2>1, <2>2 DEF VerdictInv
  <1>4. ASSUME NEW g \in Conns, SendWrite(g) PROVE VerdictInv'
    <2>1. handler[g].verdict \in SoundVerdicts
      BY <1>4, <1>t DEF SendWrite, Hands
    <2>2. \A h \in Conns : handler'[h].verdict = IF h = g THEN NoVerdict ELSE handler[h].verdict
      BY <1>4, <1>t DEF SendWrite, HandlerType
    <2>3. written' = [written EXCEPT ![g] = Append(written[g], handler[g].verdict)] /\ marlinTo' = marlinTo
      BY <1>4 DEF SendWrite
    <2>4. Append(written[g], handler[g].verdict) \in Seq(SoundVerdicts)
      BY <1>t, <2>1, AppendOne
    <2> QED
      BY <1>t, <2>2, <2>3, <2>4 DEF VerdictInv
  <1>5. ASSUME NEW g \in Conns, RecvDeny(g) PROVE VerdictInv'
    <2> DEFINE v == Verdict(handler[g].request, "garbled", FALSE, handler[g].chain)
    <2>1. /\ handler[g].request \in Requests /\ handler[g].request.content = "garbled"
          /\ handler[g].chain \in {"none", "chain"}
      BY <1>5, <1>t DEF RecvDeny, Hands, HandlerType
    <2>2. v \in SoundVerdicts
      BY <2>1 DEF Verdict, Verdicts, SoundVerdicts, Sound
    <2>3. KeptAll
      BY <1>5, <1>t DEF RecvDeny, HandlerType
    <2>4. marlinTo' = Append(marlinTo, v) /\ written' = written
      BY <1>5 DEF RecvDeny
    <2> HIDE DEF v
    <2> QED
      BY <1>t, <2>2, <2>3, <2>4, AppendOne DEF VerdictInv
  <1>6. ASSUME NEW w \in Workers, WorkerCannotDecode(w) \/ WorkerJudge(w) PROVE VerdictInv'
    <2>1. PICK allow \in BOOLEAN :
            /\ SendVerdict(w, allow)
            /\ allow => worker[w].pc = "judge" /\ worker[w].request.content \in {"vote", "block"}
      BY <1>6 DEF WorkerCannotDecode, WorkerJudge
    <2>2. /\ worker[w].pc \in {"first", "second", "judge"} /\ UNCHANGED <<written, handler>>
          /\ worker[w].request.content \in {"vote", "block"} => worker[w].pc = "judge"
      BY <1>6 DEF WorkerCannotDecode, WorkerJudge, Undecodable
    <2>3. worker[w].request \in Requests
      BY <1>t, <2>2 DEF FromTypes, WorkerInv
    <2> DEFINE v == Verdict(worker[w].request, worker[w].pc, allow, "chain")
    <2>4. v \in SoundVerdicts
      BY <2>1, <2>2, <2>3 DEF Verdict, Verdicts, SoundVerdicts, Sound
    <2>5. marlinTo' = Append(marlinTo, v)
      BY <2>1 DEF SendVerdict
    <2> HIDE DEF v
    <2> QED
      BY <1>t, <2>2, <2>4, <2>5, AppendOne DEF VerdictInv
  <1>7. CASE ConnErrorSeen
    <2>1. KeptAll /\ UNCHANGED <<marlinTo, written>>
      BY <1>7, <1>t DEF ConnErrorSeen, toVars, HandlerType
    <2> QED
      BY <1>t, <2>1 DEF VerdictInv
  <1>8. CASE ShutSend
    <2>1. KeptAll /\ UNCHANGED <<marlinTo, written>>
      BY <1>8, <1>t DEF ShutSend, toVars, HandlerType
    <2> QED
      BY <1>t, <2>1 DEF VerdictInv
  <1>9. CASE ShutRecv
    <2>1. KeptAll /\ UNCHANGED <<marlinTo, written>>
      BY <1>9, <1>t DEF ShutRecv, toVars, HandlerType
    <2> QED
      BY <1>t, <2>1 DEF VerdictInv
  <1>10. CASE Accept
    <2>1. KeptAll /\ UNCHANGED <<marlinTo, written>>
      BY <1>10, <1>t DEF Accept, toVars, HandlerType
    <2> QED
      BY <1>t, <2>1 DEF VerdictInv
  <1>11. ASSUME NEW g \in Conns, SendShutdown(g) PROVE VerdictInv'
    <2>1. KeptAll /\ UNCHANGED <<marlinTo, written>>
      BY <1>11, <1>t DEF SendShutdown, toVars, HandlerType
    <2> QED
      BY <1>t, <2>1 DEF VerdictInv
  <1>12. ASSUME NEW g \in Conns, SendEncode(g) PROVE VerdictInv'
    <2>1. KeptAll /\ UNCHANGED <<marlinTo, written>>
      BY <1>12, <1>t DEF SendEncode, toVars, HandlerType
    <2> QED
      BY <1>t, <2>1 DEF VerdictInv
  <1>13. ASSUME NEW g \in Conns, SendSignal(g) PROVE VerdictInv'
    <2>1. KeptAll /\ UNCHANGED <<marlinTo, written>>
      BY <1>13, <1>t DEF SendSignal, toVars, HandlerType
    <2> QED
      BY <1>t, <2>1 DEF VerdictInv
  <1>14. ASSUME NEW g \in Conns, RecvShutdown(g) PROVE VerdictInv'
    <2>1. KeptAll /\ UNCHANGED <<marlinTo, written>>
      BY <1>14, <1>t DEF RecvShutdown, toVars, HandlerType
    <2> QED
      BY <1>t, <2>1 DEF VerdictInv
  <1>15. ASSUME NEW g \in Conns, RecvRead(g) PROVE VerdictInv'
    <2>1. KeptAll /\ UNCHANGED <<marlinTo, written>>
      BY <1>15, <1>t DEF RecvRead, toVars, HandlerType
    <2> QED
      BY <1>t, <2>1 DEF VerdictInv
  <1>16. ASSUME NEW g \in Conns, RecvIgnored(g) PROVE VerdictInv'
    <2>1. KeptAll /\ UNCHANGED <<marlinTo, written>>
      BY <1>16, <1>t DEF RecvIgnored, toVars, HandlerType
    <2> QED
      BY <1>t, <2>1 DEF VerdictInv
  <1>17. ASSUME NEW g \in Conns, RecvUndecodable(g) PROVE VerdictInv'
    <2>1. KeptAll /\ UNCHANGED <<marlinTo, written>>
      BY <1>17, <1>t DEF RecvUndecodable, toVars, HandlerType
    <2> QED
      BY <1>t, <2>1 DEF VerdictInv
  <1>18. ASSUME NEW g \in Conns, RecvSelectSend(g) PROVE VerdictInv'
    <2>1. KeptAll /\ UNCHANGED <<marlinTo, written>>
      BY <1>18, <1>t DEF RecvSelectSend, toVars, HandlerType
    <2> QED
      BY <1>t, <2>1 DEF VerdictInv
  <1>19. ASSUME NEW g \in Conns, RecvSelectDefault(g) PROVE VerdictInv'
    <2>1. KeptAll /\ UNCHANGED <<marlinTo, written>>
      BY <1>19, <1>t DEF RecvSelectDefault, toVars, HandlerType
    <2> QED
      BY <1>t, <2>1 DEF VerdictInv
  <1>20. ASSUME NEW g \in Conns, RecvDrop(g) PROVE VerdictInv'
    <2>1. KeptAll /\ UNCHANGED <<marlinTo, written>>
      BY <1>20, <1>t DEF RecvDrop, toVars, HandlerType
    <2> QED
      BY <1>t, <2>1 DEF VerdictInv
  <1>21. ASSUME NEW g \in Conns, RecvPut(g) PROVE VerdictInv'
    <2>1. KeptAll /\ UNCHANGED <<marlinTo, written>>
      BY <1>21, <1>t DEF RecvPut, toVars, HandlerType
    <2> QED
      BY <1>t, <2>1 DEF VerdictInv
  <1>22. ASSUME NEW g \in Conns, RecvFails(g) PROVE VerdictInv'
    <2>1. KeptAll /\ UNCHANGED <<marlinTo, written>>
      BY <1>22, <1>t DEF RecvFails, toVars, HandlerType
    <2> QED
      BY <1>t, <2>1 DEF VerdictInv
  <1>23. ASSUME NEW g \in Conns, RecvSignal(g) PROVE VerdictInv'
    <2>1. KeptAll /\ UNCHANGED <<marlinTo, written>>
      BY <1>23, <1>t DEF RecvSignal, toVars, HandlerType
    <2> QED
      BY <1>t, <2>1 DEF VerdictInv
  <1>24. ASSUME NEW g \in Conns, GatewayAsks(g) PROVE VerdictInv'
    <2>1. KeptAll /\ UNCHANGED <<marlinTo, written>>
      BY <1>24, <1>t DEF GatewayAsks, toVars, HandlerType
    <2> QED
      BY <1>t, <2>1 DEF VerdictInv
  <1>25. ASSUME NEW g \in Conns, LinkFails(g) PROVE VerdictInv'
    <2>1. KeptAll /\ UNCHANGED <<marlinTo, written>>
      BY <1>25, <1>t DEF LinkFails, toVars, HandlerType
    <2> QED
      BY <1>t, <2>1 DEF VerdictInv
  <1>26. CASE \/ Listen \/ ListenFails \/ ClosePanics \/ AcceptFails \/ Reattempt
             \/ AllowServicedChainMessages \/ UNCHANGED vars
    <2>1. UNCHANGED <<handler, marlinTo, written>>
      BY <1>26 DEF Listen, ListenFails, ClosePanics, AcceptFails, Reattempt,
         AllowServicedChainMessages, toVars, vars
    <2> QED
      BY <1>t, <2>1 DEF VerdictInv
  <1>27. ASSUME NEW w \in Workers, WorkerTake(w) \/ WorkerDecodes(w) \/ WorkerPanics(w)
         PROVE  VerdictInv'
    <2>1. UNCHANGED <<handler, marlinTo, written>>
      BY <1>27 DEF WorkerTake, WorkerDecodes, WorkerPanics, toVars
    <2> QED
      BY <1>t, <2>1 DEF VerdictInv
  <1>28. ASSUME NEW g \in Conns, sendRoutineSpamFilter(g) PROVE VerdictInv'
    BY <1>1, <1>2, <1>3, <1>4, <1>11, <1>12, <1>13, <1>28 DEF sendRoutineSpamFilter
  <1>29. ASSUME NEW g \in Conns, recvRoutineSpamFilter(g) PROVE VerdictInv'
    BY <1>5, <1>14, <1>15, <1>16, <1>17, <1>18, <1>19, <1>20, <1>21, <1>22, <1>23, <1>29 DEF recvRoutineSpamFilter
  <1>30. ASSUME NEW w \in Workers, beginServicingSpamFilter(w) PROVE VerdictInv'
    BY <1>6, <1>27, <1>30 DEF beginServicingSpamFilter
  <1>31. CASE RunSpamFilterHandler
    BY <1>7, <1>8, <1>9, <1>10, <1>26, <1>31 DEF RunSpamFilterHandler
  <1> QED
    BY <1>24, <1>25, <1>26, <1>27, <1>28, <1>29, <1>30, <1>31 DEF Next

LEMMA VerdictInvariant == Spec => [](IInv /\ VerdictInv)
  <1>1. Init => VerdictInv
    BY DEF Init, VerdictInv, NewHandler
  <1>2. IInv /\ VerdictInv /\ [Next]_vars => VerdictInv'
    BY StepVerdicts
  <1> QED
    BY Invariant, <1>1, <1>2, PTL DEF Spec

(* Where a verdict that the gateway has or may yet get is.                 *)
Source(v, p, x) ==
    \/ p = "marlinTo" /\ x \in DOMAIN marlinTo /\ v = marlinTo[x]
    \/ p = "send" /\ x \in Conns /\ v = handler[x].verdict
    \/ p = "written" /\ x \in WritingPlaces /\ v = written[x[1]][x[2]]

LEMMA VerdictIn ==
    ASSUME NEW v \in AllVerdicts
    PROVE  \/ \E i \in DOMAIN marlinTo : v = marlinTo[i]
           \/ \E g \in Conns : v = handler[g].verdict
           \/ \E g \in Conns : \E i \in DOMAIN written[g] : v = written[g][i]
  <1> DEFINE W == {{written[g][i] : i \in DOMAIN written[g]} : g \in Conns}
             M == {marlinTo[i] : i \in DOMAIN marlinTo}
             H == {handler[g].verdict : g \in Conns}
  <1>1. v \in UNION W \/ v \in M \/ v \in H
    <2>1. v \in (UNION W) \union M \union H
      BY Zenon DEF AllVerdicts
    <2> HIDE DEF W, M, H
    <2> QED
      BY <2>1
  <1>2. CASE v \in UNION W
    <2>1. PICK S \in W : v \in S
      <3> HIDE DEF W
      <3> QED
        BY <1>2
    <2>2. PICK g \in Conns : S = {written[g][i] : i \in DOMAIN written[g]}
      BY Zenon
    <2>3. \E i \in DOMAIN written[g] : v = written[g][i]
      BY <2>1, <2>2, Zenon
    <2> QED
      BY <2>3
  <1>3. v \in M => \E i \in DOMAIN marlinTo : v = marlinTo[i]
    BY Zenon
  <1>4. v \in H => \E g \in Conns : v = handler[g].verdict
    BY Zenon
  <1> HIDE DEF W, M, H
  <1> QED
    BY <1>1, <1>2, <1>3, <1>4

LEMMA Sources ==
    ASSUME NEW v \in AllVerdicts
    PROVE  \E p, x : Source(v, p, x)
  <1>1. CASE \E i \in DOMAIN marlinTo : v = marlinTo[i]
    BY <1>1 DEF Source
  <1>2. CASE \E g \in Conns : v = handler[g].verdict
    BY <1>2 DEF Source
  <1>3. CASE \E g \in Conns : \E i \in DOMAIN written[g] : v = written[g][i]
    <2>1. PICK g \in Conns : \E i \in DOMAIN written[g] : v = written[g][i]
      BY <1>3
    <2>2. PICK i \in DOMAIN written[g] : v = written[g][i]
      BY <2>1
    <2>3. <<g, i>> \in WritingPlaces
      BY DEF WritingPlaces
    <2>4. Source(v, "written", <<g, i>>)
      BY <2>2, <2>3 DEF Source
    <2> QED
      BY <2>4
  <1>4. \/ \E i \in DOMAIN marlinTo : v = marlinTo[i]
        \/ \E g \in Conns : v = handler[g].verdict
        \/ \E g \in Conns : \E i \in DOMAIN written[g] : v = written[g][i]
    BY VerdictIn
  <1> QED
    BY <1>1, <1>2, <1>3, <1>4

LEMMA SourceAt ==
    ASSUME NEW v, NEW p, NEW x, Source(v, p, x)
    PROVE  p \in Kinds /\ x \in DOMAIN Where[p] /\ Where[p][x] = EndKey(v)
  BY WhereIs DEF Source, Kinds, ToAt, SendAt, WrittenAt

LEMMA SourceOfOne ==
    ASSUME NEW v, NEW u, NEW p, NEW x, Source(v, p, x), Source(u, p, x)
    PROVE  v = u
  BY DEF Source

LEMMA SourceSound ==
    ASSUME VerdictInv, NEW v \in AllVerdicts
    PROVE  v \in SoundVerdicts \union {NoVerdict}
  <1>1. CASE \E i \in DOMAIN marlinTo : v = marlinTo[i]
    BY <1>1 DEF VerdictInv
  <1>2. CASE \E g \in Conns : v = handler[g].verdict
    BY <1>2 DEF VerdictInv
  <1>3. CASE \E g \in Conns : \E i \in DOMAIN written[g] : v = written[g][i]
    <2>1. PICK g \in Conns : \E i \in DOMAIN written[g] : v = written[g][i]
      BY <1>3
    <2>2. written[g] \in Seq(SoundVerdicts)
      BY DEF VerdictInv
    <2> QED
      BY <2>1, <2>2
  <1>4. \/ \E i \in DOMAIN marlinTo : v = marlinTo[i]
        \/ \E g \in Conns : v = handler[g].verdict
        \/ \E g \in Conns : \E i \in DOMAIN written[g] : v = written[g][i]
    BY VerdictIn
  <1> QED
    BY <1>1, <1>2, <1>3, <1>4

(* A verdict that allows is the only verdict to its request.               *)
LEMMA AllowedOnce ==
    ASSUME PlaceInv, VerdictInv, NEW v \in AllVerdicts, NEW u \in AllVerdicts,
           v.request = u.request, v.allow = TRUE
    PROVE  u = v
  <1>1. v \in SoundVerdicts
    BY SourceSound DEF NoVerdict, Verdict
  <1>2. /\ v.step = "judge" /\ v.request.content \in {"vote", "block"}
        /\ v.request \in Requests
    BY <1>1 DEF SoundVerdicts, Sound, Verdicts
  <1>3. u \in SoundVerdicts
    BY <1>2, SourceSound DEF NoVerdict, Verdict, NoRequest, Request
  <1>4. u.step = "judge"
    BY <1>2, <1>3 DEF SoundVerdicts, Sound
  <1>5. EndKey(v) = EndKey(u) /\ EndKey(v) # Nothing
    BY <1>2, <1>4 DEF EndKey, Key, Nothing, Requests, Conns
  <1>6. PICK p, x : Source(v, p, x)
    BY Sources
  <1>7. PICK q, y : Source(u, q, y)
    BY Sources
  <1>8. /\ p \in Kinds /\ x \in DOMAIN Where[p] /\ Where[p][x] = EndKey(v)
        /\ q \in Kinds /\ y \in DOMAIN Where[q] /\ Where[q][y] = EndKey(v)
    BY <1>5, <1>6, <1>7, SourceAt
  <1>9. EndKey(v) \in Keys(Where[p]) /\ EndKey(v) \in Keys(Where[q])
    BY <1>5, <1>8 DEF Keys
  <1>10. p = q
    BY <1>8, <1>9 DEF PlaceInv, Placed
  <1>11. x = y
    BY <1>5, <1>8, <1>10 DEF PlaceInv, Placed, Distinct
  <1> QED
    BY <1>6, <1>7, <1>10, <1>11, SourceOfOne

(* A request may be answered several times, but never with an allowing and *)
(* a denying verdict, whichever connections and workers the answers take.  *)
THEOREM NeverContradicting == Spec => []NoContradiction
  <1>1. PlaceInv /\ VerdictInv => NoContradiction
    <2> SUFFICES ASSUME PlaceInv, VerdictInv, NEW v \in AllVerdicts, NEW u \in AllVerdicts,
                        v.request = u.request
                 PROVE  v.allow = u.allow
      BY DEF NoContradiction
    <2>0. NoVerdict.allow \in BOOLEAN /\ \A x \in SoundVerdicts : x.allow \in BOOLEAN
      BY DEF SoundVerdicts, Verdicts, NoVerdict, Verdict
    <2>1. v.allow \in BOOLEAN /\ u.allow \in BOOLEAN
      BY <2>0, SourceSound
    <2>2. v.allow = TRUE => u = v
      BY AllowedOnce
    <2>3. u.allow = TRUE => v = u
      BY AllowedOnce
    <2> QED
      BY <2>1, <2>2, <2>3
  <1> QED
    BY PlaceInvariant, VerdictInvariant, <1>1, PTL
===============================================================================
