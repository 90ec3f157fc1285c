-------------------------- MODULE ServerLoopProofs --------------------------
(***************************************************************************)
(* Proofs about ServerLoop, for any set of clients, any amount of input    *)
(* and any amount of memory.                                               *)
(***************************************************************************)
EXTENDS ServerLoop, TLAPS

USE ServerAssumption, ClientsAssumption

(* Ownership of a Client object: an operation or a running handler exists  *)
(* only for a connected client, and one that was issued a write is the     *)
(* client whose handler has the thread.                                    *)
Owner(c) ==
  /\ reads[c] \in {0, 1}
  /\ thread = c => reads[c] = 0
  /\ peer[c] # "connected" => reads[c] = 0 /\ thread # c
  /\ writes[c] > 0 => thread = c

Inv == TypeOK /\ \A c \in Clients : Owner(c)

LEMMA InitInv == Init => Inv
BY DEF Init, Inv, TypeOK, Owner, PeerStates

LEMMA NextTyped == TypeOK /\ [Next]_vars => TypeOK'
<1> SUFFICES ASSUME TypeOK, [Next]_vars PROVE TypeOK'
  OBVIOUS
<1> USE DEF TypeOK, PeerStates
<1>1. ASSUME NEW c \in Clients, Connect(c) PROVE TypeOK'
  BY <1>1 DEF Connect
<1>2. ASSUME NEW c \in Clients, Send(c) PROVE TypeOK'
  BY <1>2 DEF Send
<1>3. ASSUME NEW c \in Clients, HangUp(c) PROVE TypeOK'
  BY <1>3 DEF HangUp, Reachable
<1>4. ASSUME NEW c \in Clients, AcceptHandler(c) PROVE TypeOK'
  <2>1. peer' \in [Clients -> PeerStates]
    BY <1>4 DEF AcceptHandler
  <2>2. inbox' \in [Clients -> 0 .. MaxInbox] /\ reads' \in [Clients -> Nat]
    BY <1>4 DEF AcceptHandler, m_read
  <2> QED
    BY <1>4, <2>1, <2>2 DEF AcceptHandler
<1>5. ASSUME NEW c \in Clients, ReadHandler(c) PROVE TypeOK'
  <2>1. PICK n \in 0 .. MaxInbox :
          /\ ReadCompletes(c, n)
          /\ reads' = [reads EXCEPT ![c] = @ - 1]
          /\ \/ thread' = c /\ UNCHANGED peer
             \/ UNCHANGED thread /\ Release(c)
    BY <1>5 DEF ReadHandler
  <2>2. inbox' \in [Clients -> 0 .. MaxInbox]
    BY <2>1 DEF ReadCompletes
  <2>3. reads' \in [Clients -> Nat]
    BY <2>1 DEF ReadCompletes
  <2>4. peer' \in [Clients -> PeerStates]
    BY <2>1 DEF Release
  <2> QED
    BY <1>5, <2>1, <2>2, <2>3, <2>4 DEF ReadHandler
<1>6. ASSUME NEW c \in Clients, WriteTurn(c) PROVE TypeOK'
  BY <1>6 DEF WriteTurn
<1>7. ASSUME NEW c \in Clients, OutOfMemory(c) PROVE TypeOK'
  <2>1. peer' \in [Clients -> PeerStates]
    BY <1>7 DEF OutOfMemory
  <2>2. \A d \in Clients : 0 \in Nat /\ 0 \in 0 .. MaxInbox /\ 0 \in 0 .. MaxWrites
    OBVIOUS
  <2>3. inbox' \in [Clients -> 0 .. MaxInbox]
    BY <1>7, <2>2 DEF OutOfMemory
  <2>4. reads' \in [Clients -> Nat] /\ writes' \in [Clients -> 0 .. MaxWrites]
    BY <1>7, <2>2 DEF OutOfMemory
  <2> QED
    BY <1>7, <2>1, <2>3, <2>4 DEF OutOfMemory
<1>8. CASE UNCHANGED vars
  BY <1>8 DEF vars
<1> QED
  BY <1>1, <1>2, <1>3, <1>4, <1>5, <1>6, <1>7, <1>8 DEF Next, Environment, Server

LEMMA NextOwner ==
  Inv /\ [Next]_vars => \A d \in Clients : Owner(d)'
<1> SUFFICES ASSUME Inv, [Next]_vars, NEW d \in Clients PROVE Owner(d)'
  OBVIOUS
<1> USE DEF Owner
<1>0. TypeOK /\ TypeOK' /\ \A c \in Clients : Owner(c)
  BY NextTyped DEF Inv
<1>1. ASSUME NEW c \in Clients, Connect(c) PROVE Owner(d)'
  BY <1>0, <1>1 DEF Connect, TypeOK
<1>2. ASSUME NEW c \in Clients, Send(c) PROVE Owner(d)'
  BY <1>0, <1>2 DEF Send
<1>3. ASSUME NEW c \in Clients, HangUp(c) PROVE Owner(d)'
  BY <1>0, <1>3 DEF HangUp
<1>4. ASSUME NEW c \in Clients, AcceptHandler(c) PROVE Owner(d)'
  <2>1. CASE d = c
    BY <1>0, <1>4, <2>1 DEF AcceptHandler, m_read, TypeOK
  <2>2. CASE d # c
    BY <1>0, <1>4, <2>2 DEF AcceptHandler, m_read, TypeOK
  <2> QED
    BY <2>1, <2>2
<1>5. ASSUME NEW c \in Clients, ReadHandler(c) PROVE Owner(d)'
  <2>1. PICK n \in 0 .. MaxInbox :
          /\ ReadCompletes(c, n)
          /\ reads' = [reads EXCEPT ![c] = @ - 1]
          /\ writes' = writes
          /\ \/ thread' = c /\ UNCHANGED peer
             \/ UNCHANGED thread /\ Release(c)
    BY <1>5 DEF ReadHandler
  <2>2. thread = Idle /\ reads[c] = 1 /\ peer[c] = "connected"
    BY <1>0, <2>1 DEF ReadCompletes
  <2>3. writes[d] = 0
    BY <1>0, <2>2 DEF TypeOK
  <2>4. CASE d = c
    BY <1>0, <2>1, <2>2, <2>3, <2>4 DEF Release, TypeOK
  <2>5. CASE d # c
    BY <1>0, <2>1, <2>2, <2>3, <2>5 DEF Release, TypeOK
  <2> QED
    BY <2>4, <2>5
<1>6. ASSUME NEW c \in Clients, WriteTurn(c) PROVE Owner(d)'
  BY <1>0, <1>6 DEF WriteTurn, TypeOK
<1>7. ASSUME NEW c \in Clients, OutOfMemory(c) PROVE Owner(d)'
  BY <1>7 DEF OutOfMemory
<1>8. CASE UNCHANGED vars
  BY <1>0, <1>8 DEF vars
<1> QED
  BY <1>1, <1>2, <1>3, <1>4, <1>5, <1>6, <1>7, <1>8 DEF Next, Environment, Server

\* The strengthened invariant holds of every run of the server.
THEOREM Invariance == Spec => []Inv
<1>1. Inv /\ [Next]_vars => Inv'
  BY NextTyped, NextOwner DEF Inv
<1> QED
  BY <1>1, InitInv, PTL DEF Spec

\* The counters and states of the connections stay in their bounds.
THEOREM TypeCorrect == Spec => []TypeOK
<1>1. Inv => TypeOK
  BY DEF Inv
<1> QED
  BY <1>1, Invariance, PTL

\* No two reads, and no read and handler, share a client's receive buffer.
THEOREM OneOwner == Spec => []BufferHasOneOwner
<1>1. ASSUME Inv, NEW c \in Clients
      PROVE  reads[c] + (IF thread = c THEN 1 ELSE 0) <= 1
  <2>1. reads[c] \in {0, 1} /\ (thread = c => reads[c] = 0)
    BY <1>1 DEF Inv, Owner
  <2>2. CASE thread = c
    BY <2>1, <2>2
  <2>3. CASE thread # c
    BY <2>1, <2>3
  <2> QED
    BY <2>2, <2>3
<1>2. Inv => BufferHasOneOwner
  BY <1>1 DEF BufferHasOneOwner
<1> QED
  BY <1>2, Invariance, PTL

\* With a write outstanding the thread is in the loop that issued it: the
\* completion handler of m_write cannot run, however many clients there are.
THEOREM NoCompletion == Spec => []WritesNeverComplete
<1>1. Inv => WritesNeverComplete
  BY DEF Inv, Owner, WritesNeverComplete
<1> QED
  BY <1>1, Invariance, PTL

\* A connection is closed by the server only after its peer hung up, or with
\* the process.
THEOREM DropsJustified == Spec => DropsOnlyWhoHungUp
<1>1. ASSUME Inv, [Next]_vars, NEW d \in Clients, peer[d] = "connected", peer'[d] = "dropped"
      PROVE  d \in hungUp \/ thread' = Down
  <2>0. TypeOK
    BY <1>1 DEF Inv
  <2>1. ASSUME NEW c \in Clients, Connect(c) PROVE FALSE
    BY <1>1, <2>0, <2>1 DEF Connect, TypeOK
  <2>2. ASSUME NEW c \in Clients, Send(c) \/ HangUp(c) \/ WriteTurn(c) PROVE FALSE
    BY <1>1, <2>2 DEF Send, HangUp, WriteTurn
  <2>3. ASSUME NEW c \in Clients, AcceptHandler(c) PROVE FALSE
    BY <1>1, <2>0, <2>3 DEF AcceptHandler, TypeOK
  <2>4. ASSUME NEW c \in Clients, ReadHandler(c) PROVE d \in hungUp
    <3>1. PICK n \in 0 .. MaxInbox :
            ReadCompletes(c, n) /\ ((n # 0 /\ UNCHANGED peer) \/ (n = 0 /\ Release(c)))
      BY <2>4 DEF ReadHandler
    <3>2. n = 0 /\ Release(c) /\ c \in hungUp
      BY <1>1, <3>1 DEF ReadCompletes
    <3>3. d = c
      BY <1>1, <2>0, <3>2 DEF Release, TypeOK
    <3> QED
      BY <3>2, <3>3
  <2>5. ASSUME NEW c \in Clients, OutOfMemory(c) PROVE thread' = Down
    BY <2>5 DEF OutOfMemory
  <2>6. CASE UNCHANGED vars
    BY <1>1, <2>6 DEF vars
  <2> QED
    BY <1>1, <2>1, <2>2, <2>3, <2>4, <2>5, <2>6 DEF Next, Environment, Server
<1>2. Inv /\ [Next]_vars => [DropIsJustified]_vars
  BY <1>1 DEF DropIsJustified
<1> QED
  BY <1>2, Invariance, PTL DEF Spec, DropsOnlyWhoHungUp
=============================================================================
