----------------------------- MODULE ServerLoop -----------------------------
(***************************************************************************)
(* The event loop: Server::accept, Client::m_read and Client::m_write on   *)
(* the one thread that calls io_context::run (Server.cpp, Client.cpp).     *)
(*                                                                         *)
(* asio runs a completion handler when its operation is complete and the   *)
(* thread is free.  The handler of an accept is one action.  The handler   *)
(* of a read loops `while(start != end)' without moving start, so reading  *)
(* and each turn of the loop are actions of their own.                     *)
(*                                                                         *)
(* The handler of a write (it calls m_read) is no action: it runs on a     *)
(* free thread only, and the thread that issued a write never is.          *)
(* WritesNeverComplete states so.                                          *)
(***************************************************************************)
EXTENDS Naturals

CONSTANTS
  Clients,     \* the peers that may connect
  MaxInbox,    \* bound: what a peer has sent and the server has not read
  MaxWrites    \* the outstanding writes that fit into memory

ASSUME ServerAssumption == MaxInbox \in Nat \ {0} /\ MaxWrites \in Nat \ {0}

VARIABLES
  thread,      \* Idle, the client whose read handler is running, or Down
  accepting,   \* an async_accept is outstanding
  peer,        \* where the connection of each peer is
  hungUp,      \* the peers that have shut down or reset their end
  inbox,       \* what each peer has sent and the server has not read
  reads,       \* outstanding async_read_some of each Client object
  writes       \* outstanding async_write of each Client object

vars == <<thread, accepting, peer, hungUp, inbox, reads, writes>>

Idle == "idle"
Down == "down"      \* an exception left io_context::run; main returns

ASSUME ClientsAssumption == Idle \notin Clients /\ Down \notin Clients

PeerStates == {"away", "backlog", "connected", "dropped"}

TypeOK ==
  /\ thread \in Clients \cup {Idle, Down}
  /\ accepting \in BOOLEAN
  /\ peer \in [Clients -> PeerStates]
  /\ hungUp \subseteq Clients
  /\ inbox \in [Clients -> 0 .. MaxInbox]
  /\ reads \in [Clients -> Nat]
  /\ writes \in [Clients -> 0 .. MaxWrites]

\* Server::start has called accept, and runs the loop.
Init ==
  /\ thread = Idle
  /\ accepting = TRUE
  /\ peer = [c \in Clients |-> "away"]
  /\ hungUp = {}
  /\ inbox = [c \in Clients |-> 0]
  /\ reads = [c \in Clients |-> 0]
  /\ writes = [c \in Clients |-> 0]

-----------------------------------------------------------------------------
(* The peers.  They act at any time, the kernel queues what they do. *)

Reachable(c) == peer[c] \in {"backlog", "connected"} /\ c \notin hungUp

Connect(c) ==
  /\ peer[c] = "away"
  /\ thread # Down
  /\ peer' = [peer EXCEPT ![c] = "backlog"]
  /\ UNCHANGED <<thread, accepting, hungUp, inbox, reads, writes>>

Send(c) ==
  /\ Reachable(c)
  /\ inbox[c] < MaxInbox
  /\ inbox' = [inbox EXCEPT ![c] = @ + 1]
  /\ UNCHANGED <<thread, accepting, peer, hungUp, reads, writes>>

HangUp(c) ==
  /\ Reachable(c)
  /\ hungUp' = hungUp \cup {c}
  /\ UNCHANGED <<thread, accepting, peer, inbox, reads, writes>>

-----------------------------------------------------------------------------
(* The server *)

\* m_read: the buffer is resized and handed to an async_read_some.
m_read(c) == reads' = [reads EXCEPT ![c] = @ + 1]

\* Mutant: the next accept is issued only when this one succeeded.
AcceptOnSuccessOnly(c) ==
  /\ thread = Idle /\ accepting /\ peer[c] = "backlog"
  /\ \/ peer' = [peer EXCEPT ![c] = "connected"] /\ m_read(c) /\ UNCHANGED <<inbox, accepting>>
     \/ /\ peer' = [peer EXCEPT ![c] = "dropped"]
        /\ inbox' = [inbox EXCEPT ![c] = 0]
        /\ accepting' = FALSE
        /\ UNCHANGED reads
  /\ UNCHANGED <<thread, hungUp, writes>>

\* The handler of accept: a Client is made and started, unless the connection
\* was aborted in the backlog, and the next accept is issued.  An error that
\* leaves the peer there (no descriptor is free) changes nothing: it is a
\* stuttering step, and that it does not come for ever a part of the fairness.
AcceptHandler(c) ==
  /\ thread = Idle /\ accepting /\ peer[c] = "backlog"
  /\ \/ peer' = [peer EXCEPT ![c] = "connected"] /\ m_read(c) /\ UNCHANGED inbox
     \/ /\ peer' = [peer EXCEPT ![c] = "dropped"]
        /\ inbox' = [inbox EXCEPT ![c] = 0]
        /\ UNCHANGED reads
  /\ accepting' = TRUE
  /\ UNCHANGED <<thread, hungUp, writes>>

\* A handler has let go of its shared pointer; the Client is destroyed, and
\* its socket closed, if no operation holds another.
Release(c) ==
  peer' = IF reads'[c] + writes'[c] = 0 THEN [peer EXCEPT ![c] = "dropped"] ELSE peer

\* Mutant: the handler takes the size of the buffer for what was received.
CompletesWithAnyLength(c, n) ==
  /\ thread = Idle /\ reads[c] > 0
  /\ \/ n \in 1 .. MaxInbox /\ inbox' = [inbox EXCEPT ![c] = @ - n]
     \/ n = 0 /\ c \in hungUp /\ inbox' = [inbox EXCEPT ![c] = 0]

\* The read has completed with n bytes: what the peer sent, in full or in
\* part; or nothing, at the end of the stream or with an error, which is
\* logged and may have cost what was not yet read.
ReadCompletes(c, n) ==
  /\ thread = Idle /\ reads[c] > 0
  /\ \/ n \in 1 .. inbox[c] /\ inbox' = [inbox EXCEPT ![c] = @ - n]
     \/ n = 0 /\ c \in hungUp /\ inbox' = [inbox EXCEPT ![c] = 0]

\* Mutants: an empty read is tried again; the handler writes nothing.
ReadAgainWhenEmpty(c) ==
  \E n \in 0 .. MaxInbox :
    /\ ReadCompletes(c, n)
    /\ IF n = 0 THEN UNCHANGED <<thread, reads>>
                ELSE thread' = c /\ reads' = [reads EXCEPT ![c] = @ - 1]
    /\ UNCHANGED <<accepting, peer, hungUp, writes>>
ReadAndReturn(c) ==
  \E n \in 0 .. MaxInbox :
    /\ ReadCompletes(c, n)
    /\ reads' = [reads EXCEPT ![c] = @ - 1]
    /\ UNCHANGED <<thread, accepting, hungUp, writes>>
    /\ Release(c)

\* The handler of a read up to its loop, which an empty buffer skips.
ReadHandler(c) ==
  \E n \in 0 .. MaxInbox :
    /\ ReadCompletes(c, n)
    /\ reads' = [reads EXCEPT ![c] = @ - 1]
    /\ UNCHANGED <<accepting, hungUp, writes>>
    /\ \/ n # 0 /\ thread' = c /\ UNCHANGED peer
       \/ n = 0 /\ UNCHANGED thread /\ Release(c)

\* Mutants: the turn reads as well; it is the last one; it waits for the
\* write before it issues another.
WriteAndRead(c) ==
  /\ thread = c
  /\ writes[c] < MaxWrites
  /\ writes' = [writes EXCEPT ![c] = @ + 1]
  /\ m_read(c)
  /\ UNCHANGED <<thread, accepting, peer, hungUp, inbox>>
WriteOnce(c) ==
  /\ thread = c
  /\ writes[c] < MaxWrites
  /\ writes' = [writes EXCEPT ![c] = @ + 1]
  /\ thread' = Idle
  /\ UNCHANGED <<accepting, peer, hungUp, inbox, reads>>
WriteOneAtATime(c) ==
  /\ thread = c
  /\ writes[c] = 0
  /\ writes' = [writes EXCEPT ![c] = 1]
  /\ UNCHANGED <<thread, accepting, peer, hungUp, inbox, reads>>

\* One turn of the loop of the read handler: m_write issues an async_write of
\* the answer, and start is where it was.
WriteTurn(c) ==
  /\ thread = c
  /\ writes[c] < MaxWrites
  /\ writes' = [writes EXCEPT ![c] = @ + 1]
  /\ UNCHANGED <<thread, accepting, peer, hungUp, inbox, reads>>

\* A turn finds no memory for its operation.  The exception passes through
\* run and start, main catches it, and the process ends.
OutOfMemory(c) ==
  /\ thread = c
  /\ writes[c] = MaxWrites
  /\ thread' = Down
  /\ accepting' = FALSE
  /\ peer' = [d \in Clients |-> IF peer[d] = "away" THEN "away" ELSE "dropped"]
  /\ inbox' = [d \in Clients |-> 0]
  /\ reads' = [d \in Clients |-> 0]
  /\ writes' = [d \in Clients |-> 0]
  /\ UNCHANGED hungUp

Environment == \E c \in Clients : Connect(c) \/ Send(c) \/ HangUp(c)

Server(c) == AcceptHandler(c) \/ ReadHandler(c) \/ WriteTurn(c) \/ OutOfMemory(c)

Next == Environment \/ \E c \in Clients : Server(c)

\* The queue of asio is a FIFO and the thread takes from it whenever it is
\* free, so no handler that is ready waits for ever.  Peers owe nothing.
Spec == Init /\ [][Next]_vars /\ \A c \in Clients : WF_vars(Server(c))
-----------------------------------------------------------------------------
(* Properties *)

\* A Client has one receive buffer.  It belongs to one outstanding read or to
\* the handler that goes through it, never to two of them.
BufferHasOneOwner ==
  \A c \in Clients : reads[c] + (IF thread = c THEN 1 ELSE 0) <= 1

\* The handler of a write never gets to run, and so no client is read a
\* second time: while a write is outstanding the thread is taken.
WritesNeverComplete ==
  (\E c \in Clients : writes[c] > 0) => thread \in Clients

\* The server drops a connection only after its peer hung up, as long as the
\* process lives.
DropIsJustified ==
  \A c \in Clients :
     peer[c] = "connected" /\ peer'[c] = "dropped" => c \in hungUp \/ thread' = Down

DropsOnlyWhoHungUp == [][DropIsJustified]_vars

\* Who waits in the backlog is taken from it, unless the handler of a read
\* has the thread.
AcceptedUnlessCaptured ==
  \A c \in Clients : (peer[c] = "backlog") ~> (peer[c] # "backlog" \/ thread # Idle)

\* A client that hung up is released, unless the thread is taken: a silent
\* one keeps neither its object nor its socket.
ReleasedUnlessCaptured ==
  \A c \in Clients :
     (peer[c] = "connected" /\ c \in hungUp) ~> (peer[c] = "dropped" \/ thread # Idle)

\* Whatever a client sends ends the server: the loop of the read handler
\* stops only when there is no memory left for another write.
AnyInputIsFatal ==
  \A c \in Clients :
     (peer[c] = "connected" /\ inbox[c] > 0) ~> (thread = Down \/ c \in hungUp)

\* What a connected client sends is read: main.cpp records a session in which
\* packets are received one after the other.
EveryMessageIsRead ==
  \A c \in Clients :
     (peer[c] = "connected" /\ inbox[c] > 0) ~> (inbox[c] = 0 /\ thread # Down)
=============================================================================
