---------------------------- MODULE PacketAccess ----------------------------
(***************************************************************************)
(* The iterators a Packet and a TcpPacket keep into their own vectors, and *)
(* what becomes of them when packets are copied (Packet.cpp,               *)
(* TcpPacket.cpp).                                                         *)
(*                                                                         *)
(* m_entryIter and m_packetIter are set by m_parse and moved by            *)
(* getNextEntry and getNextPacket.  Neither class has a copy constructor   *)
(* of its own: the compiler's copies the vector, which gets storage of its *)
(* own, and the iterator, which still points to the storage it was set in. *)
(* An allocation of storage has a number that no later one has: that an    *)
(* address may be used again makes a dead iterator no better.              *)
(*                                                                         *)
(* The calls come from a program that has one TcpPacket, the frame, and    *)
(* one Packet in its hands, as m_processTcpPacket and main.cpp do, and     *)
(* calls the public operations in any order.                               *)
(***************************************************************************)
EXTENDS Integers, Sequences

CONSTANTS
  MaxEntries,    \* entries of a packet
  MaxPackets,    \* packets of a frame
  MaxStorages    \* storages allocated

ASSUME BoundsAssumption == MaxEntries \in Nat /\ MaxPackets \in Nat /\ MaxStorages \in Nat

VARIABLES
  frame,       \* the TcpPacket
  packet,      \* the Packet
  origin,      \* history: how packet came about: "built", "parsed" or "taken"
  appended,    \* history: entries appended to it since
  walked,      \* history: what getNextEntry returned for it
  allocated,   \* the number of the last storage
  undefined    \* the call whose behaviour was not defined, or "none"

vars == <<frame, packet, origin, appended, walked, allocated, undefined>>

-----------------------------------------------------------------------------
(* Vectors and iterators *)

NoStorage == 0     \* an empty vector's

Iterator(data, index) == [vector |-> data, index |-> index]
Singular == Iterator(-1, 0)

\* An iterator of a vector of n elements in storage data can be moved on.
CanAdvance(iter, data, n) == iter.vector = data /\ iter.index < n

\* Mutant: std::prev for std::next.
Prev1(iter) == [iter EXCEPT !.index = @ - 1]

Advanced(iter) == [iter EXCEPT !.index = @ + 1]

Storage(elements, data) == IF elements = <<>> THEN NoStorage ELSE data

-----------------------------------------------------------------------------
(* Packets.  The entries are numbered as they are appended; Nothing is the *)
(* DataEntry() returned where there is none.                               *)

Nothing == 0

NewPacket == [data |-> NoStorage, m_entries |-> <<>>, m_entryIter |-> Singular]

\* How m_parse ends: at the end of its loop, or at an invalid entry.
Endings == {"whole", "cut"}

\* Mutant: the iterator is set before the entries are appended.
ParsedTooEarly(n, how, data) ==
  [data |-> IF n = 0 THEN NoStorage ELSE data,
   m_entries |-> [i \in 1 .. n |-> i],
   m_entryIter |-> IF how = "cut" THEN Singular ELSE Iterator(NoStorage, 0)]

\* m_parse, when it has appended n entries.  A packet cut at an invalid entry
\* is left without an iterator.
Parsed(n, how, data) ==
  LET own == IF n = 0 THEN NoStorage ELSE data
  IN  [data |-> own,
       m_entries |-> [i \in 1 .. n |-> i],
       m_entryIter |-> IF how = "cut" THEN Singular ELSE Iterator(own, 0)]

\* Mutant: the packet is moved, and takes its storage along.
Moved(p, data) == p

\* The implicit copy constructor.
Copy(p, data) == [p EXCEPT !.data = Storage(p.m_entries, data)]

-----------------------------------------------------------------------------
NewFrame == [data |-> NoStorage, m_packets |-> <<>>, m_packetIter |-> Singular]

Init ==
  /\ frame = NewFrame
  /\ packet = NewPacket
  /\ origin = "built" /\ appended = 0 /\ walked = <<>>
  /\ allocated = 0
  /\ undefined = "none"

\* The last call was defined, and what this one allocates is within bounds.
Allocate(n) ==
  /\ undefined = "none"
  /\ allocated' = allocated + n
  /\ allocated' <= MaxStorages
  /\ UNCHANGED undefined

\* The caller's Packet becomes p, and what it was is destroyed.
Obtain(p, from) ==
  /\ packet' = p
  /\ origin' = from
  /\ appended' = 0
  /\ walked' = <<>>

\* Packet(input)
ParsePacket ==
  /\ Allocate(1)
  /\ \E n \in 0 .. MaxEntries, how \in Endings : Obtain(Parsed(n, how, allocated'), "parsed")
  /\ UNCHANGED frame

\* TcpPacket(input): each packet is parsed into a temporary, in one storage,
\* and copied into m_packets, in another.
ParseFrame ==
  \E k \in 1 .. MaxPackets :
    /\ Allocate(2 * k + 1)
    /\ \E n \in [1 .. k -> 0 .. MaxEntries], how \in [1 .. k -> Endings] :
         frame' = [data |-> allocated',
                   m_packets |-> [i \in 1 .. k |->
                      Copy(Parsed(n[i], how[i], allocated + 2 * i - 1), allocated + 2 * i)],
                   m_packetIter |-> Iterator(allocated', 0)]
    /\ UNCHANGED <<packet, origin, appended, walked>>

\* TcpPacket(), or TcpPacket(input) with a size field it refuses.
EmptyFrame ==
  /\ Allocate(0)
  /\ frame' = NewFrame
  /\ UNCHANGED <<packet, origin, appended, walked>>

\* getNextPacket returns a copy, or Packet() at the end.
GetNextPacket ==
  LET iter == Advanced(frame.m_packetIter) IN
  /\ Allocate(1)
  /\ CanAdvance(frame.m_packetIter, frame.data, Len(frame.m_packets))
  /\ frame' = [frame EXCEPT !.m_packetIter = iter]
  /\ \/ /\ iter.index < Len(frame.m_packets)
        /\ Obtain(Copy(frame.m_packets[iter.index + 1], allocated'), "taken")
     \/ /\ iter.index = Len(frame.m_packets)
        /\ Obtain(NewPacket, "built")

\* appendPacket copies the packet in.  If the vector has no room, all its
\* packets are copied to a new storage: they have no move constructor.
AppendPacket ==
  LET k == Len(frame.m_packets) IN
  /\ k < MaxPackets
  /\ \/ /\ frame.data # NoStorage
        /\ Allocate(1)
        /\ frame' = [frame EXCEPT !.m_packets = Append(@, Copy(packet, allocated'))]
     \/ /\ Allocate(k + 2)
        /\ frame' = [frame EXCEPT !.data = allocated',
                       !.m_packets = [i \in 1 .. k + 1 |->
                          Copy(Append(frame.m_packets, packet)[i], allocated + i)]]
  /\ UNCHANGED <<packet, origin, appended, walked>>

\* appendEntry, in place or with the vector moving to a new storage.
AppendEntry ==
  LET entries == Append(packet.m_entries, Len(packet.m_entries) + 1) IN
  /\ Len(packet.m_entries) < MaxEntries
  /\ \/ /\ packet.data # NoStorage
        /\ Allocate(0)
        /\ packet' = [packet EXCEPT !.m_entries = entries]
     \/ /\ Allocate(1)
        /\ packet' = [packet EXCEPT !.m_entries = entries, !.data = allocated']
  /\ appended' = appended + 1
  /\ UNCHANGED <<frame, origin, walked>>

\* Mutant: the entry is read before the iterator is moved.
ReadThenMove(iter) == iter.index

\* The place getNextEntry reads: the iterator is moved first.
PlaceRead(iter) == iter.index + 1

GetNextEntry ==
  LET place == PlaceRead(packet.m_entryIter) IN
  /\ Allocate(0)
  /\ CanAdvance(packet.m_entryIter, packet.data, Len(packet.m_entries))
  /\ packet' = [packet EXCEPT !.m_entryIter = Advanced(@)]
  /\ walked' = Append(walked, IF place < Len(packet.m_entries)
                              THEN packet.m_entries[place + 1] ELSE Nothing)
  /\ UNCHANGED <<frame, origin, appended>>

\* An iterator that is singular, at its end, or of another vector is moved.
UndefinedCall ==
  /\ undefined = "none"
  /\ \/ /\ ~CanAdvance(packet.m_entryIter, packet.data, Len(packet.m_entries))
        /\ undefined' = "getNextEntry"
     \/ /\ ~CanAdvance(frame.m_packetIter, frame.data, Len(frame.m_packets))
        /\ undefined' = "getNextPacket"
  /\ UNCHANGED <<frame, packet, origin, appended, walked, allocated>>

Next ==
  \/ ParsePacket \/ ParseFrame \/ EmptyFrame
  \/ GetNextPacket \/ AppendPacket
  \/ AppendEntry \/ GetNextEntry
  \/ UndefinedCall

Spec == Init /\ [][Next]_vars
-----------------------------------------------------------------------------
(* Properties *)

Iterators == [vector : Int, index : Nat]
Packet    == [data : Nat, m_entries : Seq(Nat), m_entryIter : Iterators]

TypeOK ==
  /\ frame \in [data : Nat, m_packets : Seq(Packet), m_packetIter : Iterators]
  /\ packet \in Packet
  /\ origin \in {"built", "parsed", "taken"}
  /\ appended \in Nat
  /\ walked \in Seq(Nat)
  /\ allocated \in Nat
  /\ undefined \in {"none", "getNextEntry", "getNextPacket"}

Walkable(p) == CanAdvance(p.m_entryIter, p.data, Len(p.m_entries))

\* A packet that has been in a frame cannot be walked with getNextEntry: its
\* iterator points into the storage of a temporary that is gone, or of no
\* vector at all, and nothing done to the packet later mends that
\* (Packet.cpp:67-73, TcpPacket.cpp:36,51).
FrameCopiesUnwalkable ==
  /\ \A k \in DOMAIN frame.m_packets : ~Walkable(frame.m_packets[k])
  /\ origin = "taken" => ~Walkable(packet)

\* Walking a packet skips its first entry, and yields no other one twice
\* (Packet.cpp:69 moves the iterator before it looks).
FirstEntryNeverWalked ==
  \A i \in DOMAIN walked :
    /\ walked[i] # 1
    /\ \A j \in 1 .. i - 1 : walked[i] # Nothing => walked[j] < walked[i]

\* A packet parsed on its own can be walked until it yields Nothing, as long as
\* no entry is appended to it, it was not cut and it is not empty.
WalkDefinedUntilNothing ==
  undefined = "getNextEntry" =>
    \/ origin # "parsed" \/ appended # 0
    \/ packet.m_entries = <<>> \/ packet.m_entryIter = Singular
    \/ walked # <<>> /\ walked[Len(walked)] = Nothing

-----------------------------------------------------------------------------
(* The inductive invariant                                                 *)

\* The packet's storage and its iterator's are among the first n, and its
\* entries are numbered.
Sound(p, n) ==
  /\ p \in Packet
  /\ p.data <= n /\ p.m_entryIter.vector <= n
  /\ p.data = NoStorage <=> p.m_entries = <<>>
  /\ \A i \in DOMAIN p.m_entries : p.m_entries[i] = i

\* The iterator is not one of the packet's own vector.
Foreign(p) == p.data # NoStorage => p.m_entryIter.vector # p.data

\* What is in a frame, or came from one, has a storage its iterator was not
\* set in.
CopiesForeign ==
  /\ \A k \in DOMAIN frame.m_packets :
       Sound(frame.m_packets[k], allocated) /\ Foreign(frame.m_packets[k])
  /\ Sound(packet, allocated)
  /\ origin = "taken" => Foreign(packet)

\* The iterator is past what was walked.
WalkedBehind == \A i \in DOMAIN walked : walked[i] <= packet.m_entryIter.index + 1

\* A packet parsed on its own is walked in its own storage, and getNextEntry
\* has been called once for every place the iterator moved.
WalkedInOwnStorage ==
  origin = "parsed" /\ appended = 0 =>
    \/ packet.m_entries = <<>> \/ packet.m_entryIter = Singular
    \/ /\ packet.m_entryIter = Iterator(packet.data, Len(walked))
       /\ Len(walked) <= Len(packet.m_entries)
       /\ Len(walked) = Len(packet.m_entries) => walked[Len(walked)] = Nothing

\* Nothing happens behind an undefined call, so its reason is still there.
UndefinedForAReason == undefined = "getNextEntry" => ~Walkable(packet)

Inv == TypeOK /\ CopiesForeign /\ WalkedBehind /\ FirstEntryNeverWalked
=============================================================================
