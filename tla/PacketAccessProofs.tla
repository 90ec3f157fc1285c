------------------------- MODULE PacketAccessProofs -------------------------
(***************************************************************************)
(* Proofs about PacketAccess, for packets and frames of every size and any *)
(* sequence of calls.                                                      *)
(***************************************************************************)
EXTENDS PacketAccess, TLAPS

-----------------------------------------------------------------------------
(* Packets *)

\* push_back keeps what was there, and puts the element behind it.
LEMMA AppendFacts ==
  ASSUME NEW S, NEW s \in Seq(S), NEW e \in S
  PROVE  /\ Append(s, e) \in Seq(S) /\ Append(s, e) # <<>>
         /\ DOMAIN Append(s, e) = 1 .. Len(s) + 1
         /\ Append(s, e)[Len(s) + 1] = e
         /\ \A i \in 1 .. Len(s) : Append(s, e)[i] = s[i]
OBVIOUS

LEMMA NewPacketSound ==
  ASSUME NEW n \in Nat
  PROVE  Sound(NewPacket, n)
BY DEF Sound, NewPacket, Packet, Iterators, Singular, Iterator, NoStorage

LEMMA SoundLater ==
  ASSUME NEW n \in Nat, NEW m \in Nat, n <= m, NEW p, Sound(p, n)
  PROVE  Sound(p, m)
BY DEF Sound, Packet, Iterators

\* What m_parse leaves in a packet.
LEMMA ParsedSound ==
  ASSUME NEW n \in Nat, NEW how \in Endings, NEW d \in Nat \ {0}
  PROVE  Sound(Parsed(n, how, d), d)
<1> DEFINE entries == [i \in 1 .. n |-> i]
<1> DEFINE p == Parsed(n, how, d)
<1>1. entries \in Seq(Nat) /\ DOMAIN entries = 1 .. n
  OBVIOUS
<1>2. entries = <<>> <=> n = 0
  BY <1>1
<1>3. \A i \in DOMAIN entries : entries[i] = i
  OBVIOUS
<1>4. /\ p.data = IF n = 0 THEN NoStorage ELSE d
      /\ p.m_entries = entries
      /\ p.m_entryIter = IF how = "cut" THEN Singular ELSE Iterator(p.data, 0)
      /\ p = [data |-> p.data, m_entries |-> entries, m_entryIter |-> p.m_entryIter]
  BY DEF Parsed
<1>5. p.data \in Nat /\ p.data <= d
  BY <1>4 DEF NoStorage
<1>6. p.m_entryIter \in Iterators /\ p.m_entryIter.vector <= d
  BY <1>4, <1>5 DEF Iterators, Iterator, Singular
<1>7. p \in Packet
  BY <1>1, <1>4, <1>5, <1>6 DEF Packet
<1>8. p.data = NoStorage <=> p.m_entries = <<>>
  BY <1>2, <1>4 DEF NoStorage
<1> HIDE DEF entries, p
<1>9. Sound(p, d)
  BY <1>3, <1>4, <1>5, <1>6, <1>7, <1>8 DEF Sound
<1> QED
  BY <1>9 DEF p

\* A copy into a storage that did not exist keeps the iterator out of it.
LEMMA CopySound ==
  ASSUME NEW n \in Nat, NEW p, Sound(p, n), NEW d \in Nat, n < d
  PROVE  Sound(Copy(p, d), d) /\ Foreign(Copy(p, d))
<1>1. p \in Packet /\ p.m_entryIter.vector \in Int /\ p.data \in Nat
  BY DEF Sound, Packet, Iterators
<1>2. /\ Copy(p, d) \in Packet
      /\ Copy(p, d).m_entries = p.m_entries
      /\ Copy(p, d).m_entryIter = p.m_entryIter
      /\ Copy(p, d).data = IF p.m_entries = <<>> THEN NoStorage ELSE d
  BY <1>1 DEF Copy, Storage, Packet, NoStorage
<1> QED
  BY <1>1, <1>2 DEF Sound, Foreign, NoStorage

\* Without an iterator into its own vector a packet cannot be walked.
LEMMA ForeignUnwalkable ==
  ASSUME NEW n \in Nat, NEW p, Sound(p, n), Foreign(p)
  PROVE  ~Walkable(p)
<1>1. CASE p.data # NoStorage
  BY <1>1 DEF Foreign, Walkable, CanAdvance
<1>2. CASE p.data = NoStorage
  <2>1. Len(p.m_entries) = 0 /\ p.m_entryIter.index \in Nat
    BY <1>2 DEF Sound, Packet, Iterators
  <2> QED
    BY <2>1 DEF Walkable, CanAdvance
<1> QED
  BY <1>1, <1>2

-----------------------------------------------------------------------------
(* The two halves of the state *)

Frames == [data : Nat, m_packets : Seq(Packet), m_packetIter : Iterators]

FrameSound(f, n) ==
  /\ f \in Frames
  /\ \A k \in DOMAIN f.m_packets : Sound(f.m_packets[k], n) /\ Foreign(f.m_packets[k])

PacketSound ==
  /\ Sound(packet, allocated)
  /\ origin \in {"built", "parsed", "taken"} /\ appended \in Nat
  /\ origin = "taken" => Foreign(packet)
  /\ walked \in Seq(Nat)
  /\ WalkedBehind /\ FirstEntryNeverWalked

InvHalves ==
  /\ allocated \in Nat /\ undefined \in {"none", "getNextEntry", "getNextPacket"}
  /\ FrameSound(frame, allocated)
  /\ PacketSound

LEMMA Halves == Inv <=> InvHalves
<1>1. Sound(packet, allocated) => packet \in Packet
  BY DEF Sound
<1> QED
  BY <1>1 DEF Inv, InvHalves, TypeOK, CopiesForeign, FrameSound, PacketSound, Frames

LEMMA FrameLater ==
  ASSUME NEW n \in Nat, NEW m \in Nat, n <= m, NEW f, FrameSound(f, n)
  PROVE  FrameSound(f, m)
BY SoundLater DEF FrameSound

LEMMA PacketLater ==
  ASSUME allocated \in Nat, allocated' \in Nat, allocated <= allocated', PacketSound,
         UNCHANGED <<packet, origin, appended, walked>>
  PROVE  PacketSound'
<1>1. Sound(packet', allocated')
  BY SoundLater DEF PacketSound
<1> QED
  BY <1>1 DEF PacketSound, WalkedBehind, FirstEntryNeverWalked

\* A packet just obtained has not been walked.
LEMMA ObtainSound ==
  ASSUME NEW p, Sound(p, allocated'), NEW from \in {"built", "parsed", "taken"},
         from = "taken" => Foreign(p), Obtain(p, from)
  PROVE  PacketSound'
<1>1. packet' = p /\ origin' = from /\ appended' = 0 /\ walked' = <<>>
  BY DEF Obtain
<1>2. WalkedBehind' /\ FirstEntryNeverWalked'
  BY <1>1 DEF WalkedBehind, FirstEntryNeverWalked
<1> QED
  BY <1>1, <1>2 DEF PacketSound

LEMMA AllocateLater ==
  ASSUME NEW n \in Nat, allocated \in Nat, Allocate(n)
  PROVE  /\ allocated' \in Nat /\ allocated' = allocated + n
         /\ allocated <= allocated' /\ undefined' = undefined
BY DEF Allocate

LEMMA InitInv == Init => InvHalves
<1> SUFFICES ASSUME Init PROVE InvHalves
  OBVIOUS
<1>1. /\ allocated = 0 /\ undefined = "none" /\ packet = NewPacket /\ frame = NewFrame
      /\ origin = "built" /\ appended = 0 /\ walked = <<>>
  BY DEF Init
<1>2. NewFrame \in Frames /\ NewFrame.m_packets = <<>>
  BY DEF NewFrame, Frames, Iterators, Iterator, Singular, NoStorage
<1>3. FrameSound(frame, allocated)
  BY <1>1, <1>2 DEF FrameSound
<1>4. Sound(packet, allocated)
  BY <1>1, NewPacketSound
<1> QED
  BY <1>1, <1>3, <1>4 DEF InvHalves, PacketSound, WalkedBehind, FirstEntryNeverWalked

LEMMA NextInv == InvHalves /\ [Next]_vars => InvHalves'
<1> SUFFICES ASSUME InvHalves, [Next]_vars PROVE InvHalves'
  OBVIOUS
<1>0. /\ allocated \in Nat /\ undefined \in {"none", "getNextEntry", "getNextPacket"}
      /\ FrameSound(frame, allocated) /\ PacketSound /\ Sound(packet, allocated)
      /\ frame \in Frames
  BY DEF InvHalves, PacketSound, FrameSound
\* A step that allocates and leaves one half of the state alone.
<1>F. ASSUME NEW n \in Nat, Allocate(n), frame' = frame, PacketSound'
      PROVE  InvHalves'
  BY <1>0, <1>F, AllocateLater, FrameLater DEF InvHalves
<1>P. ASSUME NEW n \in Nat, Allocate(n), UNCHANGED <<packet, origin, appended, walked>>,
             FrameSound(frame', allocated')
      PROVE  InvHalves'
  BY <1>0, <1>P, AllocateLater, PacketLater DEF InvHalves
<1>1. CASE ParsePacket
  <2>1. PICK n \in 0 .. MaxEntries, how \in Endings : Obtain(Parsed(n, how, allocated'), "parsed")
    BY <1>1 DEF ParsePacket
  <2>2. allocated' \in Nat \ {0} /\ Allocate(1) /\ frame' = frame /\ n \in Nat
    BY <1>0, <1>1, AllocateLater DEF ParsePacket
  <2>3. Sound(Parsed(n, how, allocated'), allocated')
    BY <2>2, ParsedSound
  <2>4. PacketSound'
    BY <2>1, <2>3, ObtainSound
  <2> QED
    BY <2>2, <2>4, <1>F
<1>2. CASE ParseFrame
  <2>1. PICK k \in 1 .. MaxPackets :
          /\ Allocate(2 * k + 1)
          /\ \E n \in [1 .. k -> 0 .. MaxEntries], how \in [1 .. k -> Endings] :
               frame' = [data |-> allocated',
                         m_packets |-> [i \in 1 .. k |->
                            Copy(Parsed(n[i], how[i], allocated + 2 * i - 1), allocated + 2 * i)],
                         m_packetIter |-> Iterator(allocated', 0)]
          /\ UNCHANGED <<packet, origin, appended, walked>>
    BY <1>2 DEF ParseFrame
  <2>2. PICK n \in [1 .. k -> 0 .. MaxEntries], how \in [1 .. k -> Endings] :
          frame' = [data |-> allocated',
                    m_packets |-> [i \in 1 .. k |->
                       Copy(Parsed(n[i], how[i], allocated + 2 * i - 1), allocated + 2 * i)],
                    m_packetIter |-> Iterator(allocated', 0)]
    BY <2>1
  <2> DEFINE ps == [i \in 1 .. k |->
                 Copy(Parsed(n[i], how[i], allocated + 2 * i - 1), allocated + 2 * i)]
  <2>3. k \in Nat /\ allocated' \in Nat /\ allocated' = allocated + (2 * k + 1)
    BY <1>0, <2>1, AllocateLater
  <2>4. ASSUME NEW i \in 1 .. k
        PROVE  Sound(ps[i], allocated') /\ Foreign(ps[i])
    <3> DEFINE a == allocated + 2 * i - 1
    <3> DEFINE p == Parsed(n[i], how[i], a)
    <3>1. a \in Nat \ {0} /\ a + 1 \in Nat /\ a < a + 1 /\ a + 1 <= allocated'
      BY <1>0, <2>3
    <3>2. n[i] \in Nat /\ how[i] \in Endings
      OBVIOUS
    <3> HIDE DEF a
    <3>3. Sound(p, a)
      BY <3>1, <3>2, ParsedSound
    <3> HIDE DEF p
    <3>4. Sound(Copy(p, a + 1), a + 1) /\ Foreign(Copy(p, a + 1))
      BY <3>1, <3>3, CopySound
    <3>5. Sound(Copy(p, a + 1), allocated')
      BY <2>3, <3>1, <3>4, SoundLater
    <3>6. a + 1 = allocated + 2 * i
      BY <1>0 DEF a
    <3>7. ps[i] = Copy(p, a + 1)
      BY <3>6 DEF p, a
    <3> QED
      BY <3>4, <3>5, <3>7
  <2>5. ps \in Seq(Packet) /\ DOMAIN ps = 1 .. k
    BY <2>3, <2>4 DEF Sound
  <2>6. frame' = [data |-> allocated', m_packets |-> ps, m_packetIter |-> Iterator(allocated', 0)]
    BY <2>2
  <2> HIDE DEF ps
  <2>7. frame' \in Frames /\ frame'.m_packets = ps
    BY <2>3, <2>5, <2>6 DEF Frames, Iterators, Iterator
  <2>8. FrameSound(frame', allocated')
    BY <2>4, <2>5, <2>7 DEF FrameSound
  <2> QED
    BY <2>1, <2>3, <2>8, <1>P
<1>3. CASE EmptyFrame
  <2>1. NewFrame \in Frames /\ NewFrame.m_packets = <<>>
    BY DEF NewFrame, Frames, Iterators, Iterator, Singular, NoStorage
  <2>2. FrameSound(frame', allocated')
    BY <1>3, <2>1 DEF EmptyFrame, FrameSound
  <2> QED
    BY <1>3, <2>2, <1>P DEF EmptyFrame
<1>4. CASE GetNextPacket
  <2> DEFINE iter == Advanced(frame.m_packetIter)
  <2>1. /\ allocated' \in Nat /\ allocated' = allocated + 1 /\ undefined' = undefined
        /\ allocated < allocated' /\ allocated <= allocated'
    BY <1>0, <1>4, AllocateLater DEF GetNextPacket
  <2>2. iter \in Iterators /\ frame' = [frame EXCEPT !.m_packetIter = iter]
    BY <1>0, <1>4 DEF GetNextPacket, Advanced, Frames, Iterators
  <2>3. frame' \in Frames /\ frame'.m_packets = frame.m_packets
    BY <1>0, <2>2 DEF Frames
  <2>4. FrameSound(frame', allocated')
    BY <1>0, <2>1, <2>3, SoundLater DEF FrameSound
  <2>5. CASE /\ iter.index < Len(frame.m_packets)
             /\ Obtain(Copy(frame.m_packets[iter.index + 1], allocated'), "taken")
    <3>1. iter.index + 1 \in DOMAIN frame.m_packets
      BY <1>0, <2>2, <2>5 DEF Frames, Iterators
    <3>2. Sound(frame.m_packets[iter.index + 1], allocated)
      BY <1>0, <3>1 DEF FrameSound
    <3> DEFINE p == Copy(frame.m_packets[iter.index + 1], allocated')
    <3>3. Sound(p, allocated') /\ Foreign(p)
      BY <1>0, <2>1, <3>2, CopySound
    <3>4. Obtain(p, "taken")
      BY <2>5
    <3> HIDE DEF p
    <3> QED
      BY <1>0, <2>1, <2>4, <3>3, <3>4, ObtainSound DEF InvHalves
  <2>6. CASE Obtain(NewPacket, "built")
    <3>1. Sound(NewPacket, allocated')
      BY <2>1, NewPacketSound
    <3> QED
      BY <1>0, <2>1, <2>4, <2>6, <3>1, ObtainSound DEF InvHalves
  <2> QED
    BY <1>4, <2>5, <2>6 DEF GetNextPacket
<1>5. CASE AppendPacket
  <2> DEFINE k == Len(frame.m_packets)
  <2>1. k \in Nat /\ frame.m_packets \in Seq(Packet) /\ DOMAIN frame.m_packets = 1 .. k
    BY <1>0 DEF Frames
  <2>2. packet \in Packet
    BY <1>0 DEF Sound
  \* In place: one copy more.
  <2>3. CASE Allocate(1) /\ frame' = [frame EXCEPT !.m_packets = Append(@, Copy(packet, allocated'))]
    <3> DEFINE p == Copy(packet, allocated')
    <3>1. /\ allocated' \in Nat /\ allocated < allocated' /\ allocated <= allocated'
      BY <1>0, <2>3, AllocateLater
    <3>2. Sound(p, allocated') /\ Foreign(p) /\ p \in Packet
      BY <1>0, <3>1, CopySound DEF Sound
    <3>3. frame' = [frame EXCEPT !.m_packets = Append(@, p)]
      BY <2>3
    <3> HIDE DEF p, k
    <3> DEFINE ps == Append(frame.m_packets, p)
    <3>4. /\ ps \in Seq(Packet) /\ ps[k + 1] = p /\ DOMAIN ps = 1 .. k + 1
          /\ \A i \in 1 .. k : ps[i] = frame.m_packets[i]
      BY <2>1, <3>2 DEF k
    <3>5. frame' \in Frames /\ frame'.m_packets = ps
      BY <1>0, <3>3, <3>4 DEF Frames
    <3> HIDE DEF ps
    <3>6. ASSUME NEW i \in 1 .. k + 1
          PROVE  Sound(ps[i], allocated') /\ Foreign(ps[i])
      <4>1. CASE i \in 1 .. k
        BY <1>0, <2>1, <3>1, <3>4, <4>1, SoundLater DEF FrameSound
      <4>2. CASE i = k + 1
        BY <3>2, <3>4, <4>2
      <4> QED
        BY <2>1, <4>1, <4>2
    <3>7. FrameSound(frame', allocated')
      BY <3>4, <3>5, <3>6 DEF FrameSound
    <3> QED
      BY <1>5, <2>3, <3>7, <1>P DEF AppendPacket
  \* In a new storage: all packets are copied.
  <2>4. CASE /\ Allocate(k + 2)
             /\ frame' = [frame EXCEPT !.data = allocated',
                            !.m_packets = [i \in 1 .. k + 1 |->
                               Copy(Append(frame.m_packets, packet)[i], allocated + i)]]
    <3> DEFINE all == Append(frame.m_packets, packet)
    <3> DEFINE ps == [i \in 1 .. k + 1 |-> Copy(all[i], allocated + i)]
    <3>1. allocated' \in Nat /\ allocated' = allocated + (k + 2) /\ k + 2 \in Nat
      BY <1>0, <2>1, <2>4, AllocateLater
    <3>2. frame' = [frame EXCEPT !.data = allocated', !.m_packets = ps]
      BY <2>4
    <3> HIDE DEF k
    <3>3. /\ all[k + 1] = packet /\ DOMAIN all = 1 .. k + 1
          /\ \A i \in 1 .. k : all[i] = frame.m_packets[i]
      BY <2>1, <2>2 DEF k
    <3> HIDE DEF all
    <3>4. \A i \in 1 .. k + 1 : Sound(all[i], allocated)
      <4> SUFFICES ASSUME NEW i \in 1 .. k + 1 PROVE Sound(all[i], allocated)
        OBVIOUS
      <4>1. CASE i \in 1 .. k
        BY <1>0, <2>1, <3>3, <4>1 DEF FrameSound
      <4>2. CASE i = k + 1
        BY <1>0, <3>3, <4>2
      <4> QED
        BY <2>1, <4>1, <4>2
    <3>5. ASSUME NEW i \in 1 .. k + 1
          PROVE  Sound(ps[i], allocated') /\ Foreign(ps[i])
      <4> DEFINE d == allocated + i
      <4>1. d \in Nat /\ allocated < d /\ d <= allocated'
        BY <1>0, <2>1, <3>1
      <4>2. Sound(all[i], allocated)
        BY <3>4
      <4>3. ps[i] = Copy(all[i], d)
        OBVIOUS
      <4> HIDE DEF d, ps
      <4>4. Sound(Copy(all[i], d), d) /\ Foreign(Copy(all[i], d))
        BY <1>0, <4>1, <4>2, CopySound
      <4> QED
        BY <3>1, <4>1, <4>3, <4>4, SoundLater
    <3>6. DOMAIN ps = 1 .. k + 1 /\ ps \in Seq(Packet)
      BY <2>1, <3>5 DEF Sound
    <3> HIDE DEF ps
    <3>7. frame' \in Frames /\ frame'.m_packets = ps
      BY <1>0, <3>1, <3>2, <3>6 DEF Frames
    <3>8. FrameSound(frame', allocated')
      BY <3>5, <3>6, <3>7 DEF FrameSound
    <3> QED
      BY <1>5, <2>4, <3>1, <3>8, <1>P DEF AppendPacket, k
  <2> QED
    BY <1>5, <2>3, <2>4 DEF AppendPacket
<1>6. CASE AppendEntry
  <2> DEFINE n == Len(packet.m_entries)
  <2> DEFINE entries == Append(packet.m_entries, n + 1)
  <2>1. /\ packet \in Packet /\ packet.data \in Nat /\ packet.m_entries \in Seq(Nat)
        /\ n \in Nat /\ DOMAIN packet.m_entries = 1 .. n
        /\ packet.m_entryIter \in Iterators /\ packet.m_entryIter.vector \in Int
    BY <1>0 DEF Sound, Packet, Iterators
  <2>2. \A i \in 1 .. n : packet.m_entries[i] = i
    BY <1>0, <2>1 DEF Sound
  <2> HIDE DEF n
  <2>3. /\ entries \in Seq(Nat) /\ entries # <<>> /\ DOMAIN entries = 1 .. n + 1
        /\ \A i \in 1 .. n + 1 : entries[i] = i
    <3>1. n + 1 \in Nat
      BY <2>1
    <3>2. /\ entries \in Seq(Nat) /\ entries # <<>> /\ DOMAIN entries = 1 .. n + 1
          /\ entries[n + 1] = n + 1
          /\ \A i \in 1 .. n : entries[i] = packet.m_entries[i]
      BY <2>1, <3>1, AppendFacts DEF n
    <3>3. \A i \in 1 .. n + 1 : i \in 1 .. n \/ i = n + 1
      BY <2>1
    <3> QED
      BY <2>2, <3>2, <3>3
  <2> HIDE DEF entries
  <2>4. /\ UNCHANGED <<frame, origin, walked>> /\ appended' = appended + 1
        /\ PacketSound /\ appended' \in Nat
    BY <1>0, <1>6 DEF AppendEntry, PacketSound
  <2>5. packet.m_entries = <<>> <=> packet.data = NoStorage
    BY <1>0 DEF Sound
  <2>6. packet.m_entryIter.vector <= allocated /\ packet.data <= allocated
    BY <1>0 DEF Sound
  <2>W. ASSUME packet'.m_entryIter = packet.m_entryIter
        PROVE  WalkedBehind' /\ FirstEntryNeverWalked'
    BY <2>4, <2>W DEF PacketSound, WalkedBehind, FirstEntryNeverWalked
  <2>7. CASE /\ packet.data # NoStorage /\ Allocate(0)
             /\ packet' = [packet EXCEPT !.m_entries = entries]
    <3>1. allocated' = allocated
      BY <1>0, <2>7, AllocateLater
    <3>2. /\ packet' \in Packet /\ packet'.data = packet.data /\ packet'.m_entries = entries
          /\ packet'.m_entryIter = packet.m_entryIter
      BY <2>1, <2>3, <2>7 DEF Packet
    <3>3. Sound(packet', allocated')
      BY <2>3, <2>6, <2>7, <3>1, <3>2 DEF Sound
    <3>4. origin' = "taken" => Foreign(packet')
      BY <2>4, <3>2 DEF PacketSound, Foreign
    <3>5. PacketSound'
      BY <2>4, <2>W, <3>2, <3>3, <3>4 DEF PacketSound
    <3> QED
      BY <2>4, <2>7, <3>5, <1>F
  <2>8. CASE /\ Allocate(1)
             /\ packet' = [packet EXCEPT !.m_entries = entries, !.data = allocated']
    <3>1. allocated' = allocated + 1 /\ allocated' \in Nat
      BY <1>0, <2>8, AllocateLater
    <3>2. /\ packet' \in Packet /\ packet'.data = allocated' /\ packet'.m_entries = entries
          /\ packet'.m_entryIter = packet.m_entryIter
      <4>1. packet' = [packet EXCEPT !.m_entries = entries, !.data = allocated']
        BY <2>8
      <4> QED
        BY <2>1, <2>3, <3>1, <4>1 DEF Packet
    <3>3. Sound(packet', allocated')
      BY <1>0, <2>1, <2>3, <2>6, <3>1, <3>2 DEF Sound, NoStorage
    <3>4. Foreign(packet')
      BY <1>0, <2>1, <2>6, <3>1, <3>2 DEF Foreign
    <3>5. PacketSound'
      BY <2>4, <2>W, <3>2, <3>3, <3>4 DEF PacketSound
    <3> QED
      BY <2>4, <2>8, <3>5, <1>F
  <2> QED
    BY <1>6, <2>7, <2>8 DEF AppendEntry, entries, n
<1>7. CASE GetNextEntry
  <2> DEFINE n == Len(packet.m_entries)
  <2> DEFINE index == packet.m_entryIter.index
  <2>1. /\ packet \in Packet /\ packet.m_entries \in Seq(Nat)
        /\ n \in Nat /\ DOMAIN packet.m_entries = 1 .. n
        /\ packet.m_entryIter \in Iterators /\ index \in Nat
    BY <1>0 DEF Sound, Packet, Iterators
  <2> DEFINE entry == IF index + 1 < n THEN packet.m_entries[index + 1 + 1] ELSE Nothing
  <2>2. /\ UNCHANGED <<frame, origin, appended>> /\ Allocate(0)
        /\ packet' = [packet EXCEPT !.m_entryIter = Advanced(@)]
        /\ walked' = Append(walked, entry)
    BY <1>7 DEF GetNextEntry, PlaceRead
  <2>I. \A i \in 1 .. n : packet.m_entries[i] = i
    BY <1>0, <2>1 DEF Sound
  <2> HIDE DEF n, index
  <2>3. /\ index + 1 < n => entry = index + 1 + 1
        /\ ~(index + 1 < n) => entry = 0
    <3>1. index + 1 < n => index + 1 + 1 \in 1 .. n
      BY <2>1
    <3> QED
      BY <2>I, <3>1 DEF Nothing
  <2> HIDE DEF entry
  <2>4. entry \in Nat /\ entry # 1 /\ entry <= index + 2 /\ (entry # 0 => entry = index + 2)
    BY <2>1, <2>3
  <2>5. walked' = Append(walked, entry)
    BY <2>2
  <2>6. /\ packet' \in Packet /\ packet'.data = packet.data
        /\ packet'.m_entries = packet.m_entries
        /\ packet'.m_entryIter.index = index + 1
        /\ packet'.m_entryIter.vector = packet.m_entryIter.vector
    <3> DEFINE iter == packet.m_entryIter
    <3>1. /\ Advanced(iter) = [iter EXCEPT !.index = index + 1]
          /\ iter \in Iterators /\ index + 1 \in Nat
      BY <2>1 DEF Advanced, index
    <3>2. /\ Advanced(iter) \in Iterators /\ Advanced(iter).index = index + 1
          /\ Advanced(iter).vector = iter.vector
      BY <3>1 DEF Iterators
    <3>3. packet' = [packet EXCEPT !.m_entryIter = Advanced(iter)]
      BY <2>2
    <3> HIDE DEF iter
    <3>4. /\ packet' \in Packet /\ packet'.data = packet.data
          /\ packet'.m_entries = packet.m_entries /\ packet'.m_entryIter = Advanced(iter)
      BY <2>1, <3>2, <3>3 DEF Packet
    <3> QED
      BY <3>2, <3>4 DEF iter
  <2>7. allocated' = allocated
    BY <1>0, <2>2, AllocateLater
  <2>8. Sound(packet', allocated') /\ (Foreign(packet) => Foreign(packet'))
    BY <1>0, <2>6, <2>7 DEF Sound, Foreign
  <2>9. /\ walked \in Seq(Nat) /\ Len(walked) \in Nat /\ DOMAIN walked = 1 .. Len(walked)
        /\ WalkedBehind /\ FirstEntryNeverWalked
        /\ origin = "taken" => Foreign(packet)
    BY <1>0 DEF PacketSound
  <2> DEFINE last == Len(walked) + 1
  <2>10. /\ walked' \in Seq(Nat) /\ DOMAIN walked' = 1 .. last /\ walked'[last] = entry
         /\ \A i \in 1 .. Len(walked) : walked'[i] = walked[i]
    BY <2>4, <2>5, <2>9, AppendFacts
  <2>11. \A i \in 1 .. Len(walked) : walked[i] \in Nat /\ walked[i] <= index + 1
    BY <2>9 DEF WalkedBehind, index
  <2>12. \A i \in 1 .. last : i = last \/ i \in 1 .. Len(walked)
    BY <2>9
  <2> HIDE DEF last
  <2>13. WalkedBehind'
    <3>1. \A i \in 1 .. last : walked'[i] <= index + 2
      <4>1. \A i \in 1 .. Len(walked) : walked'[i] \in Nat /\ walked'[i] <= index + 1
        BY <2>10, <2>11
      <4>2. \A i \in 1 .. Len(walked) : walked'[i] <= index + 2
        BY <2>1, <4>1
      <4> QED
        BY <2>4, <2>10, <2>12, <4>2
    <3> QED
      BY <2>1, <2>6, <2>10, <3>1 DEF WalkedBehind
  <2>14. FirstEntryNeverWalked'
    <3> SUFFICES ASSUME NEW i \in 1 .. last
                 PROVE  /\ walked'[i] # 1
                        /\ \A j \in 1 .. i - 1 : walked'[i] # Nothing => walked'[j] < walked'[i]
      BY <2>10 DEF FirstEntryNeverWalked
    <3>1. CASE i \in 1 .. Len(walked)
      <4>1. \A j \in 1 .. i - 1 : j \in 1 .. Len(walked)
        BY <2>9, <3>1
      <4> QED
        BY <2>9, <2>10, <3>1, <4>1 DEF FirstEntryNeverWalked
    <3>2. CASE i = last
      <4>1. \A j \in 1 .. i - 1 : j \in 1 .. Len(walked)
        BY <2>9, <3>2 DEF last
      <4>2. \A j \in 1 .. i - 1 : walked'[j] \in Nat /\ walked'[j] <= index + 1
        BY <2>10, <2>11, <4>1
      <4>3. walked'[i] = entry
        BY <2>10, <3>2
      <4> QED
        BY <2>1, <2>4, <4>2, <4>3 DEF Nothing
    <3> QED
      BY <2>12, <3>1, <3>2
  <2>15. PacketSound'
    BY <1>0, <2>2, <2>8, <2>9, <2>10, <2>13, <2>14 DEF PacketSound
  <2> QED
    BY <2>2, <2>15, <1>F
<1>8. CASE UndefinedCall
  <2>1. undefined' \in {"getNextEntry", "getNextPacket"}
    BY <1>8 DEF UndefinedCall
  <2>2. UNCHANGED <<frame, packet, origin, appended, walked, allocated>>
    BY <1>8 DEF UndefinedCall
  <2>3. PacketSound'
    BY <1>0, <2>2, PacketLater
  <2> QED
    BY <1>0, <2>1, <2>2, <2>3 DEF InvHalves
<1>9. CASE UNCHANGED vars
  <2>1. UNCHANGED <<frame, packet, origin, appended, walked, allocated, undefined>>
    BY <1>9 DEF vars
  <2>2. PacketSound'
    BY <1>0, <2>1, PacketLater
  <2> QED
    BY <1>0, <2>1, <2>2 DEF InvHalves
<1> QED
  BY <1>1, <1>2, <1>3, <1>4, <1>5, <1>6, <1>7, <1>8, <1>9 DEF Next

-----------------------------------------------------------------------------
(* The theorems *)

LEMMA Invariance == Spec => []InvHalves
BY InitInv, NextInv, PTL DEF Spec

\* The iterators stay where a packet and its entries allow.
THEOREM TypeCorrect == Spec => []TypeOK
<1>1. InvHalves => TypeOK
  BY Halves DEF Inv
<1> QED
  BY <1>1, Invariance, PTL

\* No sequence of calls makes a packet that has been in a frame one that
\* getNextEntry can be called for.
THEOREM CopiesUnwalkable == Spec => []FrameCopiesUnwalkable
<1>1. InvHalves => FrameCopiesUnwalkable
  <2> SUFFICES ASSUME InvHalves PROVE FrameCopiesUnwalkable
    OBVIOUS
  <2>1. allocated \in Nat /\ Sound(packet, allocated) /\ (origin = "taken" => Foreign(packet))
    BY DEF InvHalves, PacketSound
  <2>2. \A k \in DOMAIN frame.m_packets :
          Sound(frame.m_packets[k], allocated) /\ Foreign(frame.m_packets[k])
    BY DEF InvHalves, FrameSound
  <2>3. \A k \in DOMAIN frame.m_packets : ~Walkable(frame.m_packets[k])
    BY <2>1, <2>2, ForeignUnwalkable
  <2>4. origin = "taken" => ~Walkable(packet)
    BY <2>1, ForeignUnwalkable
  <2> QED
    BY <2>3, <2>4 DEF FrameCopiesUnwalkable
<1> QED
  BY <1>1, Invariance, PTL

\* Whatever is appended between two calls, a walk neither sees the first entry
\* nor comes back to one it has seen.
THEOREM WalksForward == Spec => []FirstEntryNeverWalked
<1>1. InvHalves => FirstEntryNeverWalked
  BY Halves DEF Inv
<1> QED
  BY <1>1, Invariance, PTL

-----------------------------------------------------------------------------
(* The walk of a packet parsed on its own *)

LEMMA InitWalk == Init => WalkedInOwnStorage /\ UndefinedForAReason
BY DEF Init, WalkedInOwnStorage, UndefinedForAReason

\* A packet that was just obtained has not been walked.
LEMMA ObtainedWalk ==
  ASSUME NEW p, NEW from, Obtain(p, from), undefined' = "none",
         from = "parsed" => \/ p.m_entries = <<>> \/ p.m_entryIter = Singular
                            \/ /\ p.m_entryIter = Iterator(p.data, 0)
                               /\ Len(p.m_entries) \in Nat \ {0}
  PROVE  WalkedInOwnStorage' /\ UndefinedForAReason'
<1>1. packet' = p /\ origin' = from /\ walked' = <<>>
  BY DEF Obtain
<1>2. Len(walked') = 0
  BY <1>1
<1> QED
  BY <1>1, <1>2 DEF WalkedInOwnStorage, UndefinedForAReason

\* What m_parse leaves behind can be walked from its beginning, if at all.
LEMMA ParsedWalk ==
  ASSUME NEW n \in Nat, NEW how \in Endings, NEW d
  PROVE  LET p == Parsed(n, how, d) IN
         \/ p.m_entries = <<>> \/ p.m_entryIter = Singular
         \/ /\ p.m_entryIter = Iterator(p.data, 0)
            /\ Len(p.m_entries) \in Nat \ {0}
<1> DEFINE entries == [i \in 1 .. n |-> i]
<1>1. entries \in Seq(Nat) /\ Len(entries) = n
  OBVIOUS
<1>2. n = 0 => entries = <<>>
  OBVIOUS
<1> HIDE DEF entries
<1>3. /\ Parsed(n, how, d).m_entries = entries
      /\ Parsed(n, how, d).m_entryIter
           = IF how = "cut" THEN Singular ELSE Iterator(Parsed(n, how, d).data, 0)
  BY DEF Parsed, entries
<1> QED
  BY <1>1, <1>2, <1>3

LEMMA NextWalk ==
  InvHalves /\ WalkedInOwnStorage /\ UndefinedForAReason /\ [Next]_vars
    => WalkedInOwnStorage' /\ UndefinedForAReason'
<1> SUFFICES ASSUME InvHalves, WalkedInOwnStorage, UndefinedForAReason, [Next]_vars
             PROVE  WalkedInOwnStorage' /\ UndefinedForAReason'
  OBVIOUS
<1>0. /\ packet \in Packet /\ packet.m_entries \in Seq(Nat) /\ Len(packet.m_entries) \in Nat
      /\ packet.data \in Nat /\ packet.m_entryIter \in Iterators
      /\ packet.m_entryIter.index \in Nat
      /\ walked \in Seq(Nat) /\ Len(walked) \in Nat /\ appended \in Nat
  BY DEF InvHalves, PacketSound, Sound, Packet, Iterators
<1>A. ASSUME NEW n, Allocate(n) PROVE undefined' = "none" /\ undefined = "none"
  BY <1>A DEF Allocate
\* A call that leaves the caller's packet alone.
<1>P. ASSUME UNCHANGED <<packet, origin, appended, walked>>, undefined' = "none"
      PROVE  WalkedInOwnStorage' /\ UndefinedForAReason'
  BY <1>P DEF WalkedInOwnStorage, UndefinedForAReason
<1>1. CASE ParsePacket
  <2>1. PICK n \in 0 .. MaxEntries, how \in Endings :
          Obtain(Parsed(n, how, allocated'), "parsed")
    BY <1>1 DEF ParsePacket
  <2>2. undefined' = "none" /\ n \in Nat
    BY <1>1, <1>A, BoundsAssumption DEF ParsePacket
  <2> QED
    BY <2>1, <2>2, ParsedWalk, ObtainedWalk
<1>2. CASE ParseFrame
  BY <1>2, <1>A, <1>P DEF ParseFrame
<1>3. CASE EmptyFrame
  BY <1>3, <1>A, <1>P DEF EmptyFrame
<1>4. CASE GetNextPacket
  <2>1. PICK p : Obtain(p, "taken") \/ Obtain(p, "built")
    BY <1>4 DEF GetNextPacket
  <2>2. undefined' = "none"
    BY <1>4, <1>A DEF GetNextPacket
  <2> QED
    BY <2>1, <2>2, ObtainedWalk
<1>5. CASE AppendPacket
  BY <1>5, <1>A, <1>P DEF AppendPacket
<1>6. CASE AppendEntry
  <2>1. appended' = appended + 1 /\ undefined' = "none"
    BY <1>6, <1>A DEF AppendEntry
  <2>2. appended' # 0
    BY <1>0, <2>1
  <2> QED
    BY <2>1, <2>2 DEF WalkedInOwnStorage, UndefinedForAReason
<1>7. CASE GetNextEntry
  <2>1. PICK n \in Nat : n = Len(packet.m_entries)
    BY <1>0
  <2>2. PICK index \in Nat : index = packet.m_entryIter.index
    BY <1>0
  <2>3. /\ packet.m_entryIter.vector = packet.data /\ index < n
        /\ packet' = [packet EXCEPT !.m_entryIter = Advanced(@)]
        /\ UNCHANGED <<origin, appended>>
    BY <1>7, <2>1, <2>2 DEF GetNextEntry, CanAdvance
  <2>4. PICK entry : /\ walked' = Append(walked, entry)
                     /\ index + 1 = n => entry = Nothing
    BY <1>7, <2>1, <2>2 DEF GetNextEntry, PlaceRead
  <2>5. undefined' = "none"
    BY <1>7, <1>A DEF GetNextEntry
  <2>6. packet.m_entryIter # Singular /\ packet.m_entries # <<>>
    <3>1. packet.m_entryIter.vector # -1
      BY <1>0, <2>3
    <3>2. Singular.vector = -1
      BY DEF Singular, Iterator
    <3>3. n # 0
      BY <2>3
    <3> QED
      BY <2>1, <3>1, <3>2, <3>3
  <2> SUFFICES ASSUME origin' = "parsed", appended' = 0
               PROVE  /\ packet'.m_entryIter = Iterator(packet'.data, Len(walked'))
                      /\ Len(walked') <= Len(packet'.m_entries)
                      /\ Len(walked') = Len(packet'.m_entries)
                           => walked'[Len(walked')] = Nothing
    BY <2>5 DEF WalkedInOwnStorage, UndefinedForAReason
  <2>7. packet.m_entryIter = Iterator(packet.data, Len(walked))
    BY <2>3, <2>6 DEF WalkedInOwnStorage
  <2>8. Len(walked) = index
    BY <2>2, <2>7 DEF Iterator
  <2>9. Len(walked') = index + 1 /\ walked'[index + 1] = entry
    <3>1. PICK s : s = Append(walked, entry)
      OBVIOUS
    <3>2. Len(s) = index + 1 /\ s[index + 1] = entry
      BY <1>0, <2>8, <3>1
    <3> QED
      BY <2>4, <3>1, <3>2
  <2>10. /\ packet'.data = packet.data /\ packet'.m_entries = packet.m_entries
         /\ packet'.m_entryIter = Iterator(packet.data, index + 1)
    <3>1. Advanced(packet.m_entryIter) = Iterator(packet.data, index + 1)
      BY <2>7, <2>8 DEF Advanced, Iterator
    <3>2. packet' = [packet EXCEPT !.m_entryIter = Iterator(packet.data, index + 1)]
      BY <2>3, <3>1
    <3> QED
      BY <1>0, <3>2 DEF Packet
  <2> QED
    BY <2>1, <2>3, <2>4, <2>9, <2>10
<1>8. CASE UndefinedCall
  <2>1. UNCHANGED <<packet, origin, appended, walked>>
    BY <1>8 DEF UndefinedCall
  <2>2. undefined' = "getNextEntry" => ~Walkable(packet)
    BY <1>8 DEF UndefinedCall, Walkable
  <2> QED
    BY <2>1, <2>2 DEF WalkedInOwnStorage, UndefinedForAReason, Walkable
<1>9. CASE UNCHANGED vars
  BY <1>9 DEF vars, WalkedInOwnStorage, UndefinedForAReason, Walkable
<1> QED
  BY <1>1, <1>2, <1>3, <1>4, <1>5, <1>6, <1>7, <1>8, <1>9 DEF Next

\* Of a packet that was parsed whole, holds entries and was appended nothing,
\* getNextEntry can be called until it returns DataEntry(), however often
\* frames are parsed, filled and read in between.
THEOREM WalksToNothing == Spec => []WalkDefinedUntilNothing
<1>1. InvHalves /\ WalkedInOwnStorage /\ UndefinedForAReason => WalkDefinedUntilNothing
  <2> SUFFICES ASSUME InvHalves, WalkedInOwnStorage, UndefinedForAReason,
                      undefined = "getNextEntry", origin = "parsed", appended = 0,
                      packet.m_entries # <<>>, packet.m_entryIter # Singular
               PROVE  walked # <<>> /\ walked[Len(walked)] = Nothing
    BY DEF WalkDefinedUntilNothing
  <2>1. /\ packet.m_entries \in Seq(Nat) /\ Len(packet.m_entries) \in Nat
        /\ walked \in Seq(Nat) /\ Len(walked) \in Nat
    BY DEF InvHalves, PacketSound, Sound, Packet
  <2>2. /\ packet.m_entryIter = Iterator(packet.data, Len(walked))
        /\ Len(walked) <= Len(packet.m_entries)
        /\ Len(walked) = Len(packet.m_entries) => walked[Len(walked)] = Nothing
    BY DEF WalkedInOwnStorage
  <2>3. ~(Len(walked) < Len(packet.m_entries))
    BY <2>2 DEF UndefinedForAReason, Walkable, CanAdvance, Iterator
  <2>4. Len(walked) = Len(packet.m_entries) /\ Len(walked) # 0
    BY <2>1, <2>2, <2>3
  <2> QED
    BY <2>1, <2>2, <2>4
<1> QED
  BY <1>1, InitWalk, NextWalk, Invariance, PTL DEF Spec
=============================================================================
