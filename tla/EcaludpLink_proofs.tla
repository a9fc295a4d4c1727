------------------------- MODULE EcaludpLink_proofs -------------------------
(***************************************************************************)
(* Proofs about the link, for any number of messages, endpoints, ids,      *)
(* losses, duplicates and ticks: if an endpoint never draws the same id    *)
(* twice, what is delivered is what was sent, and the receiver lives; and  *)
(* if no two messages look the same, the link implements MessageChannel.   *)
(*                                                                         *)
(* The argument: every package of the receiver belongs to the one message  *)
(* that has its key, and holds in each slot either nothing or the chunk    *)
(* that belongs there (Fits).  A package that fits and is complete has     *)
(* every slot filled, and so is the message.  And every datagram that      *)
(* arrives makes one package heavier by one at most (Balance), so that a   *)
(* second copy takes as many duplicates as the message has datagrams.      *)
(***************************************************************************)
EXTENDS EcaludpLink, Socket_proofs

(* package is part of message m, and all of it has been sent.              *)
Fits(m, package) ==
  /\ Len(package.fragments) <= Len(Chunks[m])
  /\ \A i \in DOMAIN package.fragments : package.fragments[i] \in {NoFragment, Chunks[m][i]}
  /\ \A i \in Filled(package.fragments) : i < handed[m]
  /\ package.received_fragments_ = Cardinality(Filled(package.fragments))
  /\ package.fragment_info_received_ =>
        /\ Len(package.fragments) = Len(Chunks[m])
        /\ package.total_size_bytes_ = MessageSize(m)

KeyOf(m) == << SenderOf[m], id_of[m] >>

(* Every package belongs to a message whose id has been drawn.             *)
PackagesFit(pkgs) ==
  \A key \in DOMAIN pkgs :
     \E m \in Messages : /\ IsFragmented(m)
                         /\ id_of[m] # NoId
                         /\ key = KeyOf(m)
                         /\ Fits(m, pkgs[key])

UniqueIds ==
  \A m, n \in Messages :
     (SenderOf[m] = SenderOf[n] /\ id_of[m] = id_of[n] /\ id_of[m] # NoId) => m = n

(* How far each call has come.                                             *)
Progress ==
  \A m \in Messages :
     /\ handed[m] \in 0 .. DatagramCount(m)
     /\ handed[m] = DatagramCount(m) => status[m] = "sent"
     /\ status[m] = "new" => handed[m] = 0 /\ id_of[m] = NoId
     /\ status[m] = "sent" => handed[m] = DatagramCount(m)
     /\ IsFragmented(m) /\ status[m] # "new" => id_of[m] \in Ids

InFlightIsSent ==
  \A packet \in in_flight :
     /\ packet = << packet[1], packet[2] >>
     /\ packet[1] \in Messages
     /\ packet[2] \in 1 .. handed[packet[1]]

LinkInv ==
  /\ StateInv
  /\ LinkTypeOK
  /\ alive
  /\ Progress
  /\ InFlightIsSent
  /\ UniqueIds
  /\ PackagesFit(fragmented_packages_)
  /\ Integrity

-----------------------------------------------------------------------------
(* The messages and their datagrams.                                       *)

(* A message is a non-empty sequence of views.                             *)
LEMMA ChunksOK ==
  ASSUME NEW m \in Messages
  PROVE  /\ Chunks[m] \in Seq(View)
         /\ Len(Chunks[m]) \in UInt32
         /\ Len(Chunks[m]) \in Nat
         /\ Len(Chunks[m]) >= 1
         /\ DOMAIN Chunks[m] = 1 .. Len(Chunks[m])
         /\ \A i \in 1 .. Len(Chunks[m]) : Chunks[m][i] \in View
         /\ \A i \in 1 .. Len(Chunks[m]) :
               Chunks[m][i] = [data |-> Chunks[m][i].data, size |-> Chunks[m][i].size]
         /\ MessageSize(m) \in UInt32
         /\ SenderOf[m] \in Endpoints
         /\ IsFragmented(m) <=> Len(Chunks[m]) >= 2
<1>1. Chunks[m] \in Seq(View) /\ Len(Chunks[m]) \in 1 .. UINT32_MAX
  BY MessagesAssumption
<1>2. MessageSize(m) \in UInt32 /\ SenderOf[m] \in Endpoints
  BY MessagesAssumption
<1>3. \A i \in 1 .. Len(Chunks[m]) : Chunks[m][i] \in View
  BY <1>1
<1>4. \A view \in View : view = [data |-> view.data, size |-> view.size]
  BY DEF View
<1>5. QED BY <1>1, <1>2, <1>3, <1>4, UInt32Assumption DEF UInt32, IsFragmented

(* The socket accepts its own magic bytes.                                 *)
LEMMA OwnMagic == StrncmpEqual(magic_header_bytes_, magic_header_bytes_)
BY DEF StrncmpEqual

(* What the receiver's checks of a datagram see: an ecaludp datagram.      *)
Genuine(d) == DatagramOK(d) /\ HasMagic(d) /\ d.version = 5 /\ d.size >= HeaderSize

(* The info of a message, as the receiver reads it.                        *)
LEMMA InfoFields ==
  ASSUME NEW m \in Messages, IsFragmented(m), id_of[m] \in Ids,
         NEW d, d = DatagramOf(m, 1)
  PROVE  /\ DatagramOK(d) /\ Genuine(d)
         /\ d.type = datagram_type_fragmented_message_info
         /\ d.id = id_of[m] /\ d.num = Len(Chunks[m]) /\ d.len = MessageSize(m)
<1>1. d = InfoDatagram(m)
  BY DEF DatagramOf
<1>2. Chunks[m][1] \in View /\ Chunks[m][1].data \in Payloads
  BY ChunksOK DEF View
<1>3. /\ DatagramOK(d) /\ HasMagic(d) /\ d.version = 5 /\ d.size = HeaderSize
      /\ d.type = datagram_type_fragmented_message_info
      /\ d.id = id_of[m] /\ d.num = Len(Chunks[m]) /\ d.len = MessageSize(m)
  BY <1>1, <1>2, ChunksOK, OwnMagic
     DEF InfoDatagram, V5Datagram, DatagramOK, HasMagic, HeaderSize
<1>4. Genuine(d)
  <2>1. d.size >= HeaderSize
    BY <1>3 DEF HeaderSize
  <2>2. QED BY <1>3, <2>1, Zenon DEF Genuine
<1>5. QED BY <1>3, <1>4

(* The i-th fragment of a message, as the receiver reads it.               *)
LEMMA FragmentFields ==
  ASSUME NEW m \in Messages, IsFragmented(m), id_of[m] \in Ids,
         NEW i \in 1 .. Len(Chunks[m]), NEW d, d = DatagramOf(m, i + 1)
  PROVE  /\ DatagramOK(d) /\ Genuine(d)
         /\ d.type = datagram_type_fragment
         /\ d.id = id_of[m] /\ d.num = i - 1 /\ d.len <= BytesAvailable(d)
         /\ [data |-> d.payload, size |-> d.len] = Chunks[m][i]
<1>1. i \in Nat /\ i >= 1 /\ i + 1 # 1 /\ (i + 1) - 1 = i /\ i - 1 \in UInt32
  BY ChunksOK, UInt32Assumption DEF UInt32
<1>2. d = FragmentDatagram(m, i)
  BY <1>1 DEF DatagramOf
<1>3. /\ Chunks[m][i].data \in Payloads
      /\ Chunks[m][i].size \in UInt32
      /\ Chunks[m][i].size \in Nat
      /\ Chunks[m][i] = [data |-> Chunks[m][i].data, size |-> Chunks[m][i].size]
  <2>1. Chunks[m][i] \in View
    BY ChunksOK
  <2>2. QED BY <2>1, UInt32Assumption DEF View, UInt32
<1>4. /\ DatagramOK(d) /\ HasMagic(d) /\ d.version = 5 /\ d.size >= HeaderSize
      /\ d.type = datagram_type_fragment
      /\ d.id = id_of[m] /\ d.num = i - 1 /\ d.len <= BytesAvailable(d)
      /\ [data |-> d.payload, size |-> d.len] = Chunks[m][i]
  BY <1>1, <1>2, <1>3, OwnMagic
     DEF FragmentDatagram, V5Datagram, DatagramOK, HasMagic, HeaderSize, BytesAvailable
<1>5. Genuine(d)
  BY <1>4, Zenon DEF Genuine
<1>6. QED BY <1>4, <1>5

(* A message of one chunk, as the receiver reads it.                       *)
LEMMA NonFragmentedFields ==
  ASSUME NEW m \in Messages, ~ IsFragmented(m), NEW k, NEW d, d = DatagramOf(m, k)
  PROVE  /\ DatagramOK(d) /\ Genuine(d)
         /\ d.type = datagram_type_non_fragmented_message
         /\ d.len <= BytesAvailable(d)
         /\ << [data |-> d.payload, size |-> d.len] >> = Chunks[m]
<1>1. d = NonFragmentedDatagram(m)
  BY DEF DatagramOf
<1>2. Len(Chunks[m]) = 1
  <2>1. Len(Chunks[m]) \in Nat /\ Len(Chunks[m]) >= 1
    BY ChunksOK
  <2>2. ~ (Len(Chunks[m]) > 1)
    BY Zenon DEF IsFragmented
  <2>3. \A n \in Nat : n >= 1 /\ ~ (n > 1) => n = 1
    OBVIOUS
  <2>4. QED BY <2>1, <2>2, <2>3, Zenon
<1>3. /\ Chunks[m][1].data \in Payloads
      /\ Chunks[m][1].size \in UInt32
      /\ Chunks[m][1].size \in Nat
      /\ Chunks[m][1] = [data |-> Chunks[m][1].data, size |-> Chunks[m][1].size]
  <2>1. Chunks[m][1] \in View
    BY ChunksOK
  <2>2. QED BY <2>1, UInt32Assumption DEF View, UInt32
<1>4. << Chunks[m][1] >> = Chunks[m]
  BY <1>2, ChunksOK
<1>5. << [data |-> d.payload, size |-> d.len] >> = Chunks[m]
  BY <1>1, <1>3, <1>4 DEF NonFragmentedDatagram, V5Datagram
<1>6. /\ DatagramOK(d) /\ HasMagic(d) /\ d.version = 5 /\ d.size >= HeaderSize
      /\ d.type = datagram_type_non_fragmented_message
      /\ d.len <= BytesAvailable(d)
  BY <1>1, <1>3, OwnMagic, UInt32Assumption
     DEF NonFragmentedDatagram, V5Datagram, DatagramOK, HasMagic, HeaderSize,
         BytesAvailable, UInt32, datagram_type_non_fragmented_message,
         datagram_type_fragment, datagram_type_fragmented_message_info
<1>7. Genuine(d)
  BY <1>6, Zenon DEF Genuine
<1>8. QED BY <1>5, <1>6, <1>7

-----------------------------------------------------------------------------
(* Each step of reassembly keeps a package of message m one.               *)

LEMMA NewPackageFits ==
  ASSUME NEW m \in Messages
  PROVE  Fits(m, NewPackage)
<1>1. /\ Filled(NewPackage.fragments) = {}
      /\ Len(NewPackage.fragments) = 0
      /\ DOMAIN NewPackage.fragments = {}
      /\ NewPackage.received_fragments_ = 0
      /\ ~ NewPackage.fragment_info_received_
  BY DEF NewPackage, Filled
<1>2. Cardinality(Filled(NewPackage.fragments)) = 0
  BY <1>1, FS_EmptySet
<1>3. Len(NewPackage.fragments) <= Len(Chunks[m])
  BY <1>1, ChunksOK
<1>4. QED BY <1>1, <1>2, <1>3, Zenon DEF Fits

(* Resizing a vector up to no more than the number of chunks.              *)
LEMMA ResizeFits ==
  ASSUME NEW m \in Messages, NEW package, PackageInv(package), Fits(m, package),
         NEW n \in Nat, Len(package.fragments) <= n, n <= Len(Chunks[m])
  PROVE  LET new == Resize(package.fragments, n)
         IN  /\ Len(new) = n
             /\ DOMAIN new = 1 .. n
             /\ Filled(new) = Filled(package.fragments)
             /\ \A i \in DOMAIN new : new[i] \in {NoFragment, Chunks[m][i]}
<1> DEFINE old == package.fragments
           new == Resize(old, n)
<1>1. old \in Seq(Slot) /\ Len(old) \in Nat /\ DOMAIN old = 1 .. Len(old)
  BY DEF PackageInv, Package, Slot
<1>2. new \in Seq(Slot) /\ Len(new) = n /\ Filled(new) = {i \in Filled(old) : i <= n}
  BY <1>1, ResizeKeeps
<1>3. Filled(new) = Filled(old)
  <2>1. \A i \in Filled(old) : i <= n
    BY <1>1 DEF Filled
  <2>2. QED BY <1>2, <2>1
<1>4. DOMAIN new = 1 .. n
  BY <1>2
<1>5. \A i \in 1 .. n : new[i] \in {NoFragment, Chunks[m][i]}
  <2>1. \A i \in 1 .. Len(old) : old[i] \in {NoFragment, Chunks[m][i]}
    BY <1>1, Zenon DEF Fits
  <2>2. QED BY <1>1, <2>1 DEF Resize
<1>6. QED BY <1>2, <1>3, <1>4, <1>5

(* Making room for fragment i of message m leaves a slot for it.           *)
LEMMA WithRoomForFits ==
  ASSUME NEW m \in Messages, NEW package, PackageInv(package), Fits(m, package),
         NEW i \in 1 .. Len(Chunks[m])
  PROVE  /\ Fits(m, WithRoomFor(package, i - 1))
         /\ i <= Len(WithRoomFor(package, i - 1).fragments)
<1> DEFINE old == package.fragments
           roomy == WithRoomFor(package, i - 1)
<1>1. /\ i \in Nat /\ i <= Len(Chunks[m]) /\ i <= UINT32_MAX
      /\ i - 1 \in UInt32 /\ i - 1 < UINT32_MAX /\ (i - 1) + 1 = i
  BY ChunksOK, UInt32Assumption DEF UInt32
<1>2. Inc32(i - 1) = i
  BY <1>1, IncrementIsUInt32
<1>3. package \in Package /\ Len(old) \in Nat
  BY DEF PackageInv, Package
<1>4. CASE package.fragment_info_received_ \/ i <= Len(old)
  <2>1. roomy = package
    BY <1>2, <1>4 DEF WithRoomFor
  <2>2. CASE package.fragment_info_received_
    <3>1. Len(old) = Len(Chunks[m])
      BY <2>2, Zenon DEF Fits
    <3>2. QED BY <1>1, <2>1, <3>1
  <2>3. CASE i <= Len(old)
    BY <2>1, <2>3
  <2>4. QED BY <1>4, <2>2, <2>3
<1>5. CASE ~ (package.fragment_info_received_ \/ i <= Len(old))
  <2> DEFINE new == Resize(old, i)
  <2>1. roomy = [package EXCEPT !.fragments = new]
    BY <1>2, <1>5 DEF WithRoomFor
  <2>2. Len(old) <= i
    BY <1>1, <1>3, <1>5
  <2>3. /\ Len(new) = i
        /\ Filled(new) = Filled(old)
        /\ \A j \in DOMAIN new : new[j] \in {NoFragment, Chunks[m][j]}
    BY <1>1, <2>2, ResizeFits
  <2>4. /\ roomy.fragments = new
        /\ roomy.received_fragments_ = package.received_fragments_
    BY <1>3, <2>1 DEF Package
  <2>5. ~ roomy.fragment_info_received_
    BY <1>3, <1>5, <2>1 DEF Package
  <2> HIDE DEF roomy, new
  <2>6. Len(roomy.fragments) <= Len(Chunks[m]) /\ i <= Len(roomy.fragments)
    BY <1>1, <2>3, <2>4
  <2>7. /\ package.received_fragments_ = Cardinality(Filled(old))
        /\ \A j \in Filled(old) : j < handed[m]
    BY Zenon DEF Fits
  <2>8. Fits(m, roomy)
    BY <2>3, <2>4, <2>5, <2>6, <2>7, Zenon DEF Fits
  <2>9. QED BY <2>6, <2>8 DEF roomy
<1>6. QED BY <1>4, <1>5

(* Its info makes a package of message m as long as the message.           *)
LEMMA WithInfoFits ==
  ASSUME NEW m \in Messages, NEW package, PackageInv(package), Fits(m, package),
         NEW d, d.num = Len(Chunks[m]), d.len = MessageSize(m)
  PROVE  Fits(m, WithInfo(package, d))
<1> DEFINE old == package.fragments
           new == Resize(old, d.num)
           informed == WithInfo(package, d)
<1>1. package \in Package /\ Len(Chunks[m]) \in Nat
  BY ChunksOK DEF PackageInv
<1>2. Len(old) <= Len(Chunks[m])
  BY Zenon DEF Fits
<1>3. /\ Len(new) = Len(Chunks[m])
      /\ Filled(new) = Filled(old)
      /\ \A j \in DOMAIN new : new[j] \in {NoFragment, Chunks[m][j]}
  BY <1>1, <1>2, ResizeFits
<1>4. /\ informed.fragments = new
      /\ informed.received_fragments_ = package.received_fragments_
      /\ informed.total_size_bytes_ = MessageSize(m)
  BY <1>1 DEF WithInfo, Package
<1> HIDE DEF informed, new
<1>5. Len(informed.fragments) <= Len(Chunks[m])
  BY <1>1, <1>3, <1>4
<1>6. /\ package.received_fragments_ = Cardinality(Filled(old))
      /\ \A j \in Filled(old) : j < handed[m]
  BY Zenon DEF Fits
<1>7. Fits(m, informed)
  BY <1>3, <1>4, <1>5, <1>6, Zenon DEF Fits
<1>8. QED BY <1>7 DEF informed

(* Storing its i-th fragment puts the i-th chunk where it belongs.         *)
LEMMA WithFragmentFits ==
  ASSUME NEW m \in Messages, NEW package, PackageInv(package), Fits(m, package),
         NEW i \in 1 .. Len(Chunks[m]), i < handed[m], i <= Len(package.fragments),
         NEW d, DatagramOK(d), now \in Nat, d.num = i - 1,
         [data |-> d.payload, size |-> d.len] = Chunks[m][i],
         package.fragments[i] = NoFragment
  PROVE  Fits(m, WithFragment(package, d))
<1> DEFINE old == package.fragments
           new == [old EXCEPT ![i] = Chunks[m][i]]
           filled == WithFragment(package, d)
<1>1. old \in Seq(Slot) /\ package \in Package /\ Len(old) \in Nat /\ DOMAIN old = 1 .. Len(old)
  BY DEF PackageInv, Package, Slot
<1>2. i \in 1 .. Len(old) /\ d.num + 1 = i /\ Chunks[m][i] \in View
  BY <1>1, ChunksOK
<1>3. new \in Seq(Slot) /\ Len(new) = Len(old) /\ DOMAIN new = DOMAIN old
  BY <1>1, <1>2 DEF Slot
<1>4. Filled(new) = Filled(old) \cup {i} /\ i \notin Filled(old)
  BY <1>1, <1>2, <1>3, NullAssumption DEF Filled
<1>5. \A j \in DOMAIN old : old[j] \in {NoFragment, Chunks[m][j]}
  BY Zenon DEF Fits
<1>6. \A j \in DOMAIN new : new[j] \in {NoFragment, Chunks[m][j]}
  BY <1>1, <1>2, <1>3, <1>5
<1>7. IsFiniteSet(Filled(old)) /\ Cardinality(Filled(old)) \in Nat
  BY <1>1, SlotCounts
<1>8. Cardinality(Filled(new)) = Cardinality(Filled(old)) + 1
  BY <1>4, <1>7, FS_AddElement
<1>9. /\ package.received_fragments_ = Cardinality(Filled(old))
      /\ \A j \in Filled(old) : j < handed[m]
      /\ Len(old) <= Len(Chunks[m])
  BY Zenon DEF Fits
<1>10. Inc32(package.received_fragments_) = Cardinality(Filled(new))
  <2>1. new \in Seq(Slot) /\ Len(new) <= UINT32_MAX /\ UINT32_MAX \in Nat
    BY <1>3, UInt32Assumption DEF PackageInv
  <2>2. /\ Cardinality(Filled(new)) + Cardinality(Gaps(new)) = Len(new)
        /\ Cardinality(Gaps(new)) \in Nat
    BY <2>1, SlotCounts
  <2>3. Cardinality(Filled(old)) < UINT32_MAX
    BY <1>1, <1>3, <1>7, <1>8, <2>1, <2>2
  <2>4. Cardinality(Filled(old)) \in UInt32
    BY <1>7, <2>1, <2>3 DEF UInt32
  <2>5. QED BY <1>8, <1>9, <2>3, <2>4, IncrementIsUInt32
<1>11. filled.fragments = new
  BY <1>1, <1>2 DEF WithFragment, Package
<1>12. filled.received_fragments_ = Inc32(package.received_fragments_)
  BY <1>1 DEF WithFragment, Package
<1>13. filled.total_size_bytes_ = package.total_size_bytes_
  BY <1>1 DEF WithFragment, Package
<1>14. filled.fragment_info_received_ = package.fragment_info_received_
  BY <1>1 DEF WithFragment, Package
<1> HIDE DEF filled, new
<1>15. \A j \in Filled(filled.fragments) : j < handed[m]
  BY <1>4, <1>9, <1>11
<1>16. Len(filled.fragments) <= Len(Chunks[m])
  BY <1>3, <1>9, <1>11
<1>17. filled.received_fragments_ = Cardinality(Filled(filled.fragments))
  BY <1>10, <1>11, <1>12
<1>18. Len(filled.fragments) = Len(old)
  BY <1>3, <1>11
<1>19. Fits(m, filled)
  BY <1>6, <1>11, <1>13, <1>14, <1>15, <1>16, <1>17, <1>18, Zenon DEF Fits
<1>20. QED BY <1>19 DEF filled

(* A complete package of message m is message m, all of which was sent.    *)
LEMMA CompleteIsMessage ==
  ASSUME NEW m \in Messages, IsFragmented(m), Progress,
         NEW package, PackageInv(package), Fits(m, package), IsComplete(package)
  PROVE  /\ ~ HasHole(package)
         /\ package.fragments = Chunks[m]
         /\ SumOfSizes(package.fragments) = package.total_size_bytes_
         /\ status[m] = "sent"
<1> DEFINE old == package.fragments
<1>1. old \in Seq(Slot) /\ Len(old) \in Nat /\ DOMAIN old = 1 .. Len(old)
  BY DEF PackageInv, Package, Slot
<1>2. package.received_fragments_ = Cardinality(Filled(old)) /\ Cardinality(Filled(old)) \in Nat
  <2>1. package.received_fragments_ = Cardinality(Filled(old))
    BY Zenon DEF Fits
  <2>2. QED BY <1>1, <2>1, SlotCounts
<1>3. ~ HasHole(package)
  <2>1. SUFFICES ASSUME HasHole(package) PROVE FALSE
    OBVIOUS
  <2>2. package.received_fragments_ > Cardinality(Filled(old))
    BY <2>1, HoleIsCutOff
  <2>3. QED BY <1>2, <2>2
<1>4. Len(old) = Len(Chunks[m]) /\ package.total_size_bytes_ = MessageSize(m)
  BY Zenon DEF Fits, IsComplete
<1>5. Filled(old) = 1 .. Len(old)
  BY <1>1, <1>3 DEF HasHole
<1>6. old = Chunks[m]
  <2>1. \A j \in 1 .. Len(old) : old[j] = Chunks[m][j]
    <3>1. \A j \in 1 .. Len(old) : old[j] \in {NoFragment, Chunks[m][j]}
      BY <1>1, Zenon DEF Fits
    <3>2. \A j \in 1 .. Len(old) : old[j] # NoFragment
      BY <1>5 DEF Filled
    <3>3. QED BY <3>1, <3>2
  <2>2. Chunks[m] \in Seq(View)
    BY ChunksOK
  <2>3. QED BY <1>1, <1>4, <2>1, <2>2
<1>7. SumOfSizes(old) = package.total_size_bytes_
  BY <1>4, <1>6 DEF MessageSize
<1>8. status[m] = "sent"
  <2>1. Len(Chunks[m]) \in Nat /\ Len(Chunks[m]) >= 2
    BY ChunksOK
  <2>2. Len(old) \in Filled(old)
    BY <1>1, <1>4, <1>5, <2>1
  <2>3. Len(Chunks[m]) < handed[m]
    BY <1>4, <2>2, Zenon DEF Fits
  <2>4. handed[m] \in 0 .. DatagramCount(m) /\ DatagramCount(m) = 1 + Len(Chunks[m])
    BY DEF Progress, DatagramCount
  <2>5. handed[m] = DatagramCount(m)
    BY <2>1, <2>3, <2>4
  <2>6. QED BY <2>5 DEF Progress
<1>9. QED BY <1>3, <1>6, <1>7, <1>8

-----------------------------------------------------------------------------
(* What the receiver does with a datagram of message m.                    *)

(* The only package a datagram of message m finds is one of message m.     *)
LEMMA PackageOfFits ==
  ASSUME NEW m \in Messages, IsFragmented(m), id_of[m] # NoId, UniqueIds,
         NEW pkgs, PackagesFit(pkgs)
  PROVE  Fits(m, PackageOf(pkgs, KeyOf(m)))
<1>1. CASE KeyOf(m) \in DOMAIN pkgs
  <2>1. PICK n \in Messages : /\ id_of[n] # NoId
                              /\ KeyOf(m) = KeyOf(n)
                              /\ Fits(n, pkgs[KeyOf(m)])
    BY <1>1, Zenon DEF PackagesFit
  <2>2. n = m
    BY <2>1 DEF KeyOf, UniqueIds
  <2>3. QED BY <1>1, <2>1, <2>2 DEF PackageOf
<1>2. CASE KeyOf(m) \notin DOMAIN pkgs
  BY <1>2, NewPackageFits DEF PackageOf
<1>3. QED BY <1>1, <1>2

(* Packages still fit when one that fits is stored.                        *)
LEMMA StoreFits ==
  ASSUME NEW m \in Messages, IsFragmented(m), id_of[m] # NoId,
         NEW pkgs, PackagesFit(pkgs), NEW package, Fits(m, package)
  PROVE  PackagesFit(Store(pkgs, KeyOf(m), package))
<1> DEFINE stored == Store(pkgs, KeyOf(m), package)
<1>1. DOMAIN stored = DOMAIN pkgs \cup {KeyOf(m)}
  BY DEF Store
<1>2. ASSUME NEW key \in DOMAIN stored
      PROVE  \E n \in Messages : /\ IsFragmented(n)
                                  /\ id_of[n] # NoId
                                  /\ key = KeyOf(n)
                                  /\ Fits(n, stored[key])
  <2>1. CASE key = KeyOf(m)
    <3>1. stored[key] = package
      BY <2>1, Zenon DEF Store
    <3>2. QED BY <2>1, <3>1, Zenon
  <2>2. CASE key # KeyOf(m)
    <3>1. key \in DOMAIN pkgs
      BY <1>1, <2>2
    <3>2. stored[key] = pkgs[key]
      BY <1>1, <2>2, Zenon DEF Store
    <3>3. QED BY <3>1, <3>2, Zenon DEF PackagesFit
  <2>3. QED BY <2>1, <2>2
<1>3. QED BY <1>2, Zenon DEF PackagesFit

(* Packages still fit when some are dropped.                               *)
LEMMA RestrictFits ==
  ASSUME NEW pkgs, PackagesFit(pkgs), NEW S \in SUBSET DOMAIN pkgs
  PROVE  PackagesFit(Restrict(pkgs, S))
BY Zenon DEF PackagesFit, Restrict

(* The outcome of handling a datagram of message m: the receiver goes on,  *)
(* finds nothing malformed, and returns message m or nothing.              *)
GoodOutcome(m) ==
  /\ alive'
  /\ PackagesFit(fragmented_packages_')
  /\ returned'.error \notin Malformed
  /\ \/ returned'.message = NoMessage
     \/ returned'.message = Chunks[m] /\ status[m] = "sent"

(* handle_fragmented_package_if_complete has a good outcome for a package  *)
(* that fits.                                                              *)
LEMMA CompletionFits ==
  ASSUME NEW m \in Messages, IsFragmented(m), id_of[m] # NoId, Progress, alive,
         NEW pkgs, PackagesFit(pkgs),
         NEW package, PackageInv(package), Fits(m, package),
         handle_fragmented_package_if_complete(pkgs, KeyOf(m), package)
  PROVE  GoodOutcome(m)
<1>1. CASE ~ IsComplete(package)
  <2>1. fragmented_packages_' = Store(pkgs, KeyOf(m), package) /\ Return("OK", NoMessage)
    BY <1>1, Zenon DEF handle_fragmented_package_if_complete
  <2>2. returned'.error = "OK" /\ returned'.message = NoMessage
    BY <2>1 DEF Return
  <2>3. returned'.error \notin Malformed
    BY <2>2 DEF Malformed
  <2>4. PackagesFit(fragmented_packages_')
    BY <2>1, StoreFits
  <2>5. QED BY <2>1, <2>2, <2>3, <2>4, Zenon DEF GoodOutcome, Return
<1>2. CASE IsComplete(package)
  <2>1. /\ ~ HasHole(package)
        /\ package.fragments = Chunks[m]
        /\ SumOfSizes(package.fragments) = package.total_size_bytes_
        /\ status[m] = "sent"
    BY <1>2, CompleteIsMessage
  <2>2. fragmented_packages_' = Erase(pkgs, KeyOf(m)) /\ Return("OK", package.fragments)
    BY <1>2, <2>1, Zenon DEF handle_fragmented_package_if_complete
  <2>3. returned'.error = "OK" /\ returned'.message = Chunks[m]
    BY <2>1, <2>2 DEF Return
  <2>4. returned'.error \notin Malformed
    BY <2>3 DEF Malformed
  <2>5. PackagesFit(fragmented_packages_')
    BY <2>2, RestrictFits DEF Erase
  <2>6. QED BY <2>1, <2>2, <2>3, <2>4, <2>5, Zenon DEF GoodOutcome, Return
<1>3. QED BY <1>1, <1>2

(* Its info, whether it is the first to arrive or a duplicate.             *)
LEMMA InfoOutcome ==
  ASSUME NEW m \in Messages, IsFragmented(m), id_of[m] \in Ids, id_of[m] # NoId,
         UniqueIds, Progress, alive, now \in Nat,
         NEW pkgs, PackagesInv(pkgs), PackagesFit(pkgs),
         NEW d, d = DatagramOf(m, 1),
         handle_datagram_fragmented_message_info(pkgs, SenderOf[m], d)
  PROVE  GoodOutcome(m)
<1> DEFINE package == PackageOf(pkgs, KeyOf(m))
<1>1. /\ DatagramOK(d) /\ d.num = Len(Chunks[m]) /\ d.len = MessageSize(m)
      /\ << SenderOf[m], d.id >> = KeyOf(m)
  BY InfoFields DEF KeyOf
<1>2. PackageInv(package) /\ Fits(m, package)
  BY PackageOfInv, PackageOfFits
<1>3. CASE fragmented_packages_' = pkgs /\ Return("DUPLICATE_DATAGRAM", NoMessage)
  <2>1. returned'.error = "DUPLICATE_DATAGRAM" /\ returned'.message = NoMessage
    BY <1>3 DEF Return
  <2>2. returned'.error \notin Malformed
    BY <2>1 DEF Malformed
  <2>3. QED BY <1>3, <2>1, <2>2, Zenon DEF GoodOutcome, Return
<1>4. CASE /\ ~ package.fragment_info_received_
           /\ handle_fragmented_package_if_complete(pkgs, KeyOf(m), WithInfo(package, d))
  <2>1. PackageInv(WithInfo(package, d))
    BY <1>1, <1>2, <1>4, WithInfoInv
  <2>2. Fits(m, WithInfo(package, d))
    BY <1>1, <1>2, WithInfoFits
  <2>3. QED BY <1>4, <2>1, <2>2, CompletionFits
<1>5. QED BY <1>1, <1>3, <1>4 DEF handle_datagram_fragmented_message_info

(* Its i-th fragment.                                                      *)
LEMMA FragmentOutcome ==
  ASSUME NEW m \in Messages, IsFragmented(m), id_of[m] \in Ids, id_of[m] # NoId,
         UniqueIds, Progress, alive, now \in Nat,
         NEW pkgs, PackagesInv(pkgs), PackagesFit(pkgs),
         NEW i \in 1 .. Len(Chunks[m]), i < handed[m],
         NEW d, d = DatagramOf(m, i + 1),
         handle_datagram_fragment(pkgs, SenderOf[m], d)
  PROVE  GoodOutcome(m)
<1> DEFINE package == WithRoomFor(PackageOf(pkgs, KeyOf(m)), d.num)
<1>1. /\ DatagramOK(d) /\ d.num = i - 1 /\ d.len <= BytesAvailable(d)
      /\ << SenderOf[m], d.id >> = KeyOf(m)
      /\ [data |-> d.payload, size |-> d.len] = Chunks[m][i]
  BY FragmentFields DEF KeyOf
<1>2. PackageInv(PackageOf(pkgs, KeyOf(m))) /\ Fits(m, PackageOf(pkgs, KeyOf(m)))
  BY PackageOfInv, PackageOfFits
<1>3. d.num \in UInt32
  BY <1>1 DEF DatagramOK
<1>4. PackageInv(package)
  BY <1>2, <1>3, WithRoomForInv
<1>5. Fits(m, package) /\ i <= Len(package.fragments)
  BY <1>1, <1>2, WithRoomForFits
<1>6. i \in Nat /\ d.num + 1 = i /\ Len(package.fragments) \in Nat
  BY <1>1, <1>4, ChunksOK DEF PackageInv, Package
<1>7. d.num < Len(package.fragments)
  BY <1>1, <1>5, <1>6
<1>8. ~ (d.num >= Len(package.fragments)) /\ ~ (d.len > BytesAvailable(d))
  <2>1. d.len \in Nat /\ BytesAvailable(d) \in Int
    BY <1>1, UInt32Assumption DEF DatagramOK, UInt32, BytesAvailable, HeaderSize
  <2>2. QED BY <1>1, <1>3, <1>6, <1>7, <2>1, UInt32Assumption DEF UInt32
<1>9. CASE /\ fragmented_packages_' = Store(pkgs, KeyOf(m), package)
           /\ Return("DUPLICATE_DATAGRAM", NoMessage)
  <2>1. returned'.error = "DUPLICATE_DATAGRAM" /\ returned'.message = NoMessage
    BY <1>9 DEF Return
  <2>2. returned'.error \notin Malformed
    BY <2>1 DEF Malformed
  <2>3. PackagesFit(fragmented_packages_')
    BY <1>5, <1>9, StoreFits
  <2>4. QED BY <1>9, <2>1, <2>2, <2>3, Zenon DEF GoodOutcome, Return
<1>10. CASE /\ package.fragments[d.num + 1] = NoFragment
            /\ handle_fragmented_package_if_complete(pkgs, KeyOf(m), WithFragment(package, d))
  <2>1. PackageInv(WithFragment(package, d))
    BY <1>1, <1>4, <1>7, <1>10, WithFragmentInv
  <2>2. Fits(m, WithFragment(package, d))
    BY <1>1, <1>4, <1>5, <1>6, <1>10, WithFragmentFits
  <2>3. QED BY <1>10, <2>1, <2>2, CompletionFits
<1>11. QED BY <1>1, <1>8, <1>9, <1>10 DEF handle_datagram_fragment

(* A message that is not fragmented is returned at once.                   *)
LEMMA NonFragmentedOutcome ==
  ASSUME NEW m \in Messages, ~ IsFragmented(m), status[m] = "sent", alive,
         NEW pkgs, PackagesFit(pkgs),
         NEW k, NEW d, d = DatagramOf(m, k),
         handle_datagram_non_fragmented_message(pkgs, d)
  PROVE  GoodOutcome(m)
<1>1. /\ DatagramOK(d) /\ d.len <= BytesAvailable(d)
      /\ << [data |-> d.payload, size |-> d.len] >> = Chunks[m]
  BY NonFragmentedFields
<1>2. ~ (d.len > BytesAvailable(d))
  <2>1. d.len \in Nat /\ BytesAvailable(d) \in Int
    BY <1>1, UInt32Assumption DEF DatagramOK, UInt32, BytesAvailable, HeaderSize
  <2>2. QED BY <1>1, <2>1
<1>3. fragmented_packages_' = pkgs /\ Return("OK", Chunks[m])
  BY <1>1, <1>2, Zenon DEF handle_datagram_non_fragmented_message
<1>4. returned'.error = "OK" /\ returned'.message = Chunks[m]
  BY <1>3 DEF Return
<1>5. returned'.error \notin Malformed
  BY <1>4 DEF Malformed
<1>6. QED BY <1>3, <1>4, <1>5, Zenon DEF GoodOutcome, Return

(* A datagram of m that its sender has handed to the OS comes to the       *)
(* handler of its type.                                                    *)
LEMMA DatagramDispatch ==
  ASSUME LinkInv, NEW m \in Messages, NEW k \in 1 .. handed[m],
         NEW d, d = DatagramOf(m, k), handle_datagram(SenderOf[m], d)
  PROVE  /\ Handlers(Cleaned, SenderOf[m], d) /\ Genuine(d) /\ DatagramOK(d)
         /\ PackagesInv(Cleaned) /\ Settled(Cleaned) /\ PackagesFit(Cleaned)
         /\ IsFragmented(m) => id_of[m] \in Ids /\ id_of[m] # NoId
         /\ reassembly_handle_datagram(Cleaned, SenderOf[m], d)
         /\ \/ /\ IsFragmented(m) /\ d = DatagramOf(m, 1)
               /\ handle_datagram_fragmented_message_info(Cleaned, SenderOf[m], d)
            \/ \E i \in 1 .. Len(Chunks[m]) :
                  /\ IsFragmented(m) /\ i < handed[m] /\ d = DatagramOf(m, i + 1)
                  /\ handle_datagram_fragment(Cleaned, SenderOf[m], d)
            \/ /\ ~ IsFragmented(m) /\ status[m] = "sent"
               /\ handle_datagram_non_fragmented_message(Cleaned, d)
<1>1. /\ PackagesInv(fragmented_packages_) /\ Settled(fragmented_packages_)
      /\ PackagesFit(fragmented_packages_) /\ UniqueIds /\ Progress /\ alive
      /\ now \in Nat /\ max_reassembly_age_ \in Nat
      /\ handed[m] \in Nat /\ SenderOf[m] \in Endpoints
  <2>1. /\ StateInv /\ LinkTypeOK /\ alive /\ Progress /\ UniqueIds
        /\ PackagesFit(fragmented_packages_)
    BY Zenon DEF LinkInv
  <2>2. now \in Nat /\ max_reassembly_age_ \in Nat /\ handed[m] \in Nat
    BY <2>1 DEF LinkTypeOK, SocketTypeOK, TypeOK
  <2>3. QED BY <2>1, <2>2, ChunksOK DEF StateInv
<1>2. PackagesInv(Cleaned) /\ Settled(Cleaned) /\ PackagesFit(Cleaned)
  BY <1>1, RestrictInv, RestrictFits DEF Cleaned, WithoutOldPackages
<1>3. status[m] # "new" /\ k \in Nat /\ k >= 1 /\ k <= DatagramCount(m)
  <2>1. k \in Nat /\ k >= 1 /\ k <= handed[m]
    BY <1>1
  <2>2. handed[m] # 0
    BY <1>1, <2>1
  <2>3. handed[m] \in 0 .. DatagramCount(m) /\ (status[m] = "new" => handed[m] = 0)
    BY <1>1, Zenon DEF Progress
  <2>4. DatagramCount(m) \in Nat
    BY ChunksOK DEF DatagramCount
  <2>5. QED BY <1>1, <2>1, <2>2, <2>3, <2>4
<1>4. IsFragmented(m) => id_of[m] \in Ids /\ id_of[m] # NoId
  BY <1>1, <1>3, IdAssumption DEF Progress
<1>5. /\ IsFragmented(m) => k = 1 \/ (k - 1 \in 1 .. Len(Chunks[m]) /\ k = (k - 1) + 1)
      /\ k - 1 < handed[m]
      /\ ~ IsFragmented(m) => status[m] = "sent"
  <2>1. IsFragmented(m) => DatagramCount(m) = 1 + Len(Chunks[m])
    BY DEF DatagramCount
  <2>2. ~ IsFragmented(m) => DatagramCount(m) = 1
    BY DEF DatagramCount
  <2>3. ~ IsFragmented(m) => handed[m] = DatagramCount(m)
    <3>1. handed[m] \in 0 .. DatagramCount(m)
      BY <1>1, Zenon DEF Progress
    <3>2. QED BY <1>1, <1>3, <2>2, <3>1
  <2>4. handed[m] = DatagramCount(m) => status[m] = "sent"
    BY <1>1, Zenon DEF Progress
  <2>5. Len(Chunks[m]) \in Nat
    BY ChunksOK
  <2>6. k - 1 < handed[m]
    BY <1>1, <1>3
  <2>7. IsFragmented(m) => k = 1 \/ (k - 1 \in 1 .. Len(Chunks[m]) /\ k = (k - 1) + 1)
    BY <1>3, <2>1, <2>5
  <2>8. QED BY <2>3, <2>4, <2>6, <2>7
<1>6. Genuine(d) /\ DatagramOK(d)
  <2>1. CASE IsFragmented(m) /\ k = 1
    <3>1. d = DatagramOf(m, 1) /\ id_of[m] \in Ids
      BY <1>4, <2>1
    <3>2. QED BY <2>1, <3>1, InfoFields
  <2>2. CASE IsFragmented(m) /\ k # 1
    <3>1. k - 1 \in 1 .. Len(Chunks[m]) /\ d = DatagramOf(m, (k - 1) + 1)
      BY <1>5, <2>2
    <3>2. QED BY <1>4, <2>2, <3>1, FragmentFields
  <2>3. CASE ~ IsFragmented(m)
    BY <2>3, NonFragmentedFields
  <2>4. QED BY <2>1, <2>2, <2>3
<1>7. Handlers(Cleaned, SenderOf[m], d) /\ reassembly_handle_datagram(Cleaned, SenderOf[m], d)
  <2>1. Accept(SenderOf[m], d)
    BY DEF handle_datagram
  <2>2. ~ (d.size < HeaderCommonSize) /\ ~ (d.size < HeaderSize)
    BY <1>6 DEF Genuine, DatagramOK, HeaderCommonSize, HeaderSize
  <2>3. reassembly_handle_datagram(Cleaned, SenderOf[m], d)
    BY <1>6, <2>1, <2>2, Zenon DEF Accept, Genuine
  <2>4. QED BY <2>2, <2>3, Zenon DEF reassembly_handle_datagram
<1>8. CASE IsFragmented(m) /\ k = 1
  <2>1. d = DatagramOf(m, 1)
    BY <1>8
  <2>2. d.type = datagram_type_fragmented_message_info
    BY <1>4, <1>8, <2>1, InfoFields
  <2>3. handle_datagram_fragmented_message_info(Cleaned, SenderOf[m], d)
    BY <1>7, <2>2 DEF Handlers, datagram_type_fragmented_message_info,
                      datagram_type_fragment, datagram_type_non_fragmented_message
  <2>4. QED BY <1>2, <1>4, <1>6, <1>7, <1>8, <2>1, <2>3, Zenon
<1>9. CASE IsFragmented(m) /\ k # 1
  <2>1. k - 1 \in 1 .. Len(Chunks[m]) /\ d = DatagramOf(m, (k - 1) + 1)
    BY <1>5, <1>9
  <2>2. d.type = datagram_type_fragment
    BY <1>4, <1>9, <2>1, FragmentFields
  <2>3. handle_datagram_fragment(Cleaned, SenderOf[m], d)
    BY <1>7, <2>2 DEF Handlers, datagram_type_fragmented_message_info,
                      datagram_type_fragment, datagram_type_non_fragmented_message
  <2>4. k - 1 < handed[m]
    BY <1>5
  <2>5. QED BY <1>2, <1>4, <1>6, <1>7, <1>9, <2>1, <2>3, <2>4, Zenon
<1>10. CASE ~ IsFragmented(m)
  <2>1. d.type = datagram_type_non_fragmented_message
    BY <1>10, NonFragmentedFields
  <2>2. handle_datagram_non_fragmented_message(Cleaned, d)
    BY <1>7, <2>1 DEF Handlers, datagram_type_fragmented_message_info,
                      datagram_type_fragment, datagram_type_non_fragmented_message
  <2>3. QED BY <1>2, <1>4, <1>5, <1>6, <1>7, <1>10, <2>2, Zenon
<1>11. QED BY <1>8, <1>9, <1>10

(* The socket, given such a datagram.                                      *)
LEMMA DatagramOutcome ==
  ASSUME LinkInv, NEW m \in Messages, NEW k \in 1 .. handed[m],
         NEW d, d = DatagramOf(m, k), handle_datagram(SenderOf[m], d)
  PROVE  GoodOutcome(m) /\ StateInv'
<1>1. /\ UniqueIds /\ Progress /\ alive /\ now \in Nat /\ SenderOf[m] \in Endpoints
  BY ChunksOK DEF LinkInv, LinkTypeOK, SocketTypeOK, TypeOK
<1>2. /\ Handlers(Cleaned, SenderOf[m], d) /\ Genuine(d) /\ DatagramOK(d)
      /\ PackagesInv(Cleaned) /\ Settled(Cleaned) /\ PackagesFit(Cleaned)
      /\ IsFragmented(m) => id_of[m] \in Ids /\ id_of[m] # NoId
      /\ reassembly_handle_datagram(Cleaned, SenderOf[m], d)
  BY DatagramDispatch
<1>3. StateInv'
  BY <1>1, <1>2, HandleDatagramInv
<1>4. CASE /\ IsFragmented(m) /\ d = DatagramOf(m, 1)
           /\ handle_datagram_fragmented_message_info(Cleaned, SenderOf[m], d)
  <2>1. id_of[m] \in Ids /\ id_of[m] # NoId /\ PackagesInv(Cleaned) /\ PackagesFit(Cleaned)
    BY <1>2, <1>4
  <2>2. QED BY <1>1, <1>3, <1>4, <2>1, InfoOutcome
<1>5. ASSUME NEW i \in 1 .. Len(Chunks[m]),
             IsFragmented(m), i < handed[m], d = DatagramOf(m, i + 1),
             handle_datagram_fragment(Cleaned, SenderOf[m], d)
      PROVE  GoodOutcome(m)
  BY <1>1, <1>2, <1>5, FragmentOutcome
<1>6. CASE /\ ~ IsFragmented(m) /\ status[m] = "sent"
           /\ handle_datagram_non_fragmented_message(Cleaned, d)
  <2>1. PackagesFit(Cleaned)
    BY <1>2
  <2>2. QED BY <1>1, <1>3, <1>6, <2>1, NonFragmentedOutcome
<1>7. \/ /\ IsFragmented(m) /\ d = DatagramOf(m, 1)
         /\ handle_datagram_fragmented_message_info(Cleaned, SenderOf[m], d)
      \/ \E i \in 1 .. Len(Chunks[m]) :
            /\ IsFragmented(m) /\ i < handed[m] /\ d = DatagramOf(m, i + 1)
            /\ handle_datagram_fragment(Cleaned, SenderOf[m], d)
      \/ /\ ~ IsFragmented(m) /\ status[m] = "sent"
         /\ handle_datagram_non_fragmented_message(Cleaned, d)
  BY DatagramDispatch
<1>8. QED BY <1>3, <1>4, <1>5, <1>6, <1>7

-----------------------------------------------------------------------------
(* Each datagram that is received makes a package of its message heavier   *)
(* by one at most, and a message is as heavy as it has datagrams.          *)

(* The datagrams a package is made of.                                     *)
Weight(package) ==
  package.received_fragments_ + (IF package.fragment_info_received_ THEN 1 ELSE 0)

(* What the receiver holds of message m.                                   *)
Held(pkgs, m) ==
  IF IsFragmented(m) /\ id_of[m] # NoId /\ KeyOf(m) \in DOMAIN pkgs
  THEN Weight(pkgs[KeyOf(m)]) ELSE 0

(* The receiver holds one datagram more, or completes message m with it.   *)
HoldsOneMore(pkgs, m) ==
  \/ returned'.message = NoMessage /\ Held(fragmented_packages_', m) <= Held(pkgs, m) + 1
  \/ /\ returned'.message # NoMessage
     /\ Held(fragmented_packages_', m) = 0
     /\ DatagramCount(m) <= Held(pkgs, m) + 1

(* A package counts its datagrams with a natural number.                   *)
LEMMA WeightIsNat ==
  ASSUME NEW package, PackageInv(package)
  PROVE  Weight(package) \in Nat
BY UInt32Assumption DEF PackageInv, Package, UInt32, Weight

(* What is held of a message is a number.                                  *)
LEMMA HeldIsNat ==
  ASSUME NEW pkgs, PackagesInv(pkgs), NEW m \in Messages
  PROVE  Held(pkgs, m) \in Nat
BY WeightIsNat DEF Held, PackagesInv

(* The package a datagram finds, or a new one, holds what is held.         *)
LEMMA PackageOfIsHeld ==
  ASSUME NEW m \in Messages, IsFragmented(m), id_of[m] # NoId, NEW pkgs
  PROVE  Weight(PackageOf(pkgs, KeyOf(m))) = Held(pkgs, m)
BY DEF Weight, Held, PackageOf, NewPackage

(* Completion erases a package of the weight of its message.               *)
LEMMA CompletionWeight ==
  ASSUME NEW m \in Messages, IsFragmented(m), id_of[m] # NoId, Progress,
         NEW pkgs, PackagesInv(pkgs), NEW package, PackageInv(package), Fits(m, package),
         Weight(package) <= Held(pkgs, m) + 1,
         handle_fragmented_package_if_complete(pkgs, KeyOf(m), package)
  PROVE  HoldsOneMore(pkgs, m)
<1>1. CASE ~ IsComplete(package)
  <2>1. fragmented_packages_' = Store(pkgs, KeyOf(m), package) /\ Return("OK", NoMessage)
    BY <1>1, Zenon DEF handle_fragmented_package_if_complete
  <2>2. returned'.message = NoMessage
    BY <2>1 DEF Return
  <2>3. Held(fragmented_packages_', m) = Weight(package)
    BY <2>1 DEF Held, Store
  <2>4. QED BY <2>2, <2>3 DEF HoldsOneMore
<1>2. CASE IsComplete(package)
  <2>1. ~ HasHole(package) /\ SumOfSizes(package.fragments) = package.total_size_bytes_
        /\ package.fragments = Chunks[m]
    BY <1>2, CompleteIsMessage
  <2>2. fragmented_packages_' = Erase(pkgs, KeyOf(m)) /\ Return("OK", package.fragments)
    BY <1>2, <2>1, Zenon DEF handle_fragmented_package_if_complete
  <2>3. returned'.message # NoMessage
    BY <2>1, <2>2, ChunksOK, NullAssumption DEF Return
  <2>4. Held(fragmented_packages_', m) = 0
    BY <2>2 DEF Held, Erase, Restrict
  <2>5. package.received_fragments_ = Len(Chunks[m]) /\ package.fragment_info_received_
    BY <1>2, <2>1 DEF IsComplete, PackageInv
  <2>6. Weight(package) = DatagramCount(m)
    BY <2>5, ChunksOK DEF Weight, DatagramCount
  <2>7. QED BY <2>3, <2>4, <2>6 DEF HoldsOneMore
<1>3. QED BY <1>1, <1>2

(* An info datagram.                                                       *)
LEMMA InfoWeight ==
  ASSUME NEW m \in Messages, IsFragmented(m), id_of[m] \in Ids, id_of[m] # NoId,
         UniqueIds, Progress, now \in Nat,
         NEW pkgs, PackagesInv(pkgs), PackagesFit(pkgs),
         NEW d, d = DatagramOf(m, 1),
         handle_datagram_fragmented_message_info(pkgs, SenderOf[m], d)
  PROVE  HoldsOneMore(pkgs, m)
<1> DEFINE package == PackageOf(pkgs, KeyOf(m))
<1>1. /\ DatagramOK(d) /\ d.num = Len(Chunks[m]) /\ d.len = MessageSize(m)
      /\ << SenderOf[m], d.id >> = KeyOf(m)
  BY InfoFields DEF KeyOf
<1>2. PackageInv(package) /\ Fits(m, package) /\ Weight(package) = Held(pkgs, m)
  BY PackageOfInv, PackageOfFits, PackageOfIsHeld
<1>3. Held(pkgs, m) \in Nat
  BY HeldIsNat
<1>4. CASE fragmented_packages_' = pkgs /\ Return("DUPLICATE_DATAGRAM", NoMessage)
  BY <1>3, <1>4 DEF Return, HoldsOneMore
<1>5. CASE /\ ~ package.fragment_info_received_
           /\ handle_fragmented_package_if_complete(pkgs, KeyOf(m), WithInfo(package, d))
  <2>1. PackageInv(WithInfo(package, d)) /\ Fits(m, WithInfo(package, d))
    BY <1>1, <1>2, <1>5, WithInfoInv, WithInfoFits
  <2>2. Weight(WithInfo(package, d)) = Weight(package) + 1
    BY <1>2, <1>5, UInt32Assumption DEF Weight, WithInfo, PackageInv, Package, UInt32
  <2>3. Weight(WithInfo(package, d)) <= Held(pkgs, m) + 1
    BY <1>2, <1>3, <2>2
  <2>4. QED BY <1>5, <2>1, <2>3, CompletionWeight
<1>6. QED BY <1>1, <1>4, <1>5 DEF handle_datagram_fragmented_message_info

(* A counter that is incremented grows by one at most.                     *)
LEMMA IncrementIsOneAtMost ==
  ASSUME NEW x \in UInt32
  PROVE  Inc32(x) \in Nat /\ Inc32(x) <= x + 1
BY UInt32Assumption DEF UInt32, Inc32

(* A fragment.                                                             *)
LEMMA FragmentWeight ==
  ASSUME NEW m \in Messages, IsFragmented(m), id_of[m] \in Ids, id_of[m] # NoId,
         UniqueIds, Progress, now \in Nat,
         NEW pkgs, PackagesInv(pkgs), PackagesFit(pkgs),
         NEW i \in 1 .. Len(Chunks[m]), i < handed[m],
         NEW d, d = DatagramOf(m, i + 1),
         handle_datagram_fragment(pkgs, SenderOf[m], d)
  PROVE  HoldsOneMore(pkgs, m)
<1> DEFINE found   == PackageOf(pkgs, KeyOf(m))
           package == WithRoomFor(found, d.num)
<1>1. /\ DatagramOK(d) /\ d.num = i - 1 /\ d.num \in UInt32
      /\ << SenderOf[m], d.id >> = KeyOf(m)
      /\ [data |-> d.payload, size |-> d.len] = Chunks[m][i]
  BY FragmentFields DEF KeyOf, DatagramOK
<1>2. PackageInv(found) /\ Fits(m, found) /\ Weight(found) = Held(pkgs, m)
  BY PackageOfInv, PackageOfFits, PackageOfIsHeld
<1>3. PackageInv(package) /\ Fits(m, package) /\ i <= Len(package.fragments)
  BY <1>1, <1>2, WithRoomForInv, WithRoomForFits
<1>4. Weight(package) = Held(pkgs, m) /\ Held(pkgs, m) \in Nat
  <2>1. /\ package.received_fragments_ = found.received_fragments_
        /\ package.fragment_info_received_ = found.fragment_info_received_
    BY <1>2 DEF WithRoomFor, PackageInv, Package
  <2>2. Weight(package) = Weight(found)
    BY <2>1, Zenon DEF Weight
  <2>3. QED BY <1>2, <2>2, HeldIsNat
<1>5. i \in Nat /\ d.num + 1 = i /\ Len(package.fragments) \in Nat
  BY <1>1, <1>3, ChunksOK DEF PackageInv, Package
<1> HIDE DEF found, package
<1>6. ASSUME NEW error, fragmented_packages_' = Store(pkgs, KeyOf(m), package), Return(error, NoMessage)
      PROVE  HoldsOneMore(pkgs, m)
  <2>1. returned'.message = NoMessage
    BY <1>6 DEF Return
  <2>2. Held(fragmented_packages_', m) = Weight(package)
    BY <1>6 DEF Held, Store
  <2>3. QED BY <1>4, <2>1, <2>2 DEF HoldsOneMore
<1>7. CASE /\ d.num < Len(package.fragments)
           /\ package.fragments[d.num + 1] = NoFragment
           /\ handle_fragmented_package_if_complete(pkgs, KeyOf(m), WithFragment(package, d))
  <2> DEFINE filled == WithFragment(package, d)
  <2>1. PackageInv(filled) /\ Fits(m, filled)
    BY <1>1, <1>3, <1>5, <1>7, WithFragmentInv, WithFragmentFits
  <2>2. /\ filled.received_fragments_ = Inc32(package.received_fragments_)
        /\ filled.fragment_info_received_ = package.fragment_info_received_
        /\ package.received_fragments_ \in UInt32
        /\ package.fragment_info_received_ \in BOOLEAN
    BY <1>3 DEF WithFragment, PackageInv, Package
  <2>3. /\ package.received_fragments_ \in Nat
        /\ Inc32(package.received_fragments_) \in Nat
        /\ Inc32(package.received_fragments_) <= package.received_fragments_ + 1
    BY <2>2, IncrementIsOneAtMost, UInt32Assumption DEF UInt32
  <2> HIDE DEF filled
  <2>4. Weight(filled) <= Weight(package) + 1
    BY <2>2, <2>3 DEF Weight
  <2>5. Weight(filled) <= Held(pkgs, m) + 1
    BY <1>4, <2>4
  <2>6. handle_fragmented_package_if_complete(pkgs, KeyOf(m), filled)
    BY <1>7 DEF filled
  <2>7. QED BY <2>1, <2>5, <2>6, CompletionWeight
<1>8. \/ \E error : fragmented_packages_' = Store(pkgs, KeyOf(m), package) /\ Return(error, NoMessage)
      \/ /\ d.num < Len(package.fragments)
         /\ package.fragments[d.num + 1] = NoFragment
         /\ handle_fragmented_package_if_complete(pkgs, KeyOf(m), WithFragment(package, d))
  BY <1>1, Zenon DEF handle_datagram_fragment, package, found
<1>9. QED BY <1>6, <1>7, <1>8

(* A message of one datagram is never held.                                *)
LEMMA NonFragmentedWeight ==
  ASSUME NEW m \in Messages, ~ IsFragmented(m),
         NEW pkgs, NEW k, NEW d, d = DatagramOf(m, k),
         handle_datagram_non_fragmented_message(pkgs, d)
  PROVE  HoldsOneMore(pkgs, m)
<1>1. /\ DatagramOK(d) /\ d.len <= BytesAvailable(d)
      /\ << [data |-> d.payload, size |-> d.len] >> = Chunks[m]
  BY NonFragmentedFields
<1>2. ~ (d.len > BytesAvailable(d))
  <2>1. d.len \in Nat /\ BytesAvailable(d) \in Int
    BY <1>1, UInt32Assumption DEF DatagramOK, UInt32, BytesAvailable, HeaderSize
  <2>2. QED BY <1>1, <2>1
<1>3. Return("OK", Chunks[m])
  BY <1>1, <1>2, Zenon DEF handle_datagram_non_fragmented_message
<1>4. returned'.message = Chunks[m] /\ Chunks[m] # NoMessage
  BY <1>3, ChunksOK, NullAssumption DEF Return
<1>5. Held(fragmented_packages_', m) = 0 /\ Held(pkgs, m) = 0 /\ DatagramCount(m) = 1
  BY DEF Held, DatagramCount
<1>6. QED BY <1>4, <1>5 DEF HoldsOneMore

(* What expires or is dropped is held no more.                             *)
LEMMA RestrictedIsNotMore ==
  ASSUME NEW pkgs, PackagesInv(pkgs), NEW m \in Messages, NEW pkgs2,
         \A key \in DOMAIN pkgs2 : (IsFragmented(m) /\ id_of[m] # NoId /\ key = KeyOf(m)) =>
                                      key \in DOMAIN pkgs /\ pkgs2[key] = pkgs[key]
  PROVE  Held(pkgs2, m) <= Held(pkgs, m)
<1>1. Held(pkgs, m) \in Nat
  BY HeldIsNat
<1>2. Held(pkgs2, m) = 0 \/ Held(pkgs2, m) = Held(pkgs, m)
  BY DEF Held
<1>3. QED BY <1>1, <1>2

(* The socket, given a datagram of m that its sender has handed to the OS, *)
(* holds one more of m, and no more of any other message.                  *)
LEMMA DatagramWeight ==
  ASSUME LinkInv, NEW m \in Messages, NEW k \in 1 .. handed[m],
         NEW d, d = DatagramOf(m, k), handle_datagram(SenderOf[m], d)
  PROVE  /\ HoldsOneMore(fragmented_packages_, m)
         /\ \A n \in Messages : n # m =>
               Held(fragmented_packages_', n) <= Held(fragmented_packages_, n)
<1>1. /\ UniqueIds /\ Progress /\ alive /\ now \in Nat /\ PackagesInv(fragmented_packages_)
  BY DEF LinkInv, LinkTypeOK, SocketTypeOK, TypeOK, StateInv
<1>2. /\ PackagesInv(Cleaned) /\ PackagesFit(Cleaned)
      /\ IsFragmented(m) => id_of[m] \in Ids /\ id_of[m] # NoId
      /\ reassembly_handle_datagram(Cleaned, SenderOf[m], d)
  BY DatagramDispatch
<1>3. \/ /\ IsFragmented(m) /\ d = DatagramOf(m, 1)
         /\ handle_datagram_fragmented_message_info(Cleaned, SenderOf[m], d)
      \/ \E i \in 1 .. Len(Chunks[m]) :
            /\ IsFragmented(m) /\ i < handed[m] /\ d = DatagramOf(m, i + 1)
            /\ handle_datagram_fragment(Cleaned, SenderOf[m], d)
      \/ /\ ~ IsFragmented(m) /\ status[m] = "sent"
         /\ handle_datagram_non_fragmented_message(Cleaned, d)
  BY DatagramDispatch
<1>4. \A key \in DOMAIN Cleaned :
         key \in DOMAIN fragmented_packages_ /\ Cleaned[key] = fragmented_packages_[key]
  BY DEF Cleaned, WithoutOldPackages, Restrict
<1>5. \A n \in Messages : /\ Held(Cleaned, n) \in Nat /\ Held(fragmented_packages_, n) \in Nat
                          /\ Held(Cleaned, n) <= Held(fragmented_packages_, n)
  BY <1>1, <1>2, <1>4, HeldIsNat, RestrictedIsNotMore
<1>6. HoldsOneMore(Cleaned, m)
  <2>1. CASE /\ IsFragmented(m) /\ d = DatagramOf(m, 1)
             /\ handle_datagram_fragmented_message_info(Cleaned, SenderOf[m], d)
    BY <1>1, <1>2, <2>1, InfoWeight
  <2>2. ASSUME NEW i \in 1 .. Len(Chunks[m]),
               IsFragmented(m), i < handed[m], d = DatagramOf(m, i + 1),
               handle_datagram_fragment(Cleaned, SenderOf[m], d)
        PROVE  HoldsOneMore(Cleaned, m)
    BY <1>1, <1>2, <2>2, FragmentWeight
  <2>3. CASE ~ IsFragmented(m) /\ handle_datagram_non_fragmented_message(Cleaned, d)
    BY <2>3, NonFragmentedWeight
  <2>4. QED BY <1>3, <2>1, <2>2, <2>3
<1>7. HoldsOneMore(fragmented_packages_, m)
  <2>1. DatagramCount(m) \in Nat
    BY ChunksOK DEF DatagramCount
  <2>2. Held(fragmented_packages_', m) <= Held(Cleaned, m) + 1 =>
           Held(fragmented_packages_', m) <= Held(fragmented_packages_, m) + 1
    <3>1. StateInv'
      BY DatagramOutcome
    <3>2. PackagesInv(fragmented_packages_')
      BY <3>1 DEF StateInv
    <3>3. Held(fragmented_packages_', m) \in Nat
      BY <3>2, HeldIsNat
    <3>4. QED BY <1>5, <3>3
  <2>3. DatagramCount(m) <= Held(Cleaned, m) + 1 =>
           DatagramCount(m) <= Held(fragmented_packages_, m) + 1
    BY <1>5, <2>1
  <2>4. QED BY <1>6, <2>2, <2>3 DEF HoldsOneMore
<1>8. ASSUME NEW n \in Messages, n # m
      PROVE  Held(fragmented_packages_', n) <= Held(fragmented_packages_, n)
  <2>1. ASSUME NEW key \in DOMAIN fragmented_packages_',
               IsFragmented(n), id_of[n] # NoId, key = KeyOf(n)
        PROVE  key \in DOMAIN fragmented_packages_ /\ fragmented_packages_'[key] = fragmented_packages_[key]
    <3>1. CASE IsFragmented(m)
      <4>1. Key(SenderOf[m], d) = KeyOf(m)
        <5>1. \/ d = DatagramOf(m, 1)
              \/ \E i \in 1 .. Len(Chunks[m]) : d = DatagramOf(m, i + 1)
          BY <1>3, <3>1
        <5>2. d.id = id_of[m]
          BY <1>2, <3>1, <5>1, InfoFields, FragmentFields
        <5>3. QED BY <5>2 DEF Key, KeyOf
      <4>2. key # Key(SenderOf[m], d)
        BY <1>1, <1>8, <2>1, <4>1 DEF UniqueIds, KeyOf
      <4>3. key \in DOMAIN Cleaned /\ fragmented_packages_'[key] = Cleaned[key]
        BY <1>2, <4>2, OthersAreLeftAlone
      <4>4. QED BY <1>4, <4>3
    <3>2. CASE ~ IsFragmented(m)
      <4>1. fragmented_packages_' = Cleaned
        BY <1>3, <3>2 DEF handle_datagram_non_fragmented_message
      <4>2. QED BY <1>4, <4>1
    <3>3. QED BY <3>1, <3>2
  <2>2. QED BY <1>1, <2>1, RestrictedIsNotMore
<1>9. QED BY <1>7, <1>8

-----------------------------------------------------------------------------
(* The steps of the link.                                                  *)

LEMMA LinkInvInit == LinkInit => LinkInv
<1> SUFFICES ASSUME LinkInit PROVE LinkInv
  OBVIOUS
<1>1. SocketInit /\ Init
  BY DEF LinkInit, SocketInit
<1>2. StateInv /\ now \in Nat /\ alive
  BY <1>1, InvInit DEF Inv, Init
<1>3. SocketTypeOK
  BY <1>1, <1>2, AgesAssumption DEF SocketInit, SocketTypeOK, TypeOK, StateInv, PackagesInv,
                                    PackageInv, ReturnedOK
<1>4. LinkTypeOK
  BY <1>3 DEF LinkInit, LinkTypeOK
<1>5. Progress
  <2>1. \A m \in Messages : DatagramCount(m) \in Nat /\ DatagramCount(m) >= 1
    BY ChunksOK DEF DatagramCount
  <2>2. QED BY <2>1 DEF LinkInit, Progress
<1>6. InFlightIsSent /\ UniqueIds /\ Integrity
  BY DEF LinkInit, InFlightIsSent, UniqueIds, Integrity
<1>7. PackagesFit(fragmented_packages_)
  <2>1. DOMAIN fragmented_packages_ = {}
    BY <1>1 DEF Init
  <2>2. QED BY <2>1 DEF PackagesFit
<1>8. QED BY <1>2, <1>4, <1>5, <1>6, <1>7, Zenon DEF LinkInv

(* A sender's step leaves the receiver alone; a package still fits when    *)
(* more of its message has been sent.                                      *)
LEMMA SenderStepInv ==
  ASSUME LinkInv, UNCHANGED << socketVars, delivered, lost, duplicates >>,
         status' \in [Messages -> {"new", "sending", "sent", "failed"}],
         id_of' \in [Messages -> Ids \cup {NoId}],
         handed' \in [Messages -> Nat],
         in_flight' \subseteq Messages \X Nat,
         Progress', UniqueIds', InFlightIsSent',
         \A m \in Messages : handed[m] <= handed'[m],
         \A m \in Messages : id_of[m] # NoId => id_of'[m] = id_of[m],
         \A m \in Messages : status[m] = "sent" => status'[m] = "sent"
  PROVE  LinkInv'
<1>1. /\ StateInv /\ LinkTypeOK /\ alive /\ PackagesFit(fragmented_packages_) /\ Integrity
  BY Zenon DEF LinkInv
<1>2. /\ fragmented_packages_' = fragmented_packages_ /\ alive' = alive
      /\ returned' = returned /\ now' = now /\ max_reassembly_age_' = max_reassembly_age_
      /\ delivered' = delivered /\ lost' = lost /\ duplicates' = duplicates
  BY DEF socketVars, vars
<1>3. StateInv'
  BY <1>1, <1>2 DEF StateInv, ReturnedOK
<1>4. LinkTypeOK'
  <2>1. SocketTypeOK'
    BY <1>1, <1>2 DEF LinkTypeOK, SocketTypeOK, TypeOK
  <2>2. QED BY <1>1, <1>2, <2>1 DEF LinkTypeOK
<1>5. PackagesFit(fragmented_packages_)'
  <2>1. \A m \in Messages : handed[m] \in Nat /\ handed'[m] \in Nat
    BY <1>1 DEF LinkTypeOK
  <2>2. ASSUME NEW key \in DOMAIN fragmented_packages_
        PROVE  \E m \in Messages : /\ IsFragmented(m)
                                    /\ id_of'[m] # NoId
                                    /\ key = KeyOf(m)'
                                    /\ Fits(m, fragmented_packages_[key])'
    <3> DEFINE package == fragmented_packages_[key]
    <3>1. PICK m \in Messages : /\ IsFragmented(m)
                                /\ id_of[m] # NoId
                                /\ key = KeyOf(m)
                                /\ Fits(m, package)
      BY <1>1, Zenon DEF PackagesFit
    <3>2. PackageInv(package)
      BY <1>1 DEF StateInv, PackagesInv
    <3>3. \A i \in Filled(package.fragments) : i < handed[m]
      BY <3>1, Zenon DEF Fits
    <3>4. Filled(package.fragments) \subseteq Nat
      BY <3>2 DEF Filled, PackageInv, Package
    <3>5. handed[m] <= handed'[m] /\ handed[m] \in Nat /\ handed'[m] \in Nat
      BY <2>1, Zenon
    <3>6. \A i \in Filled(package.fragments) : i < handed'[m]
      BY <3>3, <3>4, <3>5
    <3>7. Fits(m, fragmented_packages_[key])'
      BY <1>2, <3>1, <3>6, Zenon DEF Fits
    <3>8. id_of'[m] = id_of[m]
      BY <3>1, Zenon
    <3>9. key = KeyOf(m)'
      BY <3>1, <3>8, Zenon DEF KeyOf
    <3>10. QED BY <3>1, <3>7, <3>8, <3>9, Zenon
  <2>3. QED BY <1>2, <2>2, Zenon DEF PackagesFit
<1>6. Integrity'
  BY <1>1, <1>2, Zenon DEF Integrity, Sent
<1>7. QED BY <1>1, <1>2, <1>3, <1>4, <1>5, <1>6, Zenon DEF LinkInv

(* A step that leaves the senders alone and sends nothing.                 *)
LEMMA ReceiverStepInv ==
  ASSUME LinkInv, UNCHANGED senderVars, in_flight' \subseteq in_flight,
         lost' \subseteq Messages \X Nat, duplicates' \in Nat,
         StateInv', alive', now' \in Nat, max_reassembly_age_' \in Nat,
         PackagesFit(fragmented_packages_'),
         delivered' \in Seq([from : Endpoints, message : Seq(View)]),
         Integrity'
  PROVE  LinkInv'
<1>1. /\ LinkTypeOK /\ Progress /\ InFlightIsSent /\ UniqueIds
  BY Zenon DEF LinkInv
<1>2. status' = status /\ id_of' = id_of /\ handed' = handed
  BY DEF senderVars
<1>3. Progress' /\ UniqueIds'
  BY <1>1, <1>2, Zenon DEF Progress, UniqueIds
<1>4. InFlightIsSent'
  BY <1>1, <1>2, Zenon DEF InFlightIsSent
<1>5. PackagesFit(fragmented_packages_)'
  BY <1>2, Zenon DEF PackagesFit, Fits, KeyOf
<1>6. SocketTypeOK'
  BY DEF SocketTypeOK, TypeOK, StateInv, PackagesInv, PackageInv, ReturnedOK
<1>7. LinkTypeOK'
  BY <1>1, <1>2, <1>6 DEF LinkTypeOK
<1>8. QED BY <1>3, <1>4, <1>5, <1>7, Zenon DEF LinkInv

(* What the link's types say of each variable.                             *)
LEMMA LinkTypes ==
  ASSUME LinkInv
  PROVE  /\ now \in Nat /\ max_reassembly_age_ \in Nat /\ duplicates \in Nat
         /\ lost \subseteq Messages \X Nat
         /\ in_flight \subseteq Messages \X Nat
         /\ status \in [Messages -> {"new", "sending", "sent", "failed"}]
         /\ id_of \in [Messages -> Ids \cup {NoId}]
         /\ handed \in [Messages -> Nat]
         /\ delivered \in Seq([from : Endpoints, message : Seq(View)])
BY DEF LinkInv, LinkTypeOK, SocketTypeOK, TypeOK

(* Starting to send a message keeps it.                                    *)
LEMMA StartSendingInv ==
  ASSUME IdsAreUnique, LinkInv, NEW m \in Messages, StartSending(m)
  PROVE  LinkInv'
<1>1. Progress /\ InFlightIsSent /\ UniqueIds
  BY Zenon DEF LinkInv
<1>2. /\ status[m] = "new" /\ handed[m] = 0 /\ id_of[m] = NoId
      /\ status' = [status EXCEPT ![m] = "sending"]
      /\ handed' = handed /\ in_flight' = in_flight
      /\ UNCHANGED << socketVars, delivered, lost, duplicates >>
  BY <1>1 DEF StartSending, networkVars, Progress
<1>3. PICK id \in Ids \cup {NoId} :
         /\ id_of' = [id_of EXCEPT ![m] = id]
         /\ IsFragmented(m) => id \in Ids
         /\ id # NoId => id \notin UsedIds(SenderOf[m])
  <2>1. CASE IsFragmented(m)
    BY <2>1, Zenon DEF StartSending
  <2>2. CASE ~ IsFragmented(m)
    <3>1. id_of' = [id_of EXCEPT ![m] = NoId]
      BY <1>2, <2>2, LinkTypes DEF StartSending
    <3>2. QED BY <2>2, <3>1, Zenon
  <2>3. QED BY <2>1, <2>2
<1>4. /\ status' \in [Messages -> {"new", "sending", "sent", "failed"}]
      /\ id_of' \in [Messages -> Ids \cup {NoId}]
      /\ \A n \in Messages : status'[n] = IF n = m THEN "sending" ELSE status[n]
      /\ id_of'[m] = id_of'[m]
  BY <1>2, <1>3, LinkTypes
<1>5. id_of'[m] \in Ids \cup {NoId} /\ (IsFragmented(m) => id_of'[m] \in Ids)
  BY <1>3, LinkTypes
<1>6. \A n \in Messages : n # m => id_of'[n] = id_of[n]
  BY <1>3, LinkTypes
<1>7. Progress'
  <2>1. \A n \in Messages : DatagramCount(n) # 0
    BY ChunksOK DEF DatagramCount
  <2>2. SUFFICES ASSUME NEW n \in Messages
        PROVE  /\ handed'[n] \in 0 .. DatagramCount(n)
               /\ handed'[n] = DatagramCount(n) => status'[n] = "sent"
               /\ status'[n] = "new" => handed'[n] = 0 /\ id_of'[n] = NoId
               /\ status'[n] = "sent" => handed'[n] = DatagramCount(n)
               /\ IsFragmented(n) /\ status'[n] # "new" => id_of'[n] \in Ids
    BY Zenon DEF Progress
  <2>3. CASE n = m
    <3>1. status'[m] = "sending" /\ "sending" # "new" /\ "sending" # "sent"
      BY <1>4
    <3>2. handed'[m] = 0 /\ DatagramCount(m) # 0
      BY <1>2, <2>1
    <3>3. handed'[m] \in 0 .. DatagramCount(m)
      BY <1>1, <1>2, Zenon DEF Progress
    <3>4. QED BY <1>5, <2>3, <3>1, <3>2, <3>3, Zenon
  <2>4. CASE n # m
    <3>1. status'[n] = status[n] /\ id_of'[n] = id_of[n] /\ handed'[n] = handed[n]
      BY <1>2, <1>4, <1>6, <2>4
    <3>2. QED BY <1>1, <3>1, Zenon DEF Progress
  <2>5. QED BY <2>3, <2>4
<1>8. UniqueIds'
  <2>1. \A n \in Messages :
           SenderOf[n] = SenderOf[m] /\ id_of'[n] = id_of'[m] /\ id_of'[m] # NoId => n = m
    <3>1. id_of'[m] # NoId => id_of'[m] \notin UsedIds(SenderOf[m])
      BY <1>3, LinkTypes
    <3>2. \A n \in Messages : SenderOf[n] = SenderOf[m] => id_of[n] \in UsedIds(SenderOf[m])
      BY Zenon DEF UsedIds
    <3>3. QED BY <1>6, <3>1, <3>2, Zenon
  <2>2. QED BY <1>1, <1>6, <2>1, Zenon DEF UniqueIds
<1>9. InFlightIsSent'
  BY <1>1, <1>2, Zenon DEF InFlightIsSent
<1>10. \A n \in Messages : handed[n] <= handed'[n]
  BY <1>2, LinkTypes
<1>11. \A n \in Messages : id_of[n] # NoId => id_of'[n] = id_of[n]
  BY <1>2, <1>6, Zenon
<1>12. \A n \in Messages : status[n] = "sent" => status'[n] = "sent"
  BY <1>2, <1>4
<1>13. handed' \in [Messages -> Nat] /\ in_flight' \subseteq Messages \X Nat
  BY <1>2, LinkTypes
<1>14. QED BY <1>2, <1>4, <1>7, <1>8, <1>9, <1>10, <1>11, <1>12, <1>13, SenderStepInv

(* Sending the next datagram of a message keeps it.                        *)
LEMMA SendDatagramInv ==
  ASSUME LinkInv, NEW m \in Messages, SendDatagram(m)
  PROVE  LinkInv'
<1>1. Progress /\ InFlightIsSent /\ UniqueIds
  BY Zenon DEF LinkInv
<1>2. /\ status[m] = "sending"
      /\ handed' = [handed EXCEPT ![m] = handed[m] + 1]
      /\ in_flight' = in_flight \cup {<< m, handed[m] + 1 >>}
      /\ status' = [status EXCEPT ![m] = IF handed[m] + 1 = DatagramCount(m)
                                         THEN "sent" ELSE status[m]]
      /\ id_of' = id_of
      /\ UNCHANGED << socketVars, delivered, lost, duplicates >>
  BY DEF SendDatagram
<1>3. /\ handed[m] \in Nat /\ DatagramCount(m) \in Nat
      /\ handed[m] \in 0 .. DatagramCount(m) /\ handed[m] # DatagramCount(m)
  BY <1>1, <1>2, LinkTypes, ChunksOK DEF Progress, DatagramCount
<1>4. handed'[m] = handed[m] + 1 /\ handed'[m] \in 0 .. DatagramCount(m)
  BY <1>2, <1>3, LinkTypes
<1>5. \A n \in Messages : n # m => handed'[n] = handed[n] /\ status'[n] = status[n]
  BY <1>2, LinkTypes
<1>6. status'[m] = IF handed'[m] = DatagramCount(m) THEN "sent" ELSE "sending"
  BY <1>2, <1>4, LinkTypes
<1>7. /\ status' \in [Messages -> {"new", "sending", "sent", "failed"}]
      /\ handed' \in [Messages -> Nat]
      /\ in_flight' \subseteq Messages \X Nat
  BY <1>2, <1>3, LinkTypes
<1>8. Progress'
  <2>1. SUFFICES ASSUME NEW n \in Messages
        PROVE  /\ handed'[n] \in 0 .. DatagramCount(n)
               /\ handed'[n] = DatagramCount(n) => status'[n] = "sent"
               /\ status'[n] = "new" => handed'[n] = 0 /\ id_of'[n] = NoId
               /\ status'[n] = "sent" => handed'[n] = DatagramCount(n)
               /\ IsFragmented(n) /\ status'[n] # "new" => id_of'[n] \in Ids
    BY Zenon DEF Progress
  <2>2. CASE n = m
    <3>1. IsFragmented(m) => id_of'[m] \in Ids
      BY <1>1, <1>2 DEF Progress
    <3>2. QED BY <1>4, <1>6, <2>2, <3>1
  <2>3. CASE n # m
    <3>1. handed'[n] = handed[n] /\ status'[n] = status[n] /\ id_of'[n] = id_of[n]
      BY <1>2, <1>5, <2>3
    <3>2. QED BY <1>1, <3>1, Zenon DEF Progress
  <2>4. QED BY <2>2, <2>3
<1>9. UniqueIds'
  BY <1>1, <1>2, Zenon DEF UniqueIds
<1>10. \A n \in Messages : handed[n] \in Nat /\ handed'[n] \in Nat /\ handed[n] <= handed'[n]
  <2>1. SUFFICES ASSUME NEW n \in Messages
        PROVE  handed[n] \in Nat /\ handed'[n] \in Nat /\ handed[n] <= handed'[n]
    OBVIOUS
  <2>2. handed[n] \in Nat
    BY LinkTypes
  <2>3. CASE n = m
    BY <1>3, <1>4, <2>3
  <2>4. CASE n # m
    BY <1>5, <2>2, <2>4
  <2>5. QED BY <2>2, <2>3, <2>4
<1>11. InFlightIsSent'
  <2>1. SUFFICES ASSUME NEW packet \in in_flight'
        PROVE  /\ packet = << packet[1], packet[2] >>
               /\ packet[1] \in Messages
               /\ packet[2] \in 1 .. handed'[packet[1]]
    BY Zenon DEF InFlightIsSent
  <2>2. CASE packet = << m, handed[m] + 1 >>
    BY <1>3, <1>4, <2>2
  <2>3. CASE packet \in in_flight
    <3>1. /\ packet = << packet[1], packet[2] >>
          /\ packet[1] \in Messages
          /\ packet[2] \in 1 .. handed[packet[1]]
      BY <1>1, <2>3, Zenon DEF InFlightIsSent
    <3>2. QED BY <1>10, <3>1
  <2>4. QED BY <1>2, <2>2, <2>3
<1>12. \A n \in Messages : status[n] = "sent" => status'[n] = "sent"
  BY <1>2, <1>5
<1>13. id_of' \in [Messages -> Ids \cup {NoId}]
  BY <1>2, LinkTypes
<1>14. \A n \in Messages : handed[n] <= handed'[n]
  BY <1>10
<1>15. \A n \in Messages : id_of[n] # NoId => id_of'[n] = id_of[n]
  BY <1>2
<1>16. QED BY <1>2, <1>7, <1>8, <1>9, <1>11, <1>12, <1>13, <1>14, <1>15, SenderStepInv

(* A send that fails keeps it.                                             *)
LEMMA SendFailsInv ==
  ASSUME LinkInv, NEW m \in Messages, SendFails(m)
  PROVE  LinkInv'
<1>1. Progress /\ InFlightIsSent /\ UniqueIds
  BY Zenon DEF LinkInv
<1>2. /\ status[m] = "sending"
      /\ status' = [status EXCEPT ![m] = "failed"]
      /\ id_of' = id_of /\ handed' = handed /\ in_flight' = in_flight
      /\ UNCHANGED << socketVars, delivered, lost, duplicates >>
  BY DEF SendFails, networkVars
<1>3. /\ status' \in [Messages -> {"new", "sending", "sent", "failed"}]
      /\ \A n \in Messages : status'[n] = IF n = m THEN "failed" ELSE status[n]
  BY <1>2, LinkTypes
<1>4. Progress'
  <2>1. \A n \in Messages : handed[n] = DatagramCount(n) => status'[n] = "sent"
    BY <1>1, <1>2, <1>3 DEF Progress
  <2>2. \A n \in Messages : status'[n] = "new" => status[n] = "new"
    BY <1>3
  <2>3. \A n \in Messages : status'[n] = "sent" => status[n] = "sent"
    BY <1>3
  <2>4. \A n \in Messages : status'[n] # "new" => status[n] # "new"
    BY <1>2, <1>3
  <2>5. QED BY <1>1, <1>2, <2>1, <2>2, <2>3, <2>4, Zenon DEF Progress
<1>5. UniqueIds' /\ InFlightIsSent'
  BY <1>1, <1>2, Zenon DEF UniqueIds, InFlightIsSent
<1>6. \A n \in Messages : handed[n] <= handed'[n]
  BY <1>2, LinkTypes
<1>7. \A n \in Messages : status[n] = "sent" => status'[n] = "sent"
  BY <1>2, <1>3
<1>8. /\ id_of' \in [Messages -> Ids \cup {NoId}]
      /\ handed' \in [Messages -> Nat]
      /\ in_flight' \subseteq Messages \X Nat
  BY <1>2, LinkTypes
<1>9. \A n \in Messages : id_of[n] # NoId => id_of'[n] = id_of[n]
  BY <1>2
<1>10. QED BY <1>2, <1>3, <1>4, <1>5, <1>6, <1>7, <1>8, <1>9, SenderStepInv

(* Receiving a datagram of message m, once or again.                       *)
LEMMA HandOverInv ==
  ASSUME LinkInv, NEW m \in Messages, NEW k \in 1 .. handed[m],
         HandOver(SenderOf[m], DatagramOf(m, k)),
         in_flight' \subseteq in_flight,
         lost' \subseteq Messages \X Nat, duplicates' \in Nat
  PROVE  LinkInv'
<1> DEFINE d == DatagramOf(m, k)
           entry == [from |-> SenderOf[m], message |-> Chunks[m]]
<1>1. /\ handle_datagram(SenderOf[m], d)
      /\ delivered' = IF returned'.message = NoMessage
                      THEN delivered
                      ELSE Append(delivered, [from |-> SenderOf[m], message |-> returned'.message])
      /\ UNCHANGED senderVars
  BY DEF HandOver
<1>2. GoodOutcome(m) /\ StateInv'
  BY <1>1, DatagramOutcome
<1>3. now' \in Nat /\ max_reassembly_age_' \in Nat
  BY <1>1, LinkTypes DEF handle_datagram
<1>4. alive' /\ PackagesFit(fragmented_packages_')
  BY <1>2, Zenon DEF GoodOutcome
<1>5. Integrity /\ delivered \in Seq([from : Endpoints, message : Seq(View)])
  BY LinkTypes DEF LinkInv
<1>6. delivered' = delivered \/ (delivered' = Append(delivered, entry) /\ status[m] = "sent")
  BY <1>1, <1>2, Zenon DEF GoodOutcome
<1>7. entry \in [from : Endpoints, message : Seq(View)]
  BY ChunksOK
<1>8. delivered' \in Seq([from : Endpoints, message : Seq(View)])
  <2>1. ASSUME NEW S, delivered \in Seq(S), entry \in S
        PROVE  Append(delivered, entry) \in Seq(S)
    <3> HIDE DEF entry
    <3>1. QED BY <2>1
  <2>2. QED BY <1>5, <1>6, <1>7, <2>1, Zenon
<1>9. Integrity'
  <2>1. status' = status
    BY <1>1 DEF senderVars
  <2>2. CASE delivered' = delivered
    BY <1>5, <2>1, <2>2, Zenon DEF Integrity, Sent
  <2>3. CASE delivered' = Append(delivered, entry) /\ status[m] = "sent"
    <3>1. Content[m] = entry
      BY DEF Content
    <3>2. m \in Sent'
      BY <2>1, <2>3 DEF Sent
    <3> HIDE DEF entry
    <3>3. ASSUME NEW i \in DOMAIN delivered'
          PROVE  \E n \in Messages : n \in Sent' /\ delivered'[i] = Content[n]
      <4>1. CASE i = Len(delivered) + 1
        <5>1. delivered'[i] = entry
          BY <1>5, <2>3, <4>1
        <5>2. QED BY <3>1, <3>2, <5>1, Zenon
      <4>2. CASE i # Len(delivered) + 1
        <5>1. i \in DOMAIN delivered /\ delivered'[i] = delivered[i]
          BY <1>5, <2>3, <3>3, <4>2
        <5>2. PICK n \in Sent : delivered[i] = Content[n]
          BY <1>5, <5>1, Zenon DEF Integrity
        <5>3. n \in Messages /\ n \in Sent'
          BY <2>1 DEF Sent
        <5>4. QED BY <5>1, <5>2, <5>3, Zenon
      <4>3. QED BY <4>1, <4>2
    <3>4. QED BY <3>3, Zenon DEF Integrity
  <2>4. QED BY <1>6, <2>2, <2>3
<1>10. QED BY <1>1, <1>2, <1>3, <1>4, <1>8, <1>9, ReceiverStepInv

(* Alien traffic only makes the socket remove its old packages.            *)
LEMMA AlienIsDropped ==
  ASSUME NEW endpoint \in Endpoints, NEW d \in Datagrams, ReceiveAlien(endpoint, d)
  PROVE  /\ fragmented_packages_' = Cleaned /\ delivered' = delivered
         /\ UNCHANGED << alive, now, max_reassembly_age_, senderVars >>
         /\ UNCHANGED << status, id_of, handed, in_flight, lost, duplicates >>
         /\ \E error \in {"MALFORMED_DATAGRAM", "UNSUPPORTED_PROTOCOL_VERSION"} :
               returned' = [error |-> error, message |-> NoMessage]
<1>1. handle_datagram(endpoint, d) /\ UNCHANGED senderVars /\ UNCHANGED networkVars
  BY DEF ReceiveAlien, HandOver
<1>2. PICK error \in {"MALFORMED_DATAGRAM", "UNSUPPORTED_PROTOCOL_VERSION"} : Dropped(error)
  <2>1. ~ (d.size >= HeaderCommonSize) \/ ~ HasMagic(d) \/ d.version # 5
    <3>1. d.size \in Nat
      BY DatagramsAssumption
    <3>2. d.size < HeaderCommonSize \/ ~ HasMagic(d) \/ d.version # 5
      BY AlienAssumption, Zenon
    <3>3. d.size < HeaderCommonSize => ~ (d.size >= HeaderCommonSize)
      BY <3>1 DEF HeaderCommonSize
    <3>4. QED BY <3>2, <3>3, Zenon
  <2>2. Accept(endpoint, d)
    BY <1>1 DEF handle_datagram
  <2>3. QED BY <2>1, <2>2, Zenon DEF Accept
<1>3. fragmented_packages_' = Cleaned /\ Return(error, NoMessage)
  BY <1>2 DEF Dropped
<1>4. returned' = [error |-> error, message |-> NoMessage] /\ alive' = alive
  BY <1>3 DEF Return
<1>5. delivered' = delivered
  BY <1>4 DEF ReceiveAlien, HandOver
<1>6. now' = now /\ max_reassembly_age_' = max_reassembly_age_
  BY <1>1 DEF handle_datagram
<1>7. UNCHANGED << status, id_of, handed, in_flight, lost, duplicates >>
  BY <1>1 DEF senderVars, networkVars
<1>8. QED BY <1>1, <1>3, <1>4, <1>5, <1>6, <1>7

(* So it keeps the invariant.                                              *)
LEMMA ReceiveAlienInv ==
  ASSUME LinkInv, NEW endpoint \in Endpoints, NEW d \in Datagrams, ReceiveAlien(endpoint, d)
  PROVE  LinkInv'
<1>1. /\ PackagesInv(fragmented_packages_) /\ Settled(fragmented_packages_)
      /\ PackagesFit(fragmented_packages_) /\ alive /\ Integrity
  BY Zenon DEF LinkInv, StateInv
<1>2. /\ fragmented_packages_' = Cleaned /\ delivered' = delivered
      /\ UNCHANGED << alive, now, max_reassembly_age_, senderVars >>
      /\ UNCHANGED << status, id_of, handed, in_flight, lost, duplicates >>
      /\ \E error \in {"MALFORMED_DATAGRAM", "UNSUPPORTED_PROTOCOL_VERSION"} :
            returned' = [error |-> error, message |-> NoMessage]
  BY AlienIsDropped
<1>3. PackagesInv(Cleaned) /\ Settled(Cleaned) /\ PackagesFit(Cleaned)
  BY <1>1, RestrictInv, RestrictFits DEF Cleaned, WithoutOldPackages
<1>4. StateInv'
  <2>1. ReturnedOK'
    BY <1>2 DEF ReturnedOK, ErrorCode
  <2>2. PackagesInv(fragmented_packages_') /\ Settled(fragmented_packages_') /\ alive'
    BY <1>1, <1>2, <1>3
  <2>3. QED BY <2>1, <2>2, Zenon DEF StateInv
<1>5. Integrity'
  BY <1>1, <1>2, Zenon DEF Integrity, Sent
<1>6. alive' /\ PackagesFit(fragmented_packages_')
  BY <1>1, <1>2, <1>3
<1>7. /\ now' \in Nat /\ max_reassembly_age_' \in Nat
      /\ in_flight' \subseteq in_flight
      /\ lost' \subseteq Messages \X Nat /\ duplicates' \in Nat
      /\ delivered' \in Seq([from : Endpoints, message : Seq(View)])
  BY <1>2, LinkTypes
<1>8. QED BY <1>2, <1>4, <1>5, <1>6, <1>7, ReceiverStepInv

(* Steps that leave the receiver's packages and its user's messages alone. *)
LEMMA QuietStepInv ==
  ASSUME LinkInv, UNCHANGED << senderVars, delivered, fragmented_packages_, alive, returned >>,
         in_flight' \subseteq in_flight, lost' \subseteq Messages \X Nat, duplicates' \in Nat,
         now' \in Nat, max_reassembly_age_' \in Nat
  PROVE  LinkInv'
<1>1. StateInv /\ alive /\ PackagesFit(fragmented_packages_) /\ Integrity
  BY Zenon DEF LinkInv
<1>2. StateInv' /\ alive'
  BY <1>1 DEF StateInv, ReturnedOK
<1>3. PackagesFit(fragmented_packages_')
  BY <1>1
<1>4. Integrity'
  BY <1>1, Zenon DEF Integrity, Sent, senderVars
<1>5. delivered' \in Seq([from : Endpoints, message : Seq(View)]) /\ UNCHANGED senderVars
  BY LinkTypes
<1>6. QED BY <1>2, <1>3, <1>4, <1>5, ReceiverStepInv

(* Every step keeps it.                                                    *)
LEMMA LinkInvNext ==
  ASSUME IdsAreUnique
  PROVE  LinkInv /\ [LinkNext]_linkVars => LinkInv'
<1> SUFFICES ASSUME LinkInv, [LinkNext]_linkVars PROVE LinkInv'
  OBVIOUS
<1>1. InFlightIsSent
  BY Zenon DEF LinkInv
<1>2. ASSUME NEW m \in Messages, StartSending(m) \/ SendDatagram(m) \/ SendFails(m)
      PROVE  LinkInv'
  BY <1>2, StartSendingInv, SendDatagramInv, SendFailsInv
<1>3. ASSUME NEW packet \in in_flight,
             \/ Receive(packet[1], packet[2])
             \/ ReceiveCopy(packet[1], packet[2])
             \/ Lose(packet[1], packet[2])
      PROVE  LinkInv'
  <2>1. /\ packet[1] \in Messages /\ packet[2] \in 1 .. handed[packet[1]]
        /\ packet \in Messages \X Nat /\ packet = << packet[1], packet[2] >>
    BY <1>1, LinkTypes DEF InFlightIsSent
  <2>2. CASE Receive(packet[1], packet[2])
    <3>1. /\ HandOver(SenderOf[packet[1]], DatagramOf(packet[1], packet[2]))
          /\ in_flight' = in_flight \ {<< packet[1], packet[2] >>}
          /\ lost' = lost /\ duplicates' = duplicates
      BY <2>2 DEF Receive
    <3>2. in_flight' \subseteq in_flight /\ lost' \subseteq Messages \X Nat /\ duplicates' \in Nat
      BY <3>1, LinkTypes
    <3>3. QED BY <2>1, <3>1, <3>2, HandOverInv
  <2>3. CASE ReceiveCopy(packet[1], packet[2])
    <3>1. /\ HandOver(SenderOf[packet[1]], DatagramOf(packet[1], packet[2]))
          /\ in_flight' = in_flight
          /\ lost' = lost /\ duplicates' = duplicates + 1
      BY <2>3 DEF ReceiveCopy
    <3>2. in_flight' \subseteq in_flight /\ lost' \subseteq Messages \X Nat /\ duplicates' \in Nat
      BY <3>1, LinkTypes
    <3>3. QED BY <2>1, <3>1, <3>2, HandOverInv
  <2>4. CASE Lose(packet[1], packet[2])
    <3>1. /\ UNCHANGED << senderVars, delivered, fragmented_packages_, alive, returned >>
          /\ in_flight' = in_flight \ {<< packet[1], packet[2] >>}
          /\ lost' = lost \cup {<< packet[1], packet[2] >>}
          /\ duplicates' = duplicates /\ now' = now
          /\ max_reassembly_age_' = max_reassembly_age_
      BY <2>4 DEF Lose, socketVars, vars
    <3>2. /\ in_flight' \subseteq in_flight /\ lost' \subseteq Messages \X Nat
          /\ duplicates' \in Nat /\ now' \in Nat /\ max_reassembly_age_' \in Nat
      BY <2>1, <3>1, LinkTypes
    <3>3. QED BY <3>1, <3>2, QuietStepInv
  <2>5. QED BY <1>3, <2>2, <2>3, <2>4
<1>4. ASSUME NEW endpoint \in Endpoints, NEW d \in Datagrams, ReceiveAlien(endpoint, d)
      PROVE  LinkInv'
  BY <1>4, ReceiveAlienInv
<1>5. CASE ReceiverStep
  <2>1. /\ UNCHANGED << senderVars, delivered, fragmented_packages_, alive, returned >>
        /\ in_flight' = in_flight /\ lost' = lost /\ duplicates' = duplicates
        /\ now' \in Nat /\ max_reassembly_age_' \in Nat
    <3>1. CASE SocketTick
      BY <1>5, <3>1, LinkTypes DEF ReceiverStep, SocketTick, Tick, networkVars
    <3>2. ASSUME NEW age \in Ages, set_max_reassembly_age(age)
          PROVE  /\ fragmented_packages_' = fragmented_packages_ /\ alive' = alive
                 /\ returned' = returned /\ now' = now /\ max_reassembly_age_' = age
                 /\ age \in Nat
      BY <3>2, AgesAssumption DEF set_max_reassembly_age, vars
    <3>3. QED BY <1>5, <3>1, <3>2, LinkTypes DEF ReceiverStep, networkVars
  <2>2. in_flight' \subseteq in_flight /\ lost' \subseteq Messages \X Nat /\ duplicates' \in Nat
    BY <2>1, LinkTypes
  <2>3. QED BY <2>1, <2>2, QuietStepInv
<1>6. CASE UNCHANGED linkVars
  <2>1. /\ UNCHANGED << senderVars, delivered, fragmented_packages_, alive, returned >>
        /\ in_flight' = in_flight /\ lost' = lost /\ duplicates' = duplicates
        /\ now' = now /\ max_reassembly_age_' = max_reassembly_age_
    BY <1>6 DEF linkVars, socketVars, vars, networkVars
  <2>2. /\ in_flight' \subseteq in_flight /\ lost' \subseteq Messages \X Nat
        /\ duplicates' \in Nat /\ now' \in Nat /\ max_reassembly_age_' \in Nat
    BY <2>1, LinkTypes
  <2>3. QED BY <2>1, <2>2, QuietStepInv
<1>7. QED BY <1>2, <1>3, <1>4, <1>5, <1>6 DEF LinkNext

(* So it always holds.                                                     *)
LEMMA LinkInvariantHolds ==
  ASSUME IdsAreUnique
  PROVE  LinkSpec => []LinkInv
BY LinkInvInit, LinkInvNext, PTL DEF LinkSpec

(* The link's variables have their types.                                  *)
THEOREM LinkTypeCorrect ==
  ASSUME IdsAreUnique
  PROVE  LinkSpec => []LinkTypeOK
<1>1. LinkInv => LinkTypeOK
  BY Zenon DEF LinkInv
<1>2. QED BY <1>1, LinkInvariantHolds, PTL

(* What the receiver returns was sent, by that sender, byte for byte.      *)
THEOREM IntegrityHolds ==
  ASSUME IdsAreUnique
  PROVE  LinkSpec => []Integrity
<1>1. LinkInv => Integrity
  BY Zenon DEF LinkInv
<1>2. QED BY <1>1, LinkInvariantHolds, PTL

(* The receiver never dereferences a hole.                                 *)
THEOREM NoHoleIsDereferenced ==
  ASSUME IdsAreUnique
  PROVE  LinkSpec => []CompletePackagesHaveNoHoles
<1>1. LinkInv => CompletePackagesHaveNoHoles
  BY Zenon DEF LinkInv, CompletePackagesHaveNoHoles
<1>2. QED BY <1>1, LinkInvariantHolds, PTL

(* No datagram of a sender, nor a message made of them, is malformed.      *)
THEOREM HonestTrafficIsAccepted ==
  ASSUME IdsAreUnique
  PROVE  LinkSpec => HonestTrafficIsNotMalformed
<1>1. ASSUME LinkInv, NEW packet \in in_flight,
             HandOver(SenderOf[packet[1]], DatagramOf(packet[1], packet[2]))
      PROVE  returned'.error \notin Malformed
  <2>1. packet[1] \in Messages /\ packet[2] \in 1 .. handed[packet[1]]
    BY <1>1, Zenon DEF LinkInv, InFlightIsSent
  <2>2. handle_datagram(SenderOf[packet[1]], DatagramOf(packet[1], packet[2]))
    BY <1>1 DEF HandOver
  <2>3. GoodOutcome(packet[1])
    BY <1>1, <2>1, <2>2, DatagramOutcome
  <2>4. QED BY <2>3 DEF GoodOutcome
<1>2. LinkInv => [ \A packet \in in_flight :
                    HandOver(SenderOf[packet[1]], DatagramOf(packet[1], packet[2])) =>
                       returned'.error \notin Malformed ]_linkVars
  BY <1>1
<1>3. QED BY <1>2, LinkInvariantHolds, PTL DEF HonestTrafficIsNotMalformed

-----------------------------------------------------------------------------
(* Copies of a message.                                                    *)

(* No two messages look the same to the receiver's user: Copies counts     *)
(* what was delivered by its content.                                      *)
DistinctContents == \A m, n \in Messages : Content[m] = Content[n] => m = n

(* The datagrams of m that the sender has handed over and that are no      *)
(* longer in the network.                                                  *)
Arrived(m) == {k \in 1 .. handed[m] : << m, k >> \notin in_flight}

(* Every copy of m that was delivered has taken all its datagrams, and     *)
(* what the receiver holds of m has taken some: neither is free.           *)
Balance ==
  /\ duplicates <= MaxDuplicates
  /\ \A m \in Messages :
        Copies(m) * DatagramCount(m) + Held(fragmented_packages_, m)
           <= Cardinality(Arrived(m)) + duplicates

(* The numbers from 1 to n are n.                                          *)
LEMMA IntervalSize ==
  ASSUME NEW n \in Nat
  PROVE  IsFiniteSet(1 .. n) /\ Cardinality(1 .. n) = n
BY FS_Interval

(* The numbers the balance is made of.                                     *)
LEMMA CountsAreNat ==
  ASSUME LinkInv, NEW m \in Messages
  PROVE  /\ Copies(m) \in Nat /\ IsFiniteSet({i \in DOMAIN delivered : delivered[i] = Content[m]})
         /\ IsFiniteSet(Arrived(m)) /\ Cardinality(Arrived(m)) \in Nat
         /\ Cardinality(Arrived(m)) <= DatagramCount(m)
         /\ DatagramCount(m) \in Nat /\ DatagramCount(m) >= 1
         /\ Held(fragmented_packages_, m) \in Nat
<1>1. handed[m] \in Nat /\ handed[m] <= DatagramCount(m) /\ DatagramCount(m) \in Nat
      /\ DatagramCount(m) >= 1
  <2>1. DatagramCount(m) \in Nat /\ DatagramCount(m) >= 1
    BY ChunksOK DEF DatagramCount
  <2>2. handed[m] \in 0 .. DatagramCount(m)
    BY Zenon DEF LinkInv, Progress
  <2>3. QED BY <2>1, <2>2
<1>2. /\ IsFiniteSet(1 .. handed[m]) /\ Cardinality(1 .. handed[m]) = handed[m]
  BY <1>1, IntervalSize
<1>3. /\ IsFiniteSet(Arrived(m)) /\ Cardinality(Arrived(m)) \in Nat
      /\ Cardinality(Arrived(m)) <= handed[m]
  <2>1. Arrived(m) \in SUBSET (1 .. handed[m])
    BY DEF Arrived
  <2>2. IsFiniteSet(Arrived(m)) /\ Cardinality(Arrived(m)) <= handed[m]
    <3>1. Cardinality(Arrived(m)) <= Cardinality(1 .. handed[m])
      BY <1>2, <2>1, FS_Subset
    <3>2. IsFiniteSet(Arrived(m))
      BY <1>2, <2>1, FS_Subset
    <3>3. QED BY <1>2, <3>1, <3>2
  <2>3. QED BY <2>2, FS_CardinalityType
<1>4. /\ Copies(m) \in Nat
      /\ IsFiniteSet({i \in DOMAIN delivered : delivered[i] = Content[m]})
  <2>1. Len(delivered) \in Nat /\ DOMAIN delivered = 1 .. Len(delivered)
    BY LinkTypes
  <2>2. IsFiniteSet(DOMAIN delivered)
    BY <2>1, FS_Interval
  <2>3. {i \in DOMAIN delivered : delivered[i] = Content[m]} \in SUBSET DOMAIN delivered
    OBVIOUS
  <2>4. QED BY <2>2, <2>3, FS_Subset, FS_CardinalityType DEF Copies
<1>5. Held(fragmented_packages_, m) \in Nat
  BY HeldIsNat DEF LinkInv, StateInv
<1>6. QED BY <1>1, <1>3, <1>4, <1>5

(* Delivering message m makes one copy more of it and of no other.         *)
LEMMA DeliveryCounts ==
  ASSUME LinkInv, DistinctContents, NEW m \in Messages,
         delivered' = Append(delivered, [from |-> SenderOf[m], message |-> Chunks[m]])
  PROVE  /\ Copies(m)' = Copies(m) + 1
         /\ \A n \in Messages : n # m => Copies(n)' = Copies(n)
<1> DEFINE At(n) == {i \in DOMAIN delivered : delivered[i] = Content[n]}
           last == Len(delivered) + 1
<1>1. Len(delivered) \in Nat /\ DOMAIN delivered = 1 .. Len(delivered)
  BY LinkTypes
<1>2. delivered' = Append(delivered, Content[m])
  BY DEF Content
<1>3. /\ DOMAIN delivered' = DOMAIN delivered \cup {last}
      /\ delivered'[last] = Content[m] /\ last \notin DOMAIN delivered
      /\ \A i \in DOMAIN delivered : delivered'[i] = delivered[i]
  BY <1>1, <1>2, LinkTypes
<1>4. At(m)' = At(m) \cup {last} /\ last \notin At(m)
  BY <1>3 DEF Content
<1>5. Copies(m)' = Copies(m) + 1
  BY <1>4, CountsAreNat, FS_AddElement DEF Copies
<1>6. ASSUME NEW n \in Messages, n # m
      PROVE  Copies(n)' = Copies(n)
  <2>1. Content[n] # Content[m]
    BY <1>6 DEF DistinctContents
  <2>2. At(n)' = At(n)
    BY <1>3, <2>1 DEF Content
  <2>3. QED BY <2>2 DEF Copies
<1>7. QED BY <1>5, <1>6

(* Adding a copy to a product.                                             *)
LEMMA OneCopyMore ==
  ASSUME NEW c \in Nat, NEW n \in Nat
  PROVE  (c + 1) * n = c * n + n /\ c * n \in Nat
OBVIOUS

(* The balance of a message's datagram that the receiver is handed: the    *)
(* network gives it up, or duplicates it.                                  *)
LEMMA HandOverBalance ==
  ASSUME LinkInv, Balance, DistinctContents, NEW m \in Messages, NEW k \in 1 .. handed[m],
         HandOver(SenderOf[m], DatagramOf(m, k)),
         << m, k >> \in in_flight,
         \/ in_flight' = in_flight \ {<< m, k >>} /\ duplicates' = duplicates
         \/ /\ in_flight' = in_flight /\ duplicates' = duplicates + 1
            /\ duplicates < MaxDuplicates
  PROVE  Balance'
<1>1. /\ handle_datagram(SenderOf[m], DatagramOf(m, k))
      /\ delivered' = IF returned'.message = NoMessage
                      THEN delivered
                      ELSE Append(delivered, [from |-> SenderOf[m], message |-> returned'.message])
      /\ handed' = handed /\ id_of' = id_of
  BY DEF HandOver, senderVars
<1>2. /\ GoodOutcome(m) /\ StateInv'
      /\ HoldsOneMore(fragmented_packages_, m)
      /\ \A n \in Messages : n # m => Held(fragmented_packages_', n) <= Held(fragmented_packages_, n)
  BY <1>1, DatagramOutcome, DatagramWeight
<1>3. duplicates \in Nat /\ MaxDuplicates \in Nat /\ handed[m] \in Nat
  BY LinkTypes, BoundsAssumption
<1>4. \A n \in Messages : Held(fragmented_packages_, n)' = Held(fragmented_packages_', n)
  BY <1>1 DEF Held, KeyOf
<1>5. \A n \in Messages : Held(fragmented_packages_', n) \in Nat
  <2>1. PackagesInv(fragmented_packages_')
    BY <1>2 DEF StateInv
  <2>2. QED BY <2>1, HeldIsNat
<1>6. \A n \in Messages : n # m => Arrived(n)' = Arrived(n)
  BY <1>1 DEF Arrived
<1>7. /\ Cardinality(Arrived(m)') + duplicates' = Cardinality(Arrived(m)) + duplicates + 1
      /\ duplicates' >= duplicates /\ duplicates' \in Nat
  <2>0. Cardinality(Arrived(m)) \in Nat
    BY CountsAreNat
  <2>1. CASE in_flight' = in_flight \ {<< m, k >>} /\ duplicates' = duplicates
    <3>1. Arrived(m)' = Arrived(m) \cup {k} /\ k \notin Arrived(m)
      <4>1. \A j : << m, j >> \notin in_flight' <=> << m, j >> \notin in_flight \/ j = k
        BY <2>1
      <4>2. k \in 1 .. handed[m] /\ << m, k >> \in in_flight
        OBVIOUS
      <4>3. QED BY <1>1, <4>1, <4>2, Zenon DEF Arrived
    <3>2. Cardinality(Arrived(m)') = Cardinality(Arrived(m)) + 1
      <4>1. IsFiniteSet(Arrived(m))
        BY CountsAreNat
      <4>2. QED BY <3>1, <4>1, FS_AddElement
    <3>3. QED BY <1>3, <2>0, <2>1, <3>2
  <2>2. CASE in_flight' = in_flight /\ duplicates' = duplicates + 1
    <3>1. Arrived(m)' = Arrived(m)
      BY <1>1, <2>2 DEF Arrived
    <3>2. Cardinality(Arrived(m)') = Cardinality(Arrived(m))
      BY <3>1, Zenon
    <3>3. QED BY <1>3, <2>0, <2>2, <3>2
  <2>3. QED BY <2>1, <2>2
<1>8. ASSUME NEW n \in Messages
      PROVE  Copies(n)' * DatagramCount(n) + Held(fragmented_packages_', n)
                <= Cardinality(Arrived(n)') + duplicates'
  <2>1. Copies(n) * DatagramCount(n) + Held(fragmented_packages_, n)
           <= Cardinality(Arrived(n)) + duplicates
    BY DEF Balance
  <2>2. /\ Copies(n) \in Nat /\ DatagramCount(n) \in Nat /\ Cardinality(Arrived(n)) \in Nat
        /\ Held(fragmented_packages_, n) \in Nat /\ Held(fragmented_packages_', n) \in Nat
    BY <1>5, CountsAreNat
  <2>3. /\ (Copies(n) + 1) * DatagramCount(n) = Copies(n) * DatagramCount(n) + DatagramCount(n)
        /\ Copies(n) * DatagramCount(n) \in Nat
    BY <2>2, OneCopyMore
  <2> DEFINE before == Copies(n) * DatagramCount(n)
             h == Held(fragmented_packages_, n)
             h2 == Held(fragmented_packages_', n)
             a == Cardinality(Arrived(n))
             count == DatagramCount(n)
  <2>4. before \in Nat /\ h \in Nat /\ h2 \in Nat /\ a \in Nat /\ count \in Nat
    BY <2>2, <2>3
  <2>5. CASE n # m
    <3>1. Copies(n)' = Copies(n)
      <4>1. CASE returned'.message = NoMessage
        BY <1>1, <4>1 DEF Copies, Content
      <4>2. CASE returned'.message # NoMessage
        <5>1. delivered' = Append(delivered, [from |-> SenderOf[m], message |-> Chunks[m]])
          BY <1>1, <1>2, <4>2, Zenon DEF GoodOutcome
        <5>2. QED BY <2>5, <5>1, DeliveryCounts
      <4>3. QED BY <4>1, <4>2
    <3>2. Copies(n)' * DatagramCount(n) = before
      BY <3>1, Zenon
    <3>3. h2 <= h /\ Cardinality(Arrived(n)') = a
      BY <1>2, <1>6, <2>5
    <3> HIDE DEF before, h, h2, a
    <3>4. before + h <= a + duplicates
      BY <2>1 DEF before, h, a
    <3>5. before + h2 <= a + duplicates'
      BY <1>3, <1>7, <2>4, <3>3, <3>4
    <3>6. QED BY <3>2, <3>3, <3>5 DEF h2
  <2>6. CASE n = m /\ returned'.message = NoMessage
    <3>1. Copies(n)' = Copies(n)
      BY <1>1, <2>6 DEF Copies, Content
    <3>2. Copies(n)' * DatagramCount(n) = before
      BY <3>1, Zenon
    <3>3. h2 <= h + 1
      BY <1>2, <2>6 DEF HoldsOneMore
    <3>4. Cardinality(Arrived(n)') + duplicates' = a + duplicates + 1
      BY <1>7, <2>6
    <3> HIDE DEF before, h, h2, a
    <3>5. before + h <= a + duplicates
      BY <2>1 DEF before, h, a
    <3>6. before + h2 <= a + duplicates + 1
      BY <1>3, <2>4, <3>3, <3>5
    <3>7. QED BY <3>2, <3>4, <3>6 DEF h2
  <2>7. CASE n = m /\ returned'.message # NoMessage
    <3>1. delivered' = Append(delivered, [from |-> SenderOf[m], message |-> Chunks[m]])
      BY <1>1, <1>2, <2>7, Zenon DEF GoodOutcome
    <3>2. Copies(n)' = Copies(n) + 1
      BY <2>7, <3>1, DeliveryCounts
    <3>3. Copies(n)' * DatagramCount(n) = before + count
      BY <2>3, <3>2, Zenon
    <3>4. h2 = 0 /\ count <= h + 1
      BY <1>2, <2>7 DEF HoldsOneMore
    <3>5. Cardinality(Arrived(n)') + duplicates' = a + duplicates + 1
      BY <1>7, <2>7
    <3> HIDE DEF before, h, h2, a, count
    <3>6. before + h <= a + duplicates
      BY <2>1 DEF before, h, a
    <3>7. before + count + h2 <= a + duplicates + 1
      BY <1>3, <2>4, <3>4, <3>6
    <3>8. QED BY <3>3, <3>5, <3>7 DEF h2
  <2>8. QED BY <2>5, <2>6, <2>7
<1>9. duplicates' <= MaxDuplicates
  BY <1>3 DEF Balance
<1>10. QED BY <1>4, <1>8, <1>9 DEF Balance, DatagramCount, IsFragmented

(* Steps that deliver nothing, hold no more and leave no datagram in the   *)
(* network that had arrived.                                               *)
LEMMA QuietStepBalance ==
  ASSUME LinkInv, LinkInv', Balance, UNCHANGED << delivered, duplicates >>,
         \A m \in Messages : /\ Held(fragmented_packages_, m)' <= Held(fragmented_packages_, m)
                             /\ Arrived(m) \subseteq Arrived(m)'
  PROVE  Balance'
<1>1. ASSUME NEW m \in Messages
      PROVE  Copies(m)' * DatagramCount(m) + Held(fragmented_packages_, m)'
                <= Cardinality(Arrived(m)') + duplicates'
  <2>1. Copies(m) * DatagramCount(m) + Held(fragmented_packages_, m)
           <= Cardinality(Arrived(m)) + duplicates
    BY DEF Balance
  <2>2. Copies(m)' = Copies(m)
    BY DEF Copies, Content
  <2>3. IsFiniteSet(Arrived(m)')
    <3>1. handed'[m] \in Nat
      <4>1. (handed \in [Messages -> Nat])'
        BY LinkTypes, PTL
      <4>2. QED BY <4>1
    <3>2. IsFiniteSet(1 .. handed'[m])
      BY <3>1, FS_Interval
    <3>3. Arrived(m)' \in SUBSET (1 .. handed'[m])
      BY DEF Arrived
    <3>4. QED BY <3>2, <3>3, FS_Subset
  <2>4. Cardinality(Arrived(m)) <= Cardinality(Arrived(m)') /\ Cardinality(Arrived(m)') \in Nat
    <3>1. Arrived(m) \in SUBSET Arrived(m)'
      OBVIOUS
    <3>2. QED BY <2>3, <3>1, FS_Subset, FS_CardinalityType
  <2>5. Copies(m) \in Nat /\ DatagramCount(m) \in Nat /\ Copies(m) * DatagramCount(m) \in Nat
    BY CountsAreNat, OneCopyMore
  <2>6. duplicates \in Nat /\ Cardinality(Arrived(m)) \in Nat /\ duplicates' = duplicates
    BY CountsAreNat, LinkTypes
  <2>7. Held(fragmented_packages_, m)' \in Nat /\ Held(fragmented_packages_, m) \in Nat
    <3>1. PackagesInv(fragmented_packages_')
      BY DEF LinkInv, StateInv
    <3>2. Held(fragmented_packages_, m)' \in Nat
      BY <3>1, WeightIsNat DEF Held, PackagesInv, KeyOf, Weight
    <3>3. QED BY <3>2, CountsAreNat
  <2>8. Held(fragmented_packages_, m)' <= Held(fragmented_packages_, m)
    OBVIOUS
  <2> DEFINE before == Copies(m) * DatagramCount(m)
             h  == Held(fragmented_packages_, m)
             a  == Cardinality(Arrived(m))
             a2 == Cardinality(Arrived(m)')
  <2>9. Copies(m)' * DatagramCount(m) = before
    BY <2>2, Zenon
  <2>10. before \in Nat /\ before + h <= a + duplicates /\ a <= a2 /\ a2 \in Nat
    BY <2>1, <2>4, <2>5
  <2> HIDE DEF before
  <2>11. QED BY <2>4, <2>6, <2>7, <2>8, <2>9, <2>10
<1>2. QED BY <1>1 DEF Balance, DatagramCount, IsFragmented

(* At first nothing has been delivered or is held.                         *)
LEMMA BalanceInit == LinkInit => Balance
<1> SUFFICES ASSUME LinkInit PROVE Balance
  OBVIOUS
<1>1. LinkInv
  BY LinkInvInit
<1>2. duplicates = 0 /\ MaxDuplicates \in Nat
  BY BoundsAssumption DEF LinkInit
<1>3. ASSUME NEW m \in Messages
      PROVE  Copies(m) * DatagramCount(m) + Held(fragmented_packages_, m)
                <= Cardinality(Arrived(m)) + duplicates
  <2>1. {i \in DOMAIN delivered : delivered[i] = Content[m]} = {}
    BY DEF LinkInit
  <2>2. Copies(m) = 0
    BY <2>1, FS_EmptySet DEF Copies
  <2>3. Held(fragmented_packages_, m) = 0
    BY DEF Held, LinkInit
  <2>4. Cardinality(Arrived(m)) \in Nat /\ DatagramCount(m) \in Nat
    BY <1>1, CountsAreNat
  <2>5. Copies(m) * DatagramCount(m) = 0
    BY <2>2, <2>4
  <2>6. QED BY <1>2, <2>3, <2>4, <2>5
<1>4. QED BY <1>2, <1>3 DEF Balance

(* A new message, its id being new, is not held; nothing changes for       *)
(* others.                                                                 *)
LEMMA StartSendingBalance ==
  ASSUME IdsAreUnique, LinkInv, LinkInv', Balance, NEW m \in Messages, StartSending(m)
  PROVE  Balance'
<1>1. /\ UNCHANGED << handed, in_flight, duplicates, delivered, fragmented_packages_ >>
  BY DEF StartSending, socketVars, vars, networkVars
<1>2. PackagesFit(fragmented_packages_) /\ PackagesInv(fragmented_packages_)
  BY DEF LinkInv, StateInv
<1>3. status[m] = "new" /\ Progress /\ UniqueIds'
  BY DEF StartSending, LinkInv
<1>4. id_of[m] = NoId
  BY <1>3 DEF Progress
<1>5. \A n \in Messages : n # m => id_of'[n] = id_of[n]
  <2>1. id_of \in [Messages -> Ids \cup {NoId}]
    BY LinkTypes
  <2>2. id_of' = id_of \/ \E id \in Ids : id_of' = [id_of EXCEPT ![m] = id]
    BY Zenon DEF StartSending
  <2>3. QED BY <2>1, <2>2
<1>6. ASSUME NEW n \in Messages
      PROVE  Held(fragmented_packages_, n)' <= Held(fragmented_packages_, n)
  <2>1. Held(fragmented_packages_, n) \in Nat
    BY <1>2, HeldIsNat
  <2>2. CASE n # m
    <3>1. Held(fragmented_packages_, n)' = Held(fragmented_packages_, n)
      BY <1>1, <1>5, <2>2 DEF Held, KeyOf
    <3>2. QED BY <2>1, <3>1
  <2>3. CASE n = m
    <3>1. KeyOf(m)' \notin DOMAIN fragmented_packages_ \/ id_of'[m] = NoId
      <4>1. SUFFICES ASSUME KeyOf(m)' \in DOMAIN fragmented_packages_, id_of'[m] # NoId
            PROVE  FALSE
        OBVIOUS
      <4>2. PICK j \in Messages : id_of[j] # NoId /\ KeyOf(m)' = KeyOf(j)
        BY <1>2, <4>1, Zenon DEF PackagesFit
      <4>3. j # m /\ id_of'[j] = id_of[j]
        BY <1>4, <1>5, <4>2
      <4>4. SenderOf[m] = SenderOf[j] /\ id_of'[m] = id_of'[j]
        BY <4>2, <4>3 DEF KeyOf
      <4>5. QED BY <1>3, <4>1, <4>3, <4>4 DEF UniqueIds
    <3>2. Held(fragmented_packages_, m)' = 0
      BY <1>1, <3>1 DEF Held
    <3>3. QED BY <2>1, <2>3, <3>2
  <2>4. QED BY <2>2, <2>3
<1>7. \A n \in Messages : Arrived(n) \subseteq Arrived(n)'
  BY <1>1 DEF Arrived
<1>8. QED BY <1>1, <1>6, <1>7, QuietStepBalance

(* A datagram that is sent is in the network, and has not arrived.         *)
LEMMA SendDatagramBalance ==
  ASSUME LinkInv, LinkInv', Balance, NEW m \in Messages, SendDatagram(m)
  PROVE  Balance'
<1>1. /\ UNCHANGED << id_of, duplicates, delivered, fragmented_packages_ >>
      /\ handed' = [handed EXCEPT ![m] = @ + 1]
      /\ in_flight' = in_flight \cup {<< m, handed[m] + 1 >>}
  BY DEF SendDatagram, socketVars, vars
<1>2. handed \in [Messages -> Nat]
  BY LinkTypes
<1>3. ASSUME NEW n \in Messages
      PROVE  Held(fragmented_packages_, n)' <= Held(fragmented_packages_, n)
  <2>1. Held(fragmented_packages_, n) \in Nat
    BY CountsAreNat
  <2>2. Held(fragmented_packages_, n)' = Held(fragmented_packages_, n)
    BY <1>1 DEF Held, KeyOf
  <2>3. QED BY <2>1, <2>2
<1>4. ASSUME NEW n \in Messages, NEW k \in Arrived(n)
      PROVE  k \in Arrived(n)'
  <2>1. k \in 1 .. handed[n] /\ << n, k >> \notin in_flight
    BY DEF Arrived
  <2>2. handed[n] \in Nat /\ handed'[n] = (IF n = m THEN handed[n] + 1 ELSE handed[n])
    BY <1>1, <1>2
  <2>3. k \in 1 .. handed'[n]
    BY <2>1, <2>2
  <2>4. << n, k >> # << m, handed[m] + 1 >>
    BY <2>1, <2>2
  <2>5. QED BY <1>1, <2>1, <2>3, <2>4 DEF Arrived
<1>5. \A n \in Messages : Arrived(n) \subseteq Arrived(n)'
  BY <1>4
<1>6. QED BY <1>1, <1>3, <1>5, QuietStepBalance

(* Steps that leave ids and calls alone, in which nothing comes to the     *)
(* receiver that it would keep.                                            *)
LEMMA NothingKeptBalance ==
  ASSUME LinkInv, LinkInv', Balance, UNCHANGED << id_of, handed, delivered, duplicates >>,
         in_flight' \subseteq in_flight,
         fragmented_packages_' = fragmented_packages_ \/ fragmented_packages_' = Cleaned
  PROVE  Balance'
<1>1. PackagesInv(fragmented_packages_)
  BY DEF LinkInv, StateInv
<1>2. ASSUME NEW n \in Messages
      PROVE  Held(fragmented_packages_, n)' <= Held(fragmented_packages_, n)
  <2>1. \A key \in DOMAIN fragmented_packages_' :
           key \in DOMAIN fragmented_packages_ /\ fragmented_packages_'[key] = fragmented_packages_[key]
    BY DEF Cleaned, WithoutOldPackages, Restrict
  <2>2. Held(fragmented_packages_', n) <= Held(fragmented_packages_, n)
    BY <1>1, <2>1, RestrictedIsNotMore
  <2>3. QED BY <2>2 DEF Held, KeyOf
<1>3. \A n \in Messages : Arrived(n) \subseteq Arrived(n)'
  BY DEF Arrived
<1>4. QED BY <1>2, <1>3, QuietStepBalance

(* Every step keeps the balance.                                          *)
LEMMA BalanceNext ==
  ASSUME IdsAreUnique, DistinctContents
  PROVE  LinkInv /\ LinkInv' /\ Balance /\ [LinkNext]_linkVars => Balance'
<1> SUFFICES ASSUME LinkInv, LinkInv', Balance, [LinkNext]_linkVars PROVE Balance'
  OBVIOUS
<1>1. ASSUME NEW m \in Messages, StartSending(m)
      PROVE  Balance'
  BY <1>1, StartSendingBalance
<1>2. ASSUME NEW m \in Messages, SendDatagram(m)
      PROVE  Balance'
  BY <1>2, SendDatagramBalance
<1>3. ASSUME NEW m \in Messages, SendFails(m)
      PROVE  Balance'
  <2>1. /\ UNCHANGED << id_of, handed, delivered, duplicates >>
        /\ in_flight' = in_flight /\ fragmented_packages_' = fragmented_packages_
    BY <1>3 DEF SendFails, socketVars, vars, networkVars
  <2>2. QED BY <2>1, NothingKeptBalance
<1>4. ASSUME NEW packet \in in_flight, Lose(packet[1], packet[2])
      PROVE  Balance'
  <2>1. /\ UNCHANGED << id_of, handed, delivered, duplicates >>
        /\ in_flight' \subseteq in_flight /\ fragmented_packages_' = fragmented_packages_
    BY <1>4 DEF Lose, socketVars, vars, senderVars
  <2>2. QED BY <2>1, NothingKeptBalance
<1>5. ASSUME NEW packet \in in_flight,
             Receive(packet[1], packet[2]) \/ ReceiveCopy(packet[1], packet[2])
      PROVE  Balance'
  <2>1. /\ packet[1] \in Messages /\ packet[2] \in 1 .. handed[packet[1]]
        /\ packet = << packet[1], packet[2] >>
    BY DEF LinkInv, InFlightIsSent
  <2>2. HandOver(SenderOf[packet[1]], DatagramOf(packet[1], packet[2]))
    BY <1>5 DEF Receive, ReceiveCopy
  <2>3. \/ in_flight' = in_flight \ {<< packet[1], packet[2] >>} /\ duplicates' = duplicates
        \/ /\ in_flight' = in_flight /\ duplicates' = duplicates + 1
           /\ duplicates < MaxDuplicates
    BY <1>5 DEF Receive, ReceiveCopy
  <2>4. QED BY <2>1, <2>2, <2>3, HandOverBalance
<1>6. ASSUME NEW endpoint \in Endpoints, NEW d \in Datagrams, ReceiveAlien(endpoint, d)
      PROVE  Balance'
  <2>1. /\ fragmented_packages_' = Cleaned /\ delivered' = delivered
        /\ UNCHANGED << id_of, handed, in_flight, duplicates >>
    BY <1>6, AlienIsDropped
  <2>2. QED BY <2>1, NothingKeptBalance
<1>7. CASE ReceiverStep
  <2>1. /\ UNCHANGED << id_of, handed, delivered, duplicates >>
        /\ in_flight' = in_flight /\ fragmented_packages_' = fragmented_packages_
    BY <1>7 DEF ReceiverStep, SocketTick, Tick, set_max_reassembly_age, vars, senderVars, networkVars
  <2>2. QED BY <2>1, NothingKeptBalance
<1>8. CASE UNCHANGED linkVars
  <2>1. /\ UNCHANGED << id_of, handed, delivered, duplicates >>
        /\ in_flight' = in_flight /\ fragmented_packages_' = fragmented_packages_
    BY <1>8 DEF linkVars, socketVars, vars, senderVars, networkVars
  <2>2. QED BY <2>1, NothingKeptBalance
<1>9. QED BY <1>1, <1>2, <1>3, <1>4, <1>5, <1>6, <1>7, <1>8 DEF LinkNext

(* The balance holds of every reachable state.                             *)
LEMMA BalanceHolds ==
  ASSUME IdsAreUnique, DistinctContents
  PROVE  LinkSpec => [](LinkInv /\ Balance)
<1>1. LinkInit => LinkInv /\ Balance
  BY LinkInvInit, BalanceInit
<1>2. LinkInv /\ Balance /\ [LinkNext]_linkVars => LinkInv' /\ Balance'
  BY LinkInvNext, BalanceNext
<1>3. QED BY <1>1, <1>2, PTL DEF LinkSpec

(* The copies after the first are paid for with duplicates.                *)
LEMMA BalanceOfCopies ==
  ASSUME LinkInv, Balance, NEW m \in Messages
  PROVE  /\ Copies(m) \in Nat /\ DatagramCount(m) \in Nat /\ DatagramCount(m) >= 1
         /\ Copies(m) * DatagramCount(m) <= duplicates + DatagramCount(m)
         /\ Copies(m) >= 1 => (Copies(m) - 1) * DatagramCount(m) <= duplicates
<1> DEFINE c == Copies(m)
           n == DatagramCount(m)
           h == Held(fragmented_packages_, m)
           a == Cardinality(Arrived(m))
<1>1. c \in Nat /\ n \in Nat /\ h \in Nat /\ a \in Nat /\ a <= n /\ n >= 1 /\ duplicates \in Nat
  BY CountsAreNat, LinkTypes
<1>2. c * n + h <= a + duplicates
  BY DEF Balance
<1> HIDE DEF c, n, h, a
<1>3. c * n \in Nat
  BY <1>1, OneCopyMore
<1>4. c * n <= duplicates + n
  BY <1>1, <1>2, <1>3
<1>5. CASE c >= 1
  <2>1. c - 1 \in Nat /\ (c - 1) + 1 = c
    BY <1>1, <1>5
  <2>2. c * n = (c - 1) * n + n /\ (c - 1) * n \in Nat
    BY <1>1, <2>1, OneCopyMore
  <2>3. (c - 1) * n <= duplicates
    BY <1>1, <1>4, <2>2
  <2>4. QED BY <1>1, <1>4, <2>3 DEF c, n
<1>6. QED BY <1>1, <1>4, <1>5 DEF c, n

(* All copies but one of a message are paid for with duplicates.           *)
CopiesArePaid ==
  \A m \in Messages : Copies(m) * DatagramCount(m) <= duplicates + DatagramCount(m)

(* What the balance says of the copies of a message.                       *)
LEMMA CopiesArePaidFor == LinkInv /\ Balance => CopiesArePaid
BY BalanceOfCopies DEF CopiesArePaid

(* Extra copies of a message come only from duplicates of all its          *)
(* datagrams.                                                              *)
THEOREM CopiesCostDuplicates ==
  ASSUME IdsAreUnique, DistinctContents
  PROVE  LinkSpec => []CopiesNeedDuplicates
<1>1. LinkInv /\ Balance => CopiesNeedDuplicates
  BY BalanceOfCopies DEF CopiesNeedDuplicates
<1>2. QED BY <1>1, BalanceHolds, PTL

-----------------------------------------------------------------------------
(* The link implements the channel: a call that succeeds sends, and a      *)
(* datagram that completes a message delivers it.                          *)

(* A quotient bounds what can be multiplied.                               *)
LEMMA QuotientBound ==
  ASSUME NEW c \in Nat, NEW n \in Nat, n >= 1, NEW max \in Nat, c * n <= max
  PROVE  c < 1 + max \div n
<1> DEFINE q == max \div n
<1>1. q \in Nat /\ max < q * n + n
  OBVIOUS
<1> HIDE DEF q
<1>2. (q + 1) * n = q * n + n /\ q * n \in Nat /\ c * n \in Nat
  BY <1>1, OneCopyMore
<1>3. ASSUME c >= q + 1 PROVE FALSE
  <2>1. PICK r \in Nat : c = (q + 1) + r
    <3>1. c - (q + 1) \in Nat /\ c = (q + 1) + (c - (q + 1))
      BY <1>1, <1>3
    <3>2. QED BY <3>1
  <2>2. c * n = (q + 1) * n + r * n /\ r * n \in Nat
    BY <1>1, <2>1
  <2>3. QED BY <1>1, <1>2, <2>2
<1>4. QED BY <1>1, <1>3 DEF q

(* Handling a datagram of message m delivers m, or nothing.                *)
LEMMA HandOverDelivers ==
  ASSUME LinkInv, LinkInv', Balance, Balance', DistinctContents,
         NEW m \in Messages, NEW k \in 1 .. handed[m],
         HandOver(SenderOf[m], DatagramOf(m, k))
  PROVE  UNCHANGED << Sent, delivered >> \/ Channel!Deliver(m)
<1>1. /\ handle_datagram(SenderOf[m], DatagramOf(m, k))
      /\ delivered' = IF returned'.message = NoMessage
                      THEN delivered
                      ELSE Append(delivered, [from |-> SenderOf[m], message |-> returned'.message])
      /\ status' = status
  BY DEF HandOver, senderVars
<1>2. GoodOutcome(m)
  BY <1>1, DatagramOutcome
<1>3. Sent' = Sent
  BY <1>1 DEF Sent
<1>4. CASE returned'.message = NoMessage
  BY <1>1, <1>3, <1>4
<1>5. CASE returned'.message # NoMessage
  <2>1. /\ delivered' = Append(delivered, [from |-> SenderOf[m], message |-> Chunks[m]])
        /\ m \in Sent
    BY <1>1, <1>2, <1>5 DEF GoodOutcome, Sent
  <2>2. Copies(m)' = Copies(m) + 1
    BY <2>1, DeliveryCounts
  <2>3. /\ Copies(m) \in Nat /\ DatagramCount(m) \in Nat /\ DatagramCount(m) >= 1
    BY BalanceOfCopies
  <2>4. Copies(m)' * DatagramCount(m) <= duplicates' + DatagramCount(m)
    <3>1. CopiesArePaid'
      BY CopiesArePaidFor, PTL
    <3>2. QED BY <3>1 DEF CopiesArePaid, DatagramCount, IsFragmented
  <2>5. Copies(m) * DatagramCount(m) <= MaxDuplicates
    <3>1. (Copies(m) + 1) * DatagramCount(m) = Copies(m) * DatagramCount(m) + DatagramCount(m)
          /\ Copies(m) * DatagramCount(m) \in Nat
      BY <2>3, OneCopyMore
    <3>2. duplicates' \in Nat /\ duplicates' <= MaxDuplicates /\ MaxDuplicates \in Nat
      <4>1. (duplicates \in Nat)'
        BY LinkTypes, PTL
      <4>2. QED BY <4>1, BoundsAssumption DEF Balance
    <3>3. Copies(m)' * DatagramCount(m) = Copies(m) * DatagramCount(m) + DatagramCount(m)
      BY <2>2, <3>1, Zenon
    <3>4. QED BY <2>3, <2>4, <3>1, <3>2, <3>3
  <2>6. Copies(m) < 1 + MaxDuplicates \div DatagramCount(m)
    BY <2>3, <2>5, BoundsAssumption, QuotientBound
  <2>7. Channel!Copies(m) = Copies(m)
    BY Zenon DEF Channel!Copies, Copies, Channel!Cardinality, Cardinality
  <2>8. [n \in Messages |-> 1 + MaxDuplicates \div DatagramCount(n)][m]
           = 1 + MaxDuplicates \div DatagramCount(m)
    BY Zenon
  <2>9. delivered' = Append(delivered, Content[m])
    BY <2>1 DEF Content
  <2>10. QED BY <1>3, <2>1, <2>6, <2>7, <2>8, <2>9, Zenon DEF Channel!Deliver
<1>6. QED BY <1>4, <1>5

(* Each step of the link is a step of the channel, or none.                *)
LEMMA LinkStepIsChannelStep ==
  ASSUME IdsAreUnique, DistinctContents
  PROVE  /\ LinkInv /\ LinkInv' /\ Balance /\ Balance' /\ [LinkNext]_linkVars
         => [Channel!ChannelNext]_<< Sent, delivered >>
<1> SUFFICES ASSUME LinkInv, LinkInv', Balance, Balance', [LinkNext]_linkVars
             PROVE  UNCHANGED << Sent, delivered >> \/ Channel!ChannelNext
  OBVIOUS
<1>1. status \in [Messages -> {"new", "sending", "sent", "failed"}]
  BY LinkTypes
<1>2. ASSUME NEW m \in Messages, StartSending(m) \/ SendFails(m)
      PROVE  UNCHANGED << Sent, delivered >>
  <2>1. /\ delivered' = delivered /\ status[m] # "sent"
        /\ \E s \in {"sending", "failed"} : status' = [status EXCEPT ![m] = s]
    BY <1>2 DEF StartSending, SendFails
  <2>2. Sent' = Sent
    BY <1>1, <2>1 DEF Sent
  <2>3. QED BY <2>1, <2>2
<1>3. ASSUME NEW m \in Messages, SendDatagram(m)
      PROVE  UNCHANGED << Sent, delivered >> \/ Channel!Send(m)
  <2>1. /\ delivered' = delivered /\ status[m] = "sending"
        /\ status' = [status EXCEPT ![m] = IF handed[m] + 1 = DatagramCount(m)
                                           THEN "sent" ELSE status[m]]
    BY <1>3 DEF SendDatagram
  <2>2. CASE handed[m] + 1 = DatagramCount(m)
    <3>1. m \notin Sent /\ Sent' = Sent \cup {m}
      BY <1>1, <2>1, <2>2 DEF Sent
    <3>2. QED BY <2>1, <3>1 DEF Channel!Send
  <2>3. CASE handed[m] + 1 # DatagramCount(m)
    <3>1. Sent' = Sent
      BY <1>1, <2>1, <2>3 DEF Sent
    <3>2. QED BY <2>1, <3>1
  <2>4. QED BY <2>2, <2>3
<1>4. ASSUME NEW packet \in in_flight,
             Receive(packet[1], packet[2]) \/ ReceiveCopy(packet[1], packet[2])
      PROVE  UNCHANGED << Sent, delivered >> \/ Channel!Deliver(packet[1])
  <2>1. packet[1] \in Messages /\ packet[2] \in 1 .. handed[packet[1]]
    BY DEF LinkInv, InFlightIsSent
  <2>2. HandOver(SenderOf[packet[1]], DatagramOf(packet[1], packet[2]))
    BY <1>4 DEF Receive, ReceiveCopy
  <2>3. QED BY <2>1, <2>2, HandOverDelivers
<1>5. ASSUME status' = status, delivered' = delivered
      PROVE  UNCHANGED << Sent, delivered >>
  BY <1>5 DEF Sent
<1>6. ASSUME NEW packet \in in_flight, Lose(packet[1], packet[2])
      PROVE  UNCHANGED << Sent, delivered >>
  BY <1>5, <1>6 DEF Lose, senderVars
<1>7. ASSUME NEW endpoint \in Endpoints, NEW d \in Datagrams, ReceiveAlien(endpoint, d)
      PROVE  UNCHANGED << Sent, delivered >>
  BY <1>5, <1>7, AlienIsDropped
<1>8. CASE ReceiverStep
  BY <1>5, <1>8 DEF ReceiverStep, senderVars
<1>9. CASE UNCHANGED linkVars
  BY <1>5, <1>9 DEF linkVars, senderVars
<1>10. ASSUME NEW m \in Messages, Channel!Send(m) \/ Channel!Deliver(m)
       PROVE  Channel!ChannelNext
  BY <1>10 DEF Channel!ChannelNext
<1>11. \A packet \in in_flight : packet[1] \in Messages
  BY DEF LinkInv, InFlightIsSent
<1>12. QED BY <1>2, <1>3, <1>4, <1>6, <1>7, <1>8, <1>9, <1>10, <1>11 DEF LinkNext

(* The link implements the channel: messages are delivered whole, only     *)
(* after all of them has been sent, and no more often than the network's   *)
(* duplicates allow (Socket and Reassembly_v5, between two users).         *)
THEOREM LinkImplementsChannel ==
  ASSUME IdsAreUnique, DistinctContents
  PROVE  LinkSpec => ImplementsChannel
<1>1. LinkInit => Channel!ChannelInit
  BY DEF LinkInit, Channel!ChannelInit, Sent
<1>2. LinkInv /\ LinkInv' /\ Balance /\ Balance' /\ [LinkNext]_linkVars
         => [Channel!ChannelNext]_<< Sent, delivered >>
  BY LinkStepIsChannelStep
<1>3. QED BY <1>1, <1>2, BalanceHolds, PTL DEF LinkSpec, ImplementsChannel, Channel!ChannelSpec

=============================================================================
