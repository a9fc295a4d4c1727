--------------------------- MODULE Socket_proofs ---------------------------
(***************************************************************************)
(* Proofs about the class v5::Reassembly and about Socket around it, for   *)
(* every set of endpoints, ids and datagrams, every width of the header's  *)
(* fields and every age and time: their types, what the counter of         *)
(* received fragments says about the vectors, that rejected packages do    *)
(* not pile up, and that what has expired stays dead.                      *)
(***************************************************************************)
EXTENDS Socket, FiniteSetTheorems, TLAPS

Slot == View \cup {NoFragment}

Gaps(fragments) == DOMAIN fragments \ Filled(fragments)

(* The counter is exact before the info and an upper bound after it.  That *)
(* it cannot wrap around is the second but last conjunct: counted          *)
(* fragments and slots still to be filled fit into a uint32_t together.    *)
PackageInv(package) ==
  /\ package \in Package
  /\ Len(package.fragments) <= UINT32_MAX
  /\ package.received_fragments_ >= Cardinality(Filled(package.fragments))
  /\ ~ package.fragment_info_received_ =>
        package.received_fragments_ = Cardinality(Filled(package.fragments))
  /\ package.received_fragments_ + Cardinality(Gaps(package.fragments)) <= UINT32_MAX
  /\ package.fragment_info_received_ => Len(package.fragments) = package.total_fragments_

PackagesInv(pkgs) ==
  /\ DOMAIN pkgs \subseteq Endpoints \X Ids
  /\ pkgs = [key \in DOMAIN pkgs |-> pkgs[key]]
  /\ \A key \in DOMAIN pkgs : PackageInv(pkgs[key])

(* No package of the map is complete.                                      *)
Settled(pkgs) == \A key \in DOMAIN pkgs : ~ IsComplete(pkgs[key])

(* Some package counts more fragments than it holds.                       *)
CutOff(pkgs) ==
  \E key \in DOMAIN pkgs :
     /\ pkgs[key].fragment_info_received_
     /\ pkgs[key].received_fragments_ > Cardinality(Filled(pkgs[key].fragments))

ReturnedOK == returned \in [error : ErrorCode, message : Seq(View) \cup {NoMessage}]

StateInv == /\ PackagesInv(fragmented_packages_)
            /\ alive \in BOOLEAN
            /\ ReturnedOK
            /\ alive => Settled(fragmented_packages_)
            /\ ~ alive => CutOff(fragmented_packages_)

(* What the handlers assume of a datagram; a non-fragmented one has no id. *)
DatagramOK(d) ==
  /\ d.size \in Nat
  /\ d.num \in UInt32
  /\ d.len \in UInt32
  /\ d.payload \in Payloads
  /\ d.type \in { datagram_type_fragmented_message_info, datagram_type_fragment } => d.id \in Ids

-----------------------------------------------------------------------------
(* Arithmetic and vectors.                                                 *)

(* Incrementing a uint32_t gives a uint32_t, and does not wrap below the   *)
(* largest one.                                                            *)
LEMMA IncrementIsUInt32 ==
  ASSUME NEW n \in UInt32
  PROVE  /\ Inc32(n) \in UInt32
         /\ n < UINT32_MAX => Inc32(n) = n + 1
         /\ n = UINT32_MAX => Inc32(n) = 0
<1>1. CASE n < UINT32_MAX
  <2>1. n + 1 \in 0 .. UINT32_MAX /\ UINT32_MAX + 1 \in Nat \ {0}
    BY <1>1, UInt32Assumption DEF UInt32
  <2>2. (n + 1) % (UINT32_MAX + 1) = n + 1
    BY <2>1, UInt32Assumption
  <2>3. QED BY <1>1, <2>1, <2>2 DEF Inc32, UInt32
<1>2. CASE n = UINT32_MAX
  <2>1. (n + 1) % (UINT32_MAX + 1) = 0
    BY <1>2, UInt32Assumption
  <2>2. QED BY <1>2, <2>1, UInt32Assumption DEF Inc32, UInt32
<1>3. QED BY <1>1, <1>2, UInt32Assumption DEF UInt32

(* The filled slots and the gaps of a vector are finite sets that make up  *)
(* its slots.                                                              *)
LEMMA SlotCounts ==
  ASSUME NEW fragments \in Seq(Slot)
  PROVE  /\ DOMAIN fragments = 1 .. Len(fragments)
         /\ IsFiniteSet(Filled(fragments))
         /\ IsFiniteSet(Gaps(fragments))
         /\ Cardinality(Filled(fragments)) \in Nat
         /\ Cardinality(Gaps(fragments)) \in Nat
         /\ Cardinality(Filled(fragments)) + Cardinality(Gaps(fragments)) = Len(fragments)
<1>1. Len(fragments) \in Nat /\ DOMAIN fragments = 1 .. Len(fragments)
  OBVIOUS
<1>2. IsFiniteSet(1 .. Len(fragments)) /\ Cardinality(1 .. Len(fragments)) = Len(fragments)
  BY <1>1, FS_Interval
<1>3. Filled(fragments) \subseteq 1 .. Len(fragments)
  BY <1>1 DEF Filled
<1>4. IsFiniteSet(Filled(fragments)) /\ Cardinality(Filled(fragments)) \in Nat
  BY <1>2, <1>3, FS_Subset, FS_CardinalityType
<1>5. Gaps(fragments) = (1 .. Len(fragments)) \ Filled(fragments)
  BY <1>1 DEF Gaps
<1>6. /\ IsFiniteSet(Gaps(fragments))
      /\ Cardinality(Gaps(fragments)) =
           Len(fragments) - Cardinality((1 .. Len(fragments)) \cap Filled(fragments))
  BY <1>2, <1>5, FS_Difference
<1>7. Cardinality((1 .. Len(fragments)) \cap Filled(fragments)) = Cardinality(Filled(fragments))
  <2>1. (1 .. Len(fragments)) \cap Filled(fragments) = Filled(fragments)
    BY <1>3
  <2>2. QED BY <2>1
<1>8. Cardinality(Gaps(fragments)) \in Nat
  BY <1>6, FS_CardinalityType
<1>9. QED BY <1>1, <1>4, <1>6, <1>7, <1>8

(* std::vector::resize keeps what is in the slots that stay.               *)
LEMMA ResizeKeeps ==
  ASSUME NEW fragments \in Seq(Slot), NEW n \in Nat
  PROVE  /\ Resize(fragments, n) \in Seq(Slot)
         /\ Len(Resize(fragments, n)) = n
         /\ Filled(Resize(fragments, n)) = {i \in Filled(fragments) : i <= n}
<1> DEFINE resized == Resize(fragments, n)
<1>1. Len(fragments) \in Nat /\ DOMAIN fragments = 1 .. Len(fragments)
  OBVIOUS
<1>2. \A i \in 1 .. n : i <= Len(fragments) => i \in 1 .. Len(fragments) /\ fragments[i] \in Slot
  BY <1>1
<1>3. resized \in [1 .. n -> Slot]
  BY <1>2 DEF Resize, Slot
<1>4. resized \in Seq(Slot) /\ Len(resized) = n
  BY <1>3
<1>5. Filled(resized) = {i \in Filled(fragments) : i <= n}
  BY <1>1 DEF Filled, Resize
<1>6. QED BY <1>4, <1>5

-----------------------------------------------------------------------------
(* What the handlers do to one package.                                    *)

(* A package that has just been emplaced satisfies the invariant.          *)
LEMMA NewPackageInv == PackageInv(NewPackage)
<1>1. NewPackage.fragments = << >> /\ NewPackage.fragments \in Seq(Slot)
  BY DEF NewPackage
<1>2. Filled(NewPackage.fragments) = {} /\ Gaps(NewPackage.fragments) = {}
  BY <1>1 DEF Filled, Gaps
<1>3. NewPackage \in Package
  BY UInt32Assumption, <1>1 DEF NewPackage, Package, UInt32, Slot
<1>4. Cardinality(Filled(NewPackage.fragments)) = 0 /\ Cardinality(Gaps(NewPackage.fragments)) = 0
  BY <1>2, FS_EmptySet
<1>5. QED BY <1>1, <1>3, <1>4, UInt32Assumption DEF PackageInv, NewPackage

(* find or emplace returns such a package.                                 *)
LEMMA PackageOfInv ==
  ASSUME NEW pkgs, PackagesInv(pkgs), NEW key
  PROVE  PackageInv(PackageOf(pkgs, key))
BY NewPackageInv DEF PackageOf, PackagesInv

(* Growing the vector for a fragment neither counts nor loses one.         *)
LEMMA WithRoomForInv ==
  ASSUME NEW package, PackageInv(package), NEW num \in UInt32
  PROVE  PackageInv(WithRoomFor(package, num))
<1> DEFINE n == Inc32(num)
<1>1. CASE package.fragment_info_received_ \/ n <= Len(package.fragments)
  BY <1>1 DEF WithRoomFor
<1>2. CASE ~ (package.fragment_info_received_ \/ n <= Len(package.fragments))
  <2> DEFINE old == package.fragments
             new == Resize(old, n)
             grown == [package EXCEPT !.fragments = new]
  <2>1. WithRoomFor(package, num) = grown
    BY <1>2 DEF WithRoomFor
  <2>2. old \in Seq(Slot) /\ package \in Package
    BY DEF PackageInv, Package, Slot
  <2>3. n \in UInt32 /\ n \in Nat /\ n <= UINT32_MAX
    BY IncrementIsUInt32, UInt32Assumption DEF UInt32
  <2>4. new \in Seq(Slot) /\ Len(new) = n /\ Filled(new) = {i \in Filled(old) : i <= n}
    BY <2>2, <2>3, ResizeKeeps
  <2>5. \A i \in Filled(old) : i <= n
    BY <1>2, <2>2, <2>3 DEF Filled
  <2>6. Filled(new) = Filled(old)
    BY <2>4, <2>5
  <2>7. Cardinality(Filled(new)) + Cardinality(Gaps(new)) = n /\ Cardinality(Gaps(new)) \in Nat
    BY <2>4, SlotCounts
  <2>8. grown \in Package
    BY <2>2, <2>4 DEF Package, Slot
  <2>9. package.received_fragments_ = Cardinality(Filled(new))
    BY <1>2, <2>6 DEF PackageInv
  <2>10. /\ grown.fragments = new
         /\ grown.received_fragments_ = package.received_fragments_
         /\ ~ grown.fragment_info_received_
         /\ package.received_fragments_ \in Nat
    BY <1>2, <2>2, UInt32Assumption DEF Package, UInt32
  <2> HIDE DEF grown, new, n
  <2>11. Len(grown.fragments) <= UINT32_MAX
    BY <2>3, <2>4, <2>10
  <2>12. grown.received_fragments_ = Cardinality(Filled(grown.fragments))
    BY <2>9, <2>10
  <2>13. grown.received_fragments_ >= Cardinality(Filled(grown.fragments))
    BY <2>10, <2>12
  <2>14. grown.received_fragments_ + Cardinality(Gaps(grown.fragments)) <= UINT32_MAX
    BY <2>3, <2>7, <2>9, <2>10
  <2>15. PackageInv(grown)
    BY ONLY <2>8, <2>10, <2>11, <2>12, <2>13, <2>14, Zenon DEF PackageInv
  <2>16. QED BY <2>1, <2>15
<1>3. QED BY <1>1, <1>2

(* Taking the info in: the vector gets the announced length, and what it   *)
(* loses in filled slots stays counted.                                    *)
LEMMA WithInfoInv ==
  ASSUME NEW package, PackageInv(package), ~ package.fragment_info_received_,
         NEW d, DatagramOK(d), now \in Nat
  PROVE  /\ PackageInv(WithInfo(package, d))
         /\ WithInfo(package, d).fragment_info_received_
<1> DEFINE old == package.fragments
           n == d.num
           new == Resize(old, n)
           informed == WithInfo(package, d)
<1>1. old \in Seq(Slot) /\ package \in Package /\ Len(old) \in Nat
  BY DEF PackageInv, Package, Slot
<1>2. n \in UInt32 /\ n \in Nat /\ n <= UINT32_MAX /\ d.len \in UInt32
  BY UInt32Assumption DEF DatagramOK, UInt32
<1>3. new \in Seq(Slot) /\ Len(new) = n /\ Filled(new) = {i \in Filled(old) : i <= n}
  BY <1>1, <1>2, ResizeKeeps
<1>4. /\ DOMAIN old = 1 .. Len(old)
      /\ IsFiniteSet(Filled(old))
      /\ IsFiniteSet(Gaps(old))
      /\ Cardinality(Filled(old)) \in Nat
      /\ Cardinality(Gaps(old)) \in Nat
      /\ Cardinality(Filled(old)) + Cardinality(Gaps(old)) = Len(old)
  BY <1>1, SlotCounts
<1>5. /\ DOMAIN new = 1 .. n
      /\ Cardinality(Filled(new)) \in Nat
      /\ Cardinality(Gaps(new)) \in Nat
      /\ Cardinality(Filled(new)) + Cardinality(Gaps(new)) = n
  BY <1>3, SlotCounts
<1>6. package.received_fragments_ = Cardinality(Filled(old))
  BY DEF PackageInv
<1>7. package.received_fragments_ + Cardinality(Gaps(old)) <= UINT32_MAX
  BY DEF PackageInv
<1>8. Cardinality(Filled(new)) <= Cardinality(Filled(old))
  <2>1. Filled(new) \in SUBSET Filled(old)
    BY <1>3
  <2>2. QED BY <2>1, <1>4, FS_Subset
<1>9. package.received_fragments_ + Cardinality(Gaps(new)) <= UINT32_MAX
  <2>1. CASE n >= Len(old)
    <3>1. Filled(new) = Filled(old)
      <4>1. \A i \in Filled(old) : i <= n
        BY <1>1, <1>2, <1>4, <2>1 DEF Filled
      <4>2. QED BY <1>3, <4>1
    <3>2. QED BY <1>2, <1>5, <1>6, <3>1
  <2>2. CASE n < Len(old)
    <3>1. Gaps(new) \in SUBSET Gaps(old)
      BY <1>1, <1>2, <1>3, <1>4, <1>5, <2>2 DEF Gaps
    <3>2. Cardinality(Gaps(new)) <= Cardinality(Gaps(old))
      BY <1>4, <3>1, FS_Subset
    <3>3. QED BY <1>2, <1>4, <1>5, <1>6, <1>7, <3>2, UInt32Assumption
  <2>3. QED BY <1>1, <1>2, <2>1, <2>2
<1>10. /\ informed \in Package
       /\ informed.fragments = new
       /\ informed.received_fragments_ = package.received_fragments_
       /\ informed.fragment_info_received_
       /\ informed.total_fragments_ = n
  <2>1. informed \in Package
    BY <1>1, <1>2, <1>3 DEF WithInfo, Package, Slot
  <2>2. informed.fragment_info_received_
    BY <1>1 DEF WithInfo, Package
  <2>3. QED BY <1>1, <2>1, <2>2 DEF WithInfo, Package
<1> HIDE DEF informed, new, n, old
<1>11. Len(informed.fragments) <= UINT32_MAX
  BY <1>2, <1>3, <1>10
<1>12. informed.received_fragments_ >= Cardinality(Filled(informed.fragments))
  BY <1>4, <1>5, <1>6, <1>8, <1>10
<1>13. informed.received_fragments_ + Cardinality(Gaps(informed.fragments)) <= UINT32_MAX
  BY <1>9, <1>10
<1>14. Len(informed.fragments) = informed.total_fragments_
  BY <1>3, <1>10
<1>15. PackageInv(informed)
  BY ONLY <1>10, <1>11, <1>12, <1>13, <1>14, Zenon DEF PackageInv
<1>16. QED BY <1>10, <1>15, Zenon DEF informed

(* Storing a fragment in a gap fills one slot and counts one fragment.     *)
LEMMA WithFragmentInv ==
  ASSUME NEW package, PackageInv(package),
         NEW d, DatagramOK(d), now \in Nat,
         d.num < Len(package.fragments), package.fragments[d.num + 1] = NoFragment
  PROVE  PackageInv(WithFragment(package, d))
<1> DEFINE old == package.fragments
           slot == d.num + 1
           view == [data |-> d.payload, size |-> d.len]
           new == [old EXCEPT ![slot] = view]
           filled == WithFragment(package, d)
<1>1. old \in Seq(Slot) /\ package \in Package /\ Len(old) \in Nat
  BY DEF PackageInv, Package, Slot
<1>2. /\ DOMAIN old = 1 .. Len(old)
      /\ IsFiniteSet(Filled(old))
      /\ IsFiniteSet(Gaps(old))
      /\ Cardinality(Filled(old)) \in Nat
      /\ Cardinality(Gaps(old)) \in Nat
  BY <1>1, SlotCounts
<1>3. slot \in 1 .. Len(old)
  BY <1>1, UInt32Assumption DEF DatagramOK, UInt32
<1>4. view \in View
  BY DEF DatagramOK, View
<1>5. new \in Seq(Slot) /\ Len(new) = Len(old) /\ DOMAIN new = 1 .. Len(old)
  BY <1>1, <1>3, <1>4 DEF Slot
<1>6. slot \notin Filled(old) /\ slot \in Gaps(old)
  BY <1>2, <1>3 DEF Filled, Gaps
<1>7. Filled(new) = Filled(old) \cup {slot}
  BY <1>1, <1>2, <1>3, <1>4, <1>5, NullAssumption DEF Filled
<1>8. Gaps(new) = Gaps(old) \ {slot}
  BY <1>2, <1>5, <1>7 DEF Gaps
<1>9. Cardinality(Filled(new)) = Cardinality(Filled(old)) + 1
  BY <1>2, <1>6, <1>7, FS_AddElement
<1>10. Cardinality(Gaps(new)) = Cardinality(Gaps(old)) - 1
  BY <1>2, <1>6, <1>8, FS_RemoveElement
<1>11. Cardinality(Gaps(new)) \in Nat
  BY <1>5, SlotCounts
<1>12. /\ package.received_fragments_ \in UInt32
       /\ package.received_fragments_ \in Nat
       /\ package.received_fragments_ >= Cardinality(Filled(old))
       /\ package.received_fragments_ + Cardinality(Gaps(old)) <= UINT32_MAX
       /\ Len(old) <= UINT32_MAX
  BY UInt32Assumption DEF PackageInv, Package, UInt32
<1>13. package.received_fragments_ < UINT32_MAX
  BY <1>2, <1>10, <1>11, <1>12, UInt32Assumption
<1>14. /\ Inc32(package.received_fragments_) = package.received_fragments_ + 1
       /\ Inc32(package.received_fragments_) \in UInt32
  BY <1>12, <1>13, IncrementIsUInt32
<1>15. filled \in Package
  BY <1>1, <1>5, <1>14 DEF WithFragment, Package, Slot
<1>16. /\ filled.fragments = new
       /\ filled.received_fragments_ = package.received_fragments_ + 1
       /\ filled.total_fragments_ = package.total_fragments_
  BY <1>1, <1>14 DEF WithFragment, Package
<1>17. filled.fragment_info_received_ = package.fragment_info_received_
  BY <1>1 DEF WithFragment, Package
<1> HIDE DEF filled, new, view, slot
<1>18. Len(filled.fragments) <= UINT32_MAX
  BY <1>5, <1>12, <1>16
<1>19. filled.received_fragments_ >= Cardinality(Filled(filled.fragments))
  BY <1>2, <1>9, <1>12, <1>16
<1>20. filled.received_fragments_ + Cardinality(Gaps(filled.fragments)) <= UINT32_MAX
  BY <1>2, <1>10, <1>12, <1>16, UInt32Assumption
<1>21. package.received_fragments_ = Cardinality(Filled(old)) =>
          filled.received_fragments_ = Cardinality(Filled(filled.fragments))
  BY <1>9, <1>16
<1>22. Len(old) = package.total_fragments_ => Len(filled.fragments) = filled.total_fragments_
  BY <1>5, <1>16
<1>23. PackageInv(filled)
  BY <1>15, <1>17, <1>18, <1>19, <1>20, <1>21, <1>22, Zenon DEF PackageInv
<1>24. QED BY <1>23 DEF filled

-----------------------------------------------------------------------------
(* What the handlers do to the map.                                        *)

(* Storing such a package, erasing one and removing the old ones keep the  *)
(* map's invariant.                                                        *)
LEMMA StoreInv ==
  ASSUME NEW pkgs, PackagesInv(pkgs), NEW key \in Endpoints \X Ids,
         NEW package, PackageInv(package)
  PROVE  PackagesInv(Store(pkgs, key, package))
BY Zenon DEF PackagesInv, Store

(* Dropping packages keeps the invariant of the others.                    *)
LEMMA RestrictInv ==
  ASSUME NEW pkgs, PackagesInv(pkgs), NEW S \in SUBSET DOMAIN pkgs
  PROVE  /\ PackagesInv(Restrict(pkgs, S))
         /\ Settled(pkgs) => Settled(Restrict(pkgs, S))
BY Zenon DEF PackagesInv, Restrict, Settled

(* Storing a package that is not complete leaves none that is.             *)
LEMMA StoreSettled ==
  ASSUME NEW pkgs, Settled(pkgs), NEW key, NEW package, ~ IsComplete(package)
  PROVE  Settled(Store(pkgs, key, package))
BY Zenon DEF Settled, Store

(* A vector of slots without a hole is a message.                          *)
LEMMA NoHoleIsMessage ==
  ASSUME NEW package, PackageInv(package), ~ HasHole(package)
  PROVE  package.fragments \in Seq(View)
<1>1. package.fragments \in Seq(Slot)
  BY DEF PackageInv, Package, Slot
<1>2. \A i \in DOMAIN package.fragments : package.fragments[i] # NoFragment
  BY DEF HasHole, Filled
<1>3. QED BY <1>1, <1>2 DEF Slot

(* A complete package with a hole counts more fragments than it holds: its *)
(* vector has the announced length, and its count has reached that.        *)
LEMMA HoleIsCutOff ==
  ASSUME NEW package, PackageInv(package), IsComplete(package), HasHole(package)
  PROVE  /\ package.fragment_info_received_
         /\ package.received_fragments_ > Cardinality(Filled(package.fragments))
<1>1. package.fragments \in Seq(Slot)
  BY DEF PackageInv, Package, Slot
<1>2. /\ Cardinality(Filled(package.fragments)) \in Nat
      /\ Cardinality(Gaps(package.fragments)) \in Nat
      /\ IsFiniteSet(Gaps(package.fragments))
      /\ Cardinality(Filled(package.fragments)) + Cardinality(Gaps(package.fragments)) =
           Len(package.fragments)
  BY <1>1, SlotCounts
<1>3. Gaps(package.fragments) # {}
  BY DEF HasHole, Gaps, Filled
<1>4. Cardinality(Gaps(package.fragments)) # 0
  BY <1>2, <1>3, FS_EmptySet
<1>5. /\ package.fragment_info_received_
      /\ package.received_fragments_ = Len(package.fragments)
  BY Zenon DEF PackageInv, IsComplete
<1>6. package.received_fragments_ > Cardinality(Filled(package.fragments))
  BY <1>2, <1>4, <1>5
<1>7. QED BY <1>5, <1>6

(* The common end of both handlers of fragmented messages.                 *)
LEMMA CompletionInv ==
  ASSUME NEW pkgs, PackagesInv(pkgs), Settled(pkgs), alive,
         NEW key \in Endpoints \X Ids, NEW package, PackageInv(package),
         handle_fragmented_package_if_complete(pkgs, key, package)
  PROVE  StateInv'
<1> DEFINE stored == Store(pkgs, key, package)
           erased == Erase(pkgs, key)
<1>1. PackagesInv(stored) /\ key \in DOMAIN stored /\ stored[key] = package
  <2>1. PackagesInv(stored)
    BY StoreInv
  <2>2. stored[key] = package /\ key \in DOMAIN stored
    BY DEF Store
  <2>3. QED BY <2>1, <2>2
<1>2. PackagesInv(erased) /\ Settled(erased)
  BY RestrictInv DEF Erase
<1>3. CASE /\ ~ IsComplete(package)
           /\ fragmented_packages_' = stored
           /\ Return("OK", NoMessage)
  <2>1. Settled(stored)
    BY <1>3, StoreSettled
  <2>2. ReturnedOK'
    BY <1>3 DEF Return, ReturnedOK, ErrorCode
  <2>3. QED BY <1>1, <1>3, <2>1, <2>2, Zenon DEF StateInv, Return
<1>4. CASE /\ IsComplete(package)
           /\ HasHole(package)
           /\ fragmented_packages_' = stored
           /\ alive' = FALSE
           /\ returned' = [error |-> "GENERIC_ERROR", message |-> NoMessage]
  <2>1. CutOff(stored)
    BY <1>1, <1>4, HoleIsCutOff, Zenon DEF CutOff
  <2>2. ReturnedOK'
    BY <1>4 DEF ReturnedOK, ErrorCode
  <2>3. QED BY <1>1, <1>4, <2>1, <2>2, Zenon DEF StateInv
<1>5. CASE /\ fragmented_packages_' = erased
           /\ Return("MALFORMED_REASSEMBLED_MESSAGE", NoMessage)
  <2>1. ReturnedOK'
    BY <1>5 DEF Return, ReturnedOK, ErrorCode
  <2>2. QED BY <1>2, <1>5, <2>1, Zenon DEF StateInv, Return
<1>6. CASE /\ ~ HasHole(package)
           /\ fragmented_packages_' = erased
           /\ Return("OK", package.fragments)
  <2>1. package.fragments \in Seq(View)
    BY <1>6, NoHoleIsMessage
  <2>2. ReturnedOK'
    BY <1>6, <2>1 DEF Return, ReturnedOK, ErrorCode
  <2>3. QED BY <1>2, <1>6, <2>2, Zenon DEF StateInv, Return
<1>7. QED BY <1>3, <1>4, <1>5, <1>6 DEF handle_fragmented_package_if_complete

(* Neither find or emplace nor growing the vector completes a package.     *)
LEMMA NotYetComplete ==
  ASSUME NEW pkgs, PackagesInv(pkgs), Settled(pkgs), NEW key, NEW num \in UInt32
  PROVE  /\ ~ IsComplete(PackageOf(pkgs, key))
         /\ ~ IsComplete(WithRoomFor(PackageOf(pkgs, key), num))
<1> DEFINE package == PackageOf(pkgs, key)
<1>1. package \in Package
  BY PackageOfInv DEF PackageInv
<1>2. ~ IsComplete(package)
  BY Zenon DEF PackageOf, Settled, IsComplete, NewPackage
<1>3. CASE package.fragment_info_received_ \/ Inc32(num) <= Len(package.fragments)
  BY <1>2, <1>3 DEF WithRoomFor
<1>4. CASE ~ (package.fragment_info_received_ \/ Inc32(num) <= Len(package.fragments))
  <2>1. ~ WithRoomFor(package, num).fragment_info_received_
    BY <1>1, <1>4 DEF WithRoomFor, Package
  <2>2. QED BY <1>2, <2>1, Zenon DEF IsComplete
<1>5. QED BY <1>2, <1>3, <1>4

(* Handling a fragment info keeps the invariant.                           *)
LEMMA InfoInv ==
  ASSUME NEW pkgs, PackagesInv(pkgs), Settled(pkgs), alive, now \in Nat,
         NEW endpoint \in Endpoints, NEW d, DatagramOK(d), d.id \in Ids,
         handle_datagram_fragmented_message_info(pkgs, endpoint, d)
  PROVE  StateInv'
<1> DEFINE key == << endpoint, d.id >>
           package == PackageOf(pkgs, key)
<1>1. key \in Endpoints \X Ids /\ PackageInv(package)
  BY PackageOfInv
<1>2. CASE fragmented_packages_' = pkgs /\ Return("DUPLICATE_DATAGRAM", NoMessage)
  <2>1. ReturnedOK'
    BY <1>2 DEF Return, ReturnedOK, ErrorCode
  <2>2. QED BY <1>2, <2>1, Zenon DEF StateInv, Return
<1>3. CASE /\ ~ package.fragment_info_received_
           /\ handle_fragmented_package_if_complete(pkgs, key, WithInfo(package, d))
  <2>1. PackageInv(WithInfo(package, d))
    BY <1>1, <1>3, WithInfoInv
  <2>2. QED BY <1>1, <1>3, <2>1, CompletionInv
<1>4. QED BY <1>2, <1>3 DEF handle_datagram_fragmented_message_info

(* Handling a fragment keeps it.                                           *)
LEMMA FragmentInv ==
  ASSUME NEW pkgs, PackagesInv(pkgs), Settled(pkgs), alive, now \in Nat,
         NEW endpoint \in Endpoints, NEW d, DatagramOK(d), d.id \in Ids,
         handle_datagram_fragment(pkgs, endpoint, d)
  PROVE  StateInv'
<1> DEFINE key == << endpoint, d.id >>
           package == WithRoomFor(PackageOf(pkgs, key), d.num)
<1>1. key \in Endpoints \X Ids /\ d.num \in UInt32
  BY DEF DatagramOK
<1>2. PackageInv(package)
  BY <1>1, PackageOfInv, WithRoomForInv
<1>3. ~ IsComplete(package)
  BY <1>1, NotYetComplete
<1>4. ASSUME NEW error \in ErrorCode, Return(error, NoMessage),
             fragmented_packages_' = Store(pkgs, key, package)
      PROVE  StateInv'
  <2>1. PackagesInv(Store(pkgs, key, package))
    BY <1>1, <1>2, StoreInv
  <2>2. Settled(Store(pkgs, key, package))
    BY <1>3, StoreSettled
  <2>3. ReturnedOK'
    BY <1>4 DEF Return, ReturnedOK
  <2>4. QED BY <1>4, <2>1, <2>2, <2>3, Zenon DEF StateInv, Return
<1>5. CASE /\ d.num < Len(package.fragments)
           /\ package.fragments[d.num + 1] = NoFragment
           /\ handle_fragmented_package_if_complete(pkgs, key, WithFragment(package, d))
  <2>1. PackageInv(WithFragment(package, d))
    BY <1>2, <1>5, WithFragmentInv
  <2>2. QED BY <1>1, <1>5, <2>1, CompletionInv
<1>6. "MALFORMED_DATAGRAM" \in ErrorCode /\ "DUPLICATE_DATAGRAM" \in ErrorCode
  BY DEF ErrorCode
<1>7. QED BY <1>4, <1>5, <1>6 DEF handle_datagram_fragment

(* Handling a message of one datagram keeps it.                            *)
LEMMA NonFragmentedInv ==
  ASSUME NEW pkgs, PackagesInv(pkgs), Settled(pkgs), alive, NEW d, DatagramOK(d),
         handle_datagram_non_fragmented_message(pkgs, d)
  PROVE  StateInv'
<1> DEFINE message == << [data |-> d.payload, size |-> d.len] >>
<1>1. message \in Seq(View)
  BY DEF DatagramOK, View
<1>2. ReturnedOK'
  <2>1. CASE Return("MALFORMED_DATAGRAM", NoMessage)
    BY <2>1 DEF Return, ReturnedOK, ErrorCode
  <2>2. CASE Return("OK", message)
    <3> HIDE DEF message
    <3>1. QED BY <1>1, <2>2 DEF Return, ReturnedOK, ErrorCode
  <2>3. QED BY <2>1, <2>2 DEF handle_datagram_non_fragmented_message
<1>3. fragmented_packages_' = pkgs /\ alive' = alive
  BY DEF handle_datagram_non_fragmented_message, Return
<1>4. QED BY <1>2, <1>3, Zenon DEF StateInv

(* Whatever datagram Reassembly::handle_datagram is given, it keeps the    *)
(* invariant, from any map that satisfies it.                              *)
LEMMA HandleDatagramInv ==
  ASSUME NEW pkgs, PackagesInv(pkgs), Settled(pkgs), alive, now \in Nat,
         NEW endpoint \in Endpoints, NEW d, DatagramOK(d),
         reassembly_handle_datagram(pkgs, endpoint, d)
  PROVE  StateInv'
<1>1. CASE fragmented_packages_' = pkgs /\ Return("MALFORMED_DATAGRAM", NoMessage)
  <2>1. ReturnedOK'
    BY <1>1 DEF Return, ReturnedOK, ErrorCode
  <2>2. QED BY <1>1, <2>1, Zenon DEF StateInv, Return
<1>2. CASE /\ d.type = datagram_type_fragmented_message_info
           /\ handle_datagram_fragmented_message_info(pkgs, endpoint, d)
  BY <1>2, InfoInv DEF DatagramOK
<1>3. CASE d.type = datagram_type_fragment /\ handle_datagram_fragment(pkgs, endpoint, d)
  BY <1>3, FragmentInv DEF DatagramOK
<1>4. CASE handle_datagram_non_fragmented_message(pkgs, d)
  BY <1>4, NonFragmentedInv
<1>5. QED BY <1>1, <1>2, <1>3, <1>4 DEF reassembly_handle_datagram, Handlers

-----------------------------------------------------------------------------
(* What a datagram does to the map.                                        *)

Key(endpoint, d) == << endpoint, d.id >>

(* The end of both handlers stores the package or erases it.               *)
LEMMA CompletionStoresOrErases ==
  ASSUME NEW pkgs, NEW key, NEW package,
         handle_fragmented_package_if_complete(pkgs, key, package)
  PROVE  \/ fragmented_packages_' = Store(pkgs, key, package)
         \/ fragmented_packages_' = Erase(pkgs, key)
BY Zenon DEF handle_fragmented_package_if_complete

(* A message of the handlers' common end is a complete package, erased.    *)
LEMMA CompletionReturns ==
  ASSUME NEW pkgs, NEW key, NEW package,
         handle_fragmented_package_if_complete(pkgs, key, package),
         returned'.message # NoMessage
  PROVE  /\ IsComplete(package) /\ ~ HasHole(package)
         /\ returned'.message = package.fragments
         /\ fragmented_packages_' = Erase(pkgs, key)
BY DEF handle_fragmented_package_if_complete, Return

(* What is stored at the end is the package; an erased one is gone.        *)
LEMMA CompletionStores ==
  ASSUME NEW pkgs, NEW key, NEW package,
         handle_fragmented_package_if_complete(pkgs, key, package),
         key \in DOMAIN fragmented_packages_'
  PROVE  fragmented_packages_'[key] = package
<1>1. key \notin DOMAIN Erase(pkgs, key)
  BY DEF Erase, Restrict
<1>2. Store(pkgs, key, package)[key] = package
  BY DEF Store
<1>3. QED BY <1>1, <1>2, CompletionStoresOrErases, Zenon

(* Every datagram leaves the map alone, or stores or erases one package.   *)
LEMMA OneKeyIsTouched ==
  ASSUME NEW pkgs, NEW endpoint, NEW d, reassembly_handle_datagram(pkgs, endpoint, d)
  PROVE  \/ fragmented_packages_' = pkgs
         \/ fragmented_packages_' = Erase(pkgs, Key(endpoint, d))
         \/ \E package : fragmented_packages_' = Store(pkgs, Key(endpoint, d), package)
<1>1. CASE handle_datagram_fragmented_message_info(pkgs, endpoint, d)
  BY <1>1, CompletionStoresOrErases, Zenon DEF handle_datagram_fragmented_message_info, Key
<1>2. CASE handle_datagram_fragment(pkgs, endpoint, d)
  BY <1>2, CompletionStoresOrErases, Zenon DEF handle_datagram_fragment, Key
<1>3. CASE handle_datagram_non_fragmented_message(pkgs, d)
  BY <1>3, Zenon DEF handle_datagram_non_fragmented_message
<1>4. QED
  BY <1>1, <1>2, <1>3, Zenon DEF reassembly_handle_datagram, Handlers

(* So the packages of all other keys are those there were.                 *)
LEMMA OthersAreLeftAlone ==
  ASSUME NEW pkgs, NEW endpoint, NEW d, reassembly_handle_datagram(pkgs, endpoint, d),
         NEW key \in DOMAIN fragmented_packages_', key # Key(endpoint, d)
  PROVE  key \in DOMAIN pkgs /\ fragmented_packages_'[key] = pkgs[key]
<1>1. CASE fragmented_packages_' = pkgs
  BY <1>1
<1>2. CASE fragmented_packages_' = Erase(pkgs, Key(endpoint, d))
  BY <1>2 DEF Erase, Restrict
<1>3. CASE \E package : fragmented_packages_' = Store(pkgs, Key(endpoint, d), package)
  BY <1>3 DEF Store
<1>4. QED BY <1>1, <1>2, <1>3, OneKeyIsTouched, Zenon

-----------------------------------------------------------------------------
(* The class on its own.                                                   *)

Inv == StateInv /\ now \in Nat

(* The invariant holds at the start.                                       *)
LEMMA InvInit == Init => Inv
<1> SUFFICES ASSUME Init PROVE Inv
  OBVIOUS
<1>1. DOMAIN fragmented_packages_ = {}
  BY DEF Init
<1>2. PackagesInv(fragmented_packages_) /\ Settled(fragmented_packages_)
  BY <1>1 DEF PackagesInv, Settled, Init
<1>3. ReturnedOK
  BY DEF Init, ReturnedOK, ErrorCode
<1>4. now \in Nat /\ alive
  BY TimeAssumption DEF Init
<1>5. QED BY <1>2, <1>3, <1>4, Zenon DEF Inv, StateInv

(* Every step keeps it.                                                    *)
LEMMA InvNext == Inv /\ [Next]_vars => Inv'
<1> SUFFICES ASSUME Inv, [Next]_vars PROVE Inv'
  OBVIOUS
<1>1. PackagesInv(fragmented_packages_) /\ (alive => Settled(fragmented_packages_)) /\ now \in Nat
  BY DEF Inv, StateInv
<1>2. ASSUME NEW endpoint \in Endpoints, NEW d \in Datagrams, HandleDatagram(endpoint, d)
      PROVE  Inv'
  <2>1. DatagramOK(d)
    BY DatagramsAssumption DEF DatagramOK, Header
  <2>2. StateInv'
    BY <1>1, <1>2, <2>1, HandleDatagramInv DEF HandleDatagram
  <2>3. QED BY <1>1, <1>2, <2>2 DEF HandleDatagram, Inv
<1>3. ASSUME NEW max_age \in 0 .. now, remove_old_packages(max_age)
      PROVE  Inv'
  <2>1. PackagesInv(fragmented_packages_') /\ Settled(fragmented_packages_')
    BY <1>1, <1>3, RestrictInv DEF remove_old_packages, WithoutOldPackages
  <2>2. ReturnedOK' /\ alive' /\ now' \in Nat
    BY <1>1, <1>3 DEF Inv, StateInv, ReturnedOK, remove_old_packages
  <2>3. QED BY <2>1, <2>2, Zenon DEF Inv, StateInv
<1>4. CASE Tick
  <2>1. now' \in Nat
    BY <1>1, <1>4 DEF Tick
  <2>2. QED BY <1>4, <2>1 DEF Tick, Inv, StateInv, PackagesInv, Settled, CutOff, ReturnedOK
<1>5. CASE UNCHANGED vars
  BY <1>5 DEF vars, Inv, StateInv, PackagesInv, Settled, CutOff, ReturnedOK
<1>6. QED BY <1>2, <1>3, <1>4, <1>5 DEF Next

(* So it always holds.                                                     *)
LEMMA InvariantHolds == Spec => []Inv
BY InvInit, InvNext, PTL DEF Spec

(* The members of the class have their types, whatever arrives.            *)
THEOREM TypeCorrect == Spec => []TypeOK
<1>1. Inv => TypeOK
  BY DEF Inv, StateInv, PackagesInv, PackageInv, ReturnedOK, TypeOK
<1>2. QED BY <1>1, InvariantHolds, PTL

(* The counter covers the slots: it is exact until the info is there, and  *)
(* never too small after it; in particular it does not wrap.               *)
THEOREM CounterIsSound == Spec => []CounterCoversSlots
<1>1. Inv => CounterCoversSlots
  BY DEF Inv, StateInv, PackagesInv, PackageInv, CounterCoversSlots
<1>2. QED BY <1>1, InvariantHolds, PTL

(* Reaching the announced count always ends a package.                     *)
THEOREM CompletePackagesLeave == Spec => []NoCompletePackageLingers
<1>1. Inv => NoCompletePackageLingers
  BY DEF Inv, StateInv, Settled, NoCompletePackageLingers
<1>2. QED BY <1>1, InvariantHolds, PTL

(* A null dereference needs an info that has cut off a counted fragment.   *)
THEOREM OnlyCutOffFragmentsKill == Spec => []DiesOnlyOfCutOffFragments
<1>1. Inv => DiesOnlyOfCutOffFragments
  BY DEF Inv, StateInv, CutOff, DiesOnlyOfCutOffFragments
<1>2. QED BY <1>1, InvariantHolds, PTL

-----------------------------------------------------------------------------
(* The first datagram wins.                                                *)

(* The package new has what the package old had, and perhaps more.         *)
Keeps(old, new) ==
  /\ \A i \in Filled(old.fragments) \cap DOMAIN new.fragments :
        new.fragments[i] = old.fragments[i]
  /\ old.fragment_info_received_ =>
        /\ new.fragment_info_received_
        /\ new.total_fragments_  = old.total_fragments_
        /\ new.total_size_bytes_ = old.total_size_bytes_
        /\ Len(new.fragments)    = Len(old.fragments)

(* Growing the vector keeps what is in it.                                 *)
LEMMA WithRoomForKeeps ==
  ASSUME NEW package \in Package, NEW num
  PROVE  Keeps(package, WithRoomFor(package, num))
<1>1. CASE package.fragment_info_received_ \/ Inc32(num) <= Len(package.fragments)
  BY <1>1 DEF WithRoomFor, Keeps
<1>2. CASE ~ (package.fragment_info_received_ \/ Inc32(num) <= Len(package.fragments))
  <2>1. WithRoomFor(package, num).fragments = Resize(package.fragments, Inc32(num))
    BY <1>2 DEF WithRoomFor, Package
  <2>2. \A i \in Filled(package.fragments) \cap DOMAIN Resize(package.fragments, Inc32(num)) :
           Resize(package.fragments, Inc32(num))[i] = package.fragments[i]
    BY DEF Resize, Filled, Package
  <2>3. QED BY <1>2, <2>1, <2>2, Zenon DEF Keeps
<1>3. QED BY <1>1, <1>2

(* The info is only taken when there is none, and keeps the fragments that *)
(* it announces.                                                           *)
LEMMA WithInfoKeeps ==
  ASSUME NEW package \in Package, ~ package.fragment_info_received_, NEW d
  PROVE  Keeps(package, WithInfo(package, d))
<1>1. WithInfo(package, d).fragments = Resize(package.fragments, d.num)
  BY DEF WithInfo, Package
<1>2. \A i \in Filled(package.fragments) \cap DOMAIN Resize(package.fragments, d.num) :
         Resize(package.fragments, d.num)[i] = package.fragments[i]
  BY DEF Resize, Filled, Package
<1>3. QED BY <1>1, <1>2, Zenon DEF Keeps

(* A fragment only goes into an empty slot.                                *)
LEMMA WithFragmentKeeps ==
  ASSUME NEW package \in Package, NEW room \in Package, Keeps(package, room),
         NEW d, room.fragments[d.num + 1] = NoFragment
  PROVE  Keeps(package, WithFragment(room, d))
<1> DEFINE filled == WithFragment(room, d)
<1>1. /\ DOMAIN filled.fragments = DOMAIN room.fragments
      /\ \A i \in DOMAIN room.fragments \ {d.num + 1} : filled.fragments[i] = room.fragments[i]
      /\ Len(filled.fragments) = Len(room.fragments)
  BY DEF WithFragment, Package
<1>2. /\ filled.fragment_info_received_ = room.fragment_info_received_
      /\ filled.total_fragments_  = room.total_fragments_
      /\ filled.total_size_bytes_ = room.total_size_bytes_
  BY DEF WithFragment, Package
<1>3. \A i \in Filled(package.fragments) \cap DOMAIN room.fragments : i # d.num + 1
  BY DEF Filled, Keeps
<1> HIDE DEF filled
<1>4. \A i \in Filled(package.fragments) \cap DOMAIN filled.fragments :
         filled.fragments[i] = package.fragments[i]
  BY <1>1, <1>3 DEF Keeps
<1>5. Keeps(package, filled)
  BY <1>1, <1>2, <1>4, Zenon DEF Keeps
<1>6. QED BY <1>5 DEF filled

(* So a datagram keeps what is in the packages that stay in the map.       *)
LEMMA DatagramKeeps ==
  ASSUME NEW pkgs, PackagesInv(pkgs), NEW endpoint \in Endpoints, NEW d, DatagramOK(d),
         reassembly_handle_datagram(pkgs, endpoint, d),
         NEW key \in DOMAIN pkgs \cap DOMAIN fragmented_packages_'
  PROVE  Keeps(pkgs[key], fragmented_packages_'[key])
<1> DEFINE package == pkgs[key]
           room == WithRoomFor(package, d.num)
<1>0. Keeps(package, package)
  BY DEF Keeps
<1>1. CASE fragmented_packages_' = pkgs \/ key # Key(endpoint, d)
  BY <1>0, <1>1, OthersAreLeftAlone
<1>2. CASE key = Key(endpoint, d) /\ fragmented_packages_' # pkgs
  <2>1. PackageInv(package) /\ PackageOf(pkgs, << endpoint, d.id >>) = package
    BY <1>2 DEF PackagesInv, PackageOf, Key
  <2>2. d.num \in UInt32 /\ package \in Package /\ room \in Package
    BY <2>1, WithRoomForInv DEF DatagramOK, PackageInv
  <2>3. ASSUME NEW new, Keeps(package, new),
               handle_fragmented_package_if_complete(pkgs, << endpoint, d.id >>, new)
        PROVE  Keeps(package, fragmented_packages_'[key])
    BY <1>2, <2>3, CompletionStores DEF Key
  <2>4. CASE handle_datagram_fragmented_message_info(pkgs, endpoint, d)
    <3>1. /\ ~ package.fragment_info_received_
          /\ handle_fragmented_package_if_complete(pkgs, << endpoint, d.id >>, WithInfo(package, d))
      BY <1>2, <2>1, <2>4, Zenon DEF handle_datagram_fragmented_message_info
    <3>2. QED BY <2>2, <2>3, <3>1, WithInfoKeeps
  <2>5. CASE handle_datagram_fragment(pkgs, endpoint, d)
    <3>1. Keeps(package, room)
      BY <2>2, WithRoomForKeeps
    <3>2. CASE fragmented_packages_' = Store(pkgs, << endpoint, d.id >>, room)
      BY <1>2, <3>1, <3>2 DEF Store, Key
    <3>3. CASE /\ room.fragments[d.num + 1] = NoFragment
               /\ handle_fragmented_package_if_complete(pkgs, << endpoint, d.id >>, WithFragment(room, d))
      BY <2>2, <2>3, <3>1, <3>3, WithFragmentKeeps
    <3>4. QED BY <2>1, <2>5, <3>2, <3>3, Zenon DEF handle_datagram_fragment
  <2>6. QED
    BY <1>2, <2>4, <2>5, Zenon
       DEF reassembly_handle_datagram, Handlers, handle_datagram_non_fragmented_message
<1>3. QED BY <1>1, <1>2

(* While a package is in the map, neither what has been announced nor what *)
(* has been stored changes, whatever arrives (the duplicate checks of      *)
(* Reassembly).                                                            *)
THEOREM FirstDatagramStays == Spec => FirstDatagramWins
<1> DEFINE AllKept ==
      \A key \in DOMAIN fragmented_packages_ \cap DOMAIN fragmented_packages_' :
         Keeps(fragmented_packages_[key], fragmented_packages_'[key])
<1>1. Inv /\ [Next]_vars => [AllKept]_vars
  <2> SUFFICES ASSUME Inv, [Next]_vars, ~ UNCHANGED vars PROVE AllKept
    OBVIOUS
  <2>1. ASSUME NEW endpoint \in Endpoints, NEW d \in Datagrams, HandleDatagram(endpoint, d)
        PROVE  AllKept
    <3>1. DatagramOK(d)
      BY DatagramsAssumption DEF DatagramOK, Header
    <3>2. QED BY <2>1, <3>1, DatagramKeeps DEF HandleDatagram, Inv, StateInv
  <2>2. ASSUME NEW max_age \in 0 .. now, remove_old_packages(max_age)
        PROVE  AllKept
    BY <2>2 DEF remove_old_packages, WithoutOldPackages, Restrict, Keeps
  <2>3. CASE Tick
    BY <2>3 DEF Tick, Keeps
  <2>4. QED BY <2>1, <2>2, <2>3 DEF Next
<1>2. QED BY <1>1, InvariantHolds, PTL DEF Spec, FirstDatagramWins, Keeps

-----------------------------------------------------------------------------
(* The packages that are left.  The argument about Socket: a datagram      *)
(* concerns one key of the map, and it finds the map without the packages  *)
(* that have expired.                                                      *)

(* The packages that survive the cleaning have not expired.                *)
LEMMA CleanedHasNotExpired ==
  ASSUME NEW key
  PROVE  key \in DOMAIN Cleaned <=>
           /\ key \in DOMAIN fragmented_packages_
           /\ fragmented_packages_[key].last_access_ >= now - max_reassembly_age_
BY DEF Cleaned, WithoutOldPackages, Restrict

(* The cleaning does not change them.                                      *)
LEMMA CleanedKeeps ==
  ASSUME NEW key \in DOMAIN Cleaned
  PROVE  Cleaned[key] = fragmented_packages_[key]
BY DEF Cleaned, WithoutOldPackages, Restrict

(* handle_datagram drops the datagram, or the reassembly handles it.       *)
LEMMA DroppedOrHandled ==
  ASSUME NEW endpoint, NEW d, handle_datagram(endpoint, d)
  PROVE  \/ \E error \in ErrorCode : Dropped(error)
         \/ reassembly_handle_datagram(Cleaned, endpoint, d)
<1>1. "MALFORMED_DATAGRAM" \in ErrorCode /\ "UNSUPPORTED_PROTOCOL_VERSION" \in ErrorCode
  BY DEF ErrorCode
<1>2. QED BY <1>1, Zenon DEF handle_datagram, Accept

-----------------------------------------------------------------------------
(* What a datagram makes of a new package.                                 *)

(* An info, or one fragment and no info.                                   *)
MadeByOneDatagram(package) ==
  \/ package.fragment_info_received_ /\ Filled(package.fragments) = {}
  \/ ~ package.fragment_info_received_ /\ Cardinality(Filled(package.fragments)) <= 1

(* An info gives it as many gaps as it announces.                          *)
LEMMA NewWithInfo ==
  ASSUME NEW d, d.num \in Nat
  PROVE  /\ WithInfo(NewPackage, d).fragment_info_received_
         /\ Filled(WithInfo(NewPackage, d).fragments) = {}
         /\ DOMAIN WithInfo(NewPackage, d).fragments = 1 .. d.num
         /\ Len(WithInfo(NewPackage, d).fragments) = d.num
<1>1. WithInfo(NewPackage, d).fragments = Resize(<< >>, d.num)
  BY DEF WithInfo, NewPackage
<1>2. WithInfo(NewPackage, d).fragment_info_received_
  BY DEF WithInfo, NewPackage
<1>3. << >> \in Seq(Slot) /\ Filled(<< >>) = {}
  BY DEF Filled
<1>4. /\ Resize(<< >>, d.num) \in Seq(Slot)
      /\ Len(Resize(<< >>, d.num)) = d.num
      /\ Filled(Resize(<< >>, d.num)) = {}
  BY <1>3, ResizeKeeps
<1>5. QED BY <1>1, <1>2, <1>4

(* Room for a fragment is only gaps.                                       *)
LEMMA NewWithRoom ==
  ASSUME NEW num \in UInt32
  PROVE  /\ ~ WithRoomFor(NewPackage, num).fragment_info_received_
         /\ Filled(WithRoomFor(NewPackage, num).fragments) = {}
         /\ WithRoomFor(NewPackage, num).fragments \in Seq(Slot)
<1>1. Inc32(num) \in Nat
  BY IncrementIsUInt32, UInt32Assumption DEF UInt32
<1>2. << >> \in Seq(Slot) /\ Filled(<< >>) = {}
  BY DEF Filled
<1>3. Resize(<< >>, Inc32(num)) \in Seq(Slot) /\ Filled(Resize(<< >>, Inc32(num))) = {}
  BY <1>1, <1>2, ResizeKeeps
<1>4. /\ ~ NewPackage.fragment_info_received_
      /\ NewPackage.fragments = << >>
  BY DEF NewPackage
<1>5. CASE Inc32(num) <= Len(NewPackage.fragments)
  BY <1>2, <1>4, <1>5 DEF WithRoomFor
<1>6. CASE ~ Inc32(num) <= Len(NewPackage.fragments)
  <2>1. WithRoomFor(NewPackage, num) = [NewPackage EXCEPT !.fragments = Resize(@, Inc32(num))]
    BY <1>4, <1>6 DEF WithRoomFor
  <2>2. /\ ~ WithRoomFor(NewPackage, num).fragment_info_received_
        /\ WithRoomFor(NewPackage, num).fragments = Resize(<< >>, Inc32(num))
    BY <2>1 DEF NewPackage
  <2>3. QED BY <1>3, <2>2
<1>7. QED BY <1>5, <1>6

(* The fragment is then the only one, and there is no info.                *)
LEMMA NewWithFragment ==
  ASSUME NEW d, d.num \in UInt32
  PROVE  LET package == WithFragment(WithRoomFor(NewPackage, d.num), d)
         IN  ~ package.fragment_info_received_ /\ Cardinality(Filled(package.fragments)) <= 1
<1> DEFINE room == WithRoomFor(NewPackage, d.num)
           package == WithFragment(room, d)
<1>1. /\ ~ room.fragment_info_received_
      /\ Filled(room.fragments) = {}
      /\ room.fragments \in Seq(Slot)
  BY NewWithRoom
<1>2. room \in Package
  BY NewPackageInv, WithRoomForInv DEF PackageInv
<1>3. ~ package.fragment_info_received_
  BY <1>1, <1>2 DEF WithFragment, Package
<1>4. package.fragments = [room.fragments EXCEPT ![d.num + 1] = [data |-> d.payload, size |-> d.len]]
  BY <1>2 DEF WithFragment, Package
<1>5. Filled(package.fragments) \subseteq {d.num + 1}
  <2> HIDE DEF room, package
  <2>1. QED BY <1>1, <1>4 DEF Filled
<1>6. Cardinality(Filled(package.fragments)) <= 1
  <2> HIDE DEF room, package
  <2>1. CASE Filled(package.fragments) = {}
    BY <2>1, FS_EmptySet
  <2>2. CASE Filled(package.fragments) = {d.num + 1}
    <3>1. Cardinality({d.num + 1}) = 1
      BY FS_Singleton
    <3>2. Cardinality(Filled(package.fragments)) = 1
      BY <2>2, <3>1, Zenon
    <3>3. QED BY <3>2
  <2>3. QED BY <1>5, <2>1, <2>2
<1>7. QED BY <1>3, <1>6

(* A datagram whose key is not in the map: what it stores is made by it    *)
(* alone, and its message has one fragment at most.                        *)
LEMMA FirstOfItsKey ==
  ASSUME NEW pkgs, NEW endpoint, NEW d \in Datagrams,
         Key(endpoint, d) \notin DOMAIN pkgs, reassembly_handle_datagram(pkgs, endpoint, d)
  PROVE  /\ Key(endpoint, d) \in DOMAIN fragmented_packages_' =>
               MadeByOneDatagram(fragmented_packages_'[Key(endpoint, d)])
         /\ returned'.message # NoMessage => Len(returned'.message) < 2
<1> DEFINE key == << endpoint, d.id >>
           room == WithRoomFor(NewPackage, d.num)
<1>1. d.num \in UInt32 /\ d.num \in Nat
  BY DatagramsAssumption, UInt32Assumption DEF Header, UInt32
<1>2. key = Key(endpoint, d) /\ PackageOf(pkgs, key) = NewPackage
  BY DEF Key, PackageOf
<1>3. CASE fragmented_packages_' = pkgs /\ returned'.message = NoMessage
  BY <1>3
<1>4. CASE handle_fragmented_package_if_complete(pkgs, key, WithInfo(NewPackage, d))
  <2>1. key \in DOMAIN fragmented_packages_' => MadeByOneDatagram(fragmented_packages_'[key])
    <3>1. MadeByOneDatagram(WithInfo(NewPackage, d))
      BY <1>1, NewWithInfo, Zenon DEF MadeByOneDatagram
    <3>2. QED BY <1>4, <3>1, CompletionStores, Zenon
  <2>2. ASSUME returned'.message # NoMessage
        PROVE  Len(returned'.message) < 2
    <3>1. ~ HasHole(WithInfo(NewPackage, d)) /\ returned'.message = WithInfo(NewPackage, d).fragments
      BY <1>4, <2>2, CompletionReturns
    <3>2. 1 .. d.num = {}
      BY <1>1, <3>1, NewWithInfo, Zenon DEF HasHole
    <3>3. Len(returned'.message) = d.num
      BY <1>1, <3>1, NewWithInfo, Zenon
    <3>4. QED BY <1>1, <3>2, <3>3
  <2>3. QED BY <1>2, <2>1, <2>2
<1>5. CASE handle_fragmented_package_if_complete(pkgs, key, WithFragment(room, d))
  <2>1. MadeByOneDatagram(WithFragment(room, d)) /\ ~ IsComplete(WithFragment(room, d))
    BY <1>1, NewWithFragment, Zenon DEF MadeByOneDatagram, IsComplete
  <2>2. QED BY <1>2, <1>5, <2>1, CompletionStores, CompletionReturns, Zenon
<1>6. CASE fragmented_packages_' = Store(pkgs, key, room) /\ returned'.message = NoMessage
  <2>1. Cardinality({}) <= 1
    BY FS_EmptySet
  <2>2. MadeByOneDatagram(room)
    BY <1>1, <2>1, NewWithRoom, Zenon DEF MadeByOneDatagram
  <2>3. Store(pkgs, key, room)[key] = room
    BY DEF Store
  <2>4. QED BY <1>2, <1>6, <2>2, <2>3, Zenon
<1>7. CASE /\ fragmented_packages_' = pkgs
           /\ returned'.message = << [data |-> d.payload, size |-> d.len] >>
  <2>1. Len(returned'.message) = 1
    BY <1>7
  <2>2. QED BY <1>7, <2>1
<1>8. ASSUME NEW error, Return(error, NoMessage)
      PROVE  returned'.message = NoMessage
  BY <1>8 DEF Return
<1>9. CASE handle_datagram_fragmented_message_info(pkgs, endpoint, d)
  BY <1>2, <1>3, <1>4, <1>8, <1>9, Zenon DEF handle_datagram_fragmented_message_info
<1>10. CASE handle_datagram_fragment(pkgs, endpoint, d)
  BY <1>2, <1>5, <1>6, <1>8, <1>10, Zenon DEF handle_datagram_fragment
<1>11. CASE handle_datagram_non_fragmented_message(pkgs, d)
  BY <1>3, <1>7, <1>8, <1>11 DEF handle_datagram_non_fragmented_message, Return
<1>12. QED
  BY <1>3, <1>8, <1>9, <1>10, <1>11, Zenon DEF reassembly_handle_datagram, Handlers

(* A message of several fragments takes its package out of the map.        *)
LEMMA MessageTakesItsPackage ==
  ASSUME NEW pkgs, NEW endpoint, NEW d, reassembly_handle_datagram(pkgs, endpoint, d),
         returned'.message # NoMessage, Len(returned'.message) >= 2
  PROVE  Key(endpoint, d) \notin DOMAIN fragmented_packages_'
<1> DEFINE key == << endpoint, d.id >>
<1>1. ASSUME NEW package, handle_fragmented_package_if_complete(pkgs, key, package)
      PROVE  Key(endpoint, d) \notin DOMAIN fragmented_packages_'
  <2>1. fragmented_packages_' = Erase(pkgs, key)
    BY <1>1, CompletionReturns
  <2>2. QED BY <2>1 DEF Erase, Restrict, Key
<1>2. ASSUME NEW error, Return(error, NoMessage)
      PROVE  FALSE
  BY <1>2 DEF Return
<1>3. CASE handle_datagram_fragmented_message_info(pkgs, endpoint, d)
  BY <1>1, <1>2, <1>3, Zenon DEF handle_datagram_fragmented_message_info
<1>4. CASE handle_datagram_fragment(pkgs, endpoint, d)
  BY <1>1, <1>2, <1>4, Zenon DEF handle_datagram_fragment
<1>5. CASE handle_datagram_non_fragmented_message(pkgs, d)
  <2>1. returned'.message = << [data |-> d.payload, size |-> d.len] >>
    BY <1>5, <1>2 DEF handle_datagram_non_fragmented_message, Return
  <2>2. Len(returned'.message) = 1
    BY <2>1
  <2>3. QED BY <2>2
<1>6. QED
  BY <1>2, <1>3, <1>4, <1>5, Zenon DEF reassembly_handle_datagram, Handlers

-----------------------------------------------------------------------------
(* The invariant.                                                          *)

(* The clock is past every age in use.                                     *)
ClockIsPastAges == \A age \in Ages \cup {DefaultAge} : age < StartTime

(* At most one package has no access noted in it.                          *)
OneAtTheEpoch(pkgs) ==
  \A key, other \in DOMAIN pkgs :
     pkgs[key].last_access_ = 0 /\ pkgs[other].last_access_ = 0 => key = other

SocketInv ==
  /\ StateInv
  /\ now \in Nat /\ now >= StartTime
  /\ max_reassembly_age_ \in Ages \cup {DefaultAge}
  /\ ClockIsPastAges => OneAtTheEpoch(fragmented_packages_)

(* A socket that has just been made satisfies it.                          *)
LEMMA SocketInvInit == SocketInit => SocketInv
<1> SUFFICES ASSUME SocketInit PROVE SocketInv
  OBVIOUS
<1>1. Inv
  BY InvInit DEF SocketInit
<1>2. now = StartTime /\ max_reassembly_age_ = DefaultAge /\ DOMAIN fragmented_packages_ = {}
  BY DEF SocketInit, Init
<1>3. OneAtTheEpoch(fragmented_packages_)
  BY <1>2 DEF OneAtTheEpoch
<1>4. now >= StartTime
  BY <1>2, TimeAssumption
<1>5. QED BY <1>1, <1>2, <1>3, <1>4 DEF SocketInv, Inv

(* No package at the epoch survives the cleaning.                          *)
LEMMA NoneAtTheEpochIsKept ==
  ASSUME SocketInv, ClockIsPastAges, NEW key \in DOMAIN Cleaned
  PROVE  Cleaned[key].last_access_ # 0
<1>1. max_reassembly_age_ \in Nat /\ max_reassembly_age_ < StartTime /\ StartTime \in Nat
  BY AgesAssumption, TimeAssumption DEF SocketInv, ClockIsPastAges
<1>2. now - max_reassembly_age_ > 0
  BY <1>1 DEF SocketInv
<1>3. fragmented_packages_[key].last_access_ >= now - max_reassembly_age_
  BY CleanedHasNotExpired
<1>4. now - max_reassembly_age_ \in Int
  BY <1>1 DEF SocketInv
<1>5. QED BY <1>2, <1>3, <1>4, CleanedKeeps

(* A datagram keeps the invariant: what is at the epoch after it is at the *)
(* datagram's own key.                                                     *)
LEMMA HandledInv ==
  ASSUME SocketInv, NEW endpoint \in Endpoints, NEW d \in Datagrams, handle_datagram(endpoint, d)
  PROVE  SocketInv'
<1>1. PackagesInv(Cleaned) /\ Settled(Cleaned)
  BY RestrictInv DEF SocketInv, StateInv, Cleaned, WithoutOldPackages, handle_datagram
<1>2. alive /\ now \in Nat /\ now' = now /\ max_reassembly_age_' = max_reassembly_age_
  BY DEF SocketInv, handle_datagram
<1>3. CASE \E error \in ErrorCode : Dropped(error)
  <2>1. ReturnedOK'
    BY <1>3 DEF Dropped, Return, ReturnedOK
  <2>2. StateInv'
    BY <1>1, <1>2, <1>3, <2>1, Zenon DEF StateInv, Dropped, Return
  <2>3. ClockIsPastAges => OneAtTheEpoch(fragmented_packages_')
    BY <1>3, NoneAtTheEpochIsKept, Zenon DEF OneAtTheEpoch, Dropped
  <2>4. QED BY <1>2, <2>2, <2>3 DEF SocketInv, ClockIsPastAges, OneAtTheEpoch
<1>4. CASE reassembly_handle_datagram(Cleaned, endpoint, d)
  <2>1. DatagramOK(d)
    BY DatagramsAssumption DEF DatagramOK, Header
  <2>2. StateInv'
    BY <1>1, <1>2, <1>4, <2>1, HandleDatagramInv
  <2>3. ASSUME ClockIsPastAges,
               NEW key \in DOMAIN fragmented_packages_', key # Key(endpoint, d)
        PROVE  fragmented_packages_'[key].last_access_ # 0
    <3>1. key \in DOMAIN Cleaned /\ fragmented_packages_'[key] = Cleaned[key]
      BY <1>4, <2>3, OthersAreLeftAlone
    <3>2. Cleaned[key].last_access_ # 0
      BY <2>3, <3>1, NoneAtTheEpochIsKept
    <3>3. QED BY <3>1, <3>2
  <2>4. ClockIsPastAges => OneAtTheEpoch(fragmented_packages_')
    BY <2>3, Zenon DEF OneAtTheEpoch
  <2>5. QED BY <1>2, <2>2, <2>4 DEF SocketInv, ClockIsPastAges, OneAtTheEpoch
<1>5. QED BY <1>3, <1>4, DroppedOrHandled

(* Every step keeps it.                                                    *)
LEMMA SocketInvNext == SocketInv /\ [SocketNext]_socketVars => SocketInv'
<1> SUFFICES ASSUME SocketInv, [SocketNext]_socketVars PROVE SocketInv'
  OBVIOUS
<1> USE DEF SocketInv, StateInv, ReturnedOK, ClockIsPastAges, OneAtTheEpoch, vars, socketVars
<1>1. ASSUME NEW endpoint \in Endpoints, NEW d \in Datagrams, handle_datagram(endpoint, d)
      PROVE  SocketInv'
  BY <1>1, HandledInv
<1>2. ASSUME NEW age \in Ages, set_max_reassembly_age(age)
      PROVE  SocketInv'
  BY <1>2 DEF set_max_reassembly_age
<1>3. CASE SocketTick
  <2>1. now' \in Nat /\ now' >= StartTime
    BY <1>3, TimeAssumption DEF SocketTick, Tick
  <2>2. QED BY <1>3, <2>1 DEF SocketTick, Tick
<1>4. CASE UNCHANGED socketVars
  BY <1>4
<1>5. QED BY <1>1, <1>2, <1>3, <1>4 DEF SocketNext

(* So it holds whenever the socket is looked at.                           *)
LEMMA SocketInvHolds == SocketSpec => []SocketInv
BY SocketInvInit, SocketInvNext, PTL DEF SocketSpec

(* The members have their types, whatever datagrams come and whatever age  *)
(* the user sets (class Socket).                                           *)
THEOREM SocketTypeCorrect == SocketSpec => []SocketTypeOK
<1>1. SocketInv => SocketTypeOK
  <2> SUFFICES ASSUME SocketInv PROVE SocketTypeOK
    OBVIOUS
  <2>1. max_reassembly_age_ \in Nat
    BY AgesAssumption DEF SocketInv
  <2>2. QED BY <2>1 DEF SocketInv, SocketTypeOK, TypeOK, StateInv, PackagesInv, PackageInv, ReturnedOK
<1>2. QED BY <1>1, SocketInvHolds, PTL

(* However many first fragments are rejected, by however many senders, at  *)
(* most one package without an access is in the map.                       *)
THEOREM RejectedPackagesAreFew == SocketSpec => []RejectedPackagesDoNotPileUp
<1>1. SocketInv => RejectedPackagesDoNotPileUp
  <2> DEFINE epoch == {key \in DOMAIN fragmented_packages_ :
                         fragmented_packages_[key].last_access_ = 0}
  <2> SUFFICES ASSUME SocketInv, ClockIsPastAges PROVE Cardinality(epoch) <= 1
    BY DEF RejectedPackagesDoNotPileUp, ClockIsPastAges
  <2>1. CASE epoch = {}
    BY <2>1, FS_EmptySet
  <2>2. CASE epoch # {}
    <3>1. PICK key : key \in epoch
      BY <2>2
    <3>2. epoch = {key}
      BY <3>1 DEF SocketInv, OneAtTheEpoch
    <3>3. Cardinality({key}) = 1
      BY FS_Singleton
    <3>4. Cardinality(epoch) = 1
      BY <3>2, <3>3, Zenon
    <3>5. QED BY <3>4
  <2>3. QED BY <2>1, <2>2
<1>2. QED BY <1>1, SocketInvHolds, PTL
-----------------------------------------------------------------------------
(* What has expired stays dead.                                            *)

(* One datagram keeps to ExpiredPackagesStayDead.                          *)
LEMMA ExpiredStayDeadStep ==
  ASSUME SocketInv, NEW endpoint \in Endpoints, NEW d \in Datagrams, handle_datagram(endpoint, d)
  PROVE  /\ \A key \in DOMAIN fragmented_packages_ \cap DOMAIN fragmented_packages_' :
               Expired(fragmented_packages_[key]) => MadeByOneDatagram(fragmented_packages_'[key])
         /\ (returned'.message # NoMessage /\ Len(returned'.message) >= 2) =>
               \E key \in DOMAIN fragmented_packages_ \ DOMAIN fragmented_packages_' :
                  ~ Expired(fragmented_packages_[key])
<1>1. now \in Nat /\ max_reassembly_age_ \in Nat
  BY AgesAssumption DEF SocketInv
<1>2. \A key \in DOMAIN fragmented_packages_ : fragmented_packages_[key].last_access_ \in Nat
  BY DEF SocketInv, StateInv, PackagesInv, PackageInv, Package
<1>3. ASSUME NEW key
      PROVE  key \in DOMAIN Cleaned <=>
                key \in DOMAIN fragmented_packages_ /\ ~ Expired(fragmented_packages_[key])
  BY <1>1, <1>2, CleanedHasNotExpired DEF Expired
<1>4. CASE \E error \in ErrorCode : Dropped(error)
  BY <1>3, <1>4 DEF Dropped, Return
<1>5. CASE reassembly_handle_datagram(Cleaned, endpoint, d)
  <2>1. ASSUME NEW key \in DOMAIN fragmented_packages_ \cap DOMAIN fragmented_packages_',
               Expired(fragmented_packages_[key])
        PROVE  MadeByOneDatagram(fragmented_packages_'[key])
    <3>1. key \notin DOMAIN Cleaned
      BY <1>3, <2>1
    <3>2. key = Key(endpoint, d)
      BY <1>5, <3>1, OthersAreLeftAlone
    <3>3. QED BY <1>5, <3>1, <3>2, FirstOfItsKey
  <2>2. ASSUME returned'.message # NoMessage, Len(returned'.message) >= 2
        PROVE  \E key \in DOMAIN fragmented_packages_ \ DOMAIN fragmented_packages_' :
                  ~ Expired(fragmented_packages_[key])
    <3>1. Key(endpoint, d) \notin DOMAIN fragmented_packages_'
      BY <1>5, <2>2, MessageTakesItsPackage
    <3>2. Key(endpoint, d) \in DOMAIN Cleaned
      <4>1. ASSUME Key(endpoint, d) \notin DOMAIN Cleaned
            PROVE  Len(returned'.message) < 2
        BY <1>5, <2>2, <4>1, FirstOfItsKey
      <4>2. returned' \in [error : ErrorCode, message : Seq(View) \cup {NoMessage}]
        BY HandledInv DEF SocketInv, StateInv, ReturnedOK
      <4>3. Len(returned'.message) \in Nat
        BY <2>2, <4>2
      <4>4. QED BY <2>2, <4>1, <4>3
    <3>3. QED BY <1>3, <3>1, <3>2
  <2>3. QED BY <2>1, <2>2
<1>6. QED BY <1>4, <1>5, DroppedOrHandled

(* A datagram that comes too late for its package does not bring it back,  *)
(* and completes no message of several fragments.                          *)
THEOREM ExpiredStayDead == SocketSpec => ExpiredPackagesStayDead
<1> DEFINE StaysDead ==
      HandledADatagram =>
        /\ \A key \in DOMAIN fragmented_packages_ \cap DOMAIN fragmented_packages_' :
              LET new == fragmented_packages_'[key]
              IN  Expired(fragmented_packages_[key]) =>
                     \/ new.fragment_info_received_ /\ Filled(new.fragments) = {}
                     \/ ~ new.fragment_info_received_ /\ Cardinality(Filled(new.fragments)) <= 1
        /\ (returned' # returned /\ returned'.message # NoMessage /\ Len(returned'.message) >= 2) =>
              \E key \in DOMAIN fragmented_packages_ \ DOMAIN fragmented_packages_' :
                 ~ Expired(fragmented_packages_[key])
<1>1. SocketInv /\ [SocketNext]_socketVars => [StaysDead]_socketVars
  <2> SUFFICES ASSUME SocketInv, [SocketNext]_socketVars, ~ UNCHANGED socketVars, HandledADatagram
               PROVE  StaysDead
    OBVIOUS
  <2>1. CASE \E endpoint \in Endpoints, d \in Datagrams : handle_datagram(endpoint, d)
    BY <2>1, ExpiredStayDeadStep, Zenon DEF MadeByOneDatagram
  <2>2. CASE \E age \in Ages : set_max_reassembly_age(age)
    BY <2>2 DEF set_max_reassembly_age, HandledADatagram, socketVars
  <2>3. CASE SocketTick
    <3>1. now \in Nat /\ now' = now + 1
      BY <2>3 DEF SocketTick, Tick, SocketInv
    <3>2. QED BY <3>1 DEF HandledADatagram
  <2>4. QED BY <2>1, <2>2, <2>3 DEF SocketNext
<1>2. QED BY <1>1, SocketInvHolds, PTL DEF SocketSpec, ExpiredPackagesStayDead
=============================================================================
