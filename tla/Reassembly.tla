----------------------------- MODULE Reassembly -----------------------------
(***************************************************************************)
(* The class v5::Reassembly: the map of packages under reassembly and the  *)
(* two entry points its owner calls, handle_datagram and                   *)
(* remove_old_packages.                                                    *)
(*                                                                         *)
(* Every handler is an action over the map `pkgs' it starts from, so that  *)
(* the socket can run remove_old_packages and handle_datagram in one step, *)
(* as its own handle_datagram does.  Each early return is a disjunct.      *)
(*                                                                         *)
(* A fragment is a view (an OwningBuffer) on a received datagram: the      *)
(* payload token and the number of bytes the header claims.  A message is  *)
(* the sequence of views whose bytes it consists of.                       *)
(***************************************************************************)
EXTENDS ProtocolV5, FiniteSets, Functions, SequencesExt

CONSTANTS
  Endpoints,    \* senders' UDP endpoints
  Ids,          \* package ids (int32_t), compared for equality only
  Payloads,     \* tokens for the bytes behind a datagram's header
  Datagrams,    \* the datagrams that may arrive from anyone
  StartTime,    \* steady_clock when the object is constructed
  MaxTime,      \* bound on the clock, for model checking
  NoFragment,   \* the null pointer in a package's vector of fragments
  NoMessage     \* the null pointer returned to the caller

View == [data : Payloads, size : UInt32]

Header == [type : Nat, id : Ids, num : UInt32, len : UInt32]

ASSUME TimeAssumption == StartTime \in Nat /\ MaxTime \in Nat /\ StartTime <= MaxTime

ASSUME NullAssumption == NoFragment \notin View /\ NoMessage \notin Seq(View)

ASSUME DatagramsAssumption ==
  \A d \in Datagrams : /\ d.size \in Nat
                       /\ d.payload \in Payloads
                       /\ [type |-> d.type, id |-> d.id, num |-> d.num, len |-> d.len] \in Header

VARIABLES
  fragmented_packages_,  \* <<endpoint, id>> -> package
  now,                   \* steady_clock::now()
  alive,                 \* FALSE once a null pointer has been dereferenced
  returned               \* what the last handle_datagram returned

vars == << fragmented_packages_, now, alive, returned >>

-----------------------------------------------------------------------------
(* The packages under reassembly.                                          *)

NewPackage == [ fragment_info_received_ |-> FALSE,
                total_fragments_        |-> 0,
                total_size_bytes_       |-> 0,
                received_fragments_     |-> 0,
                last_access_            |-> 0,
                fragments               |-> << >> ]

(* fragmented_packages_.find, and emplace when there is nothing to find.   *)
PackageOf(pkgs, key) == IF key \in DOMAIN pkgs THEN pkgs[key] ELSE NewPackage

Store(pkgs, key, package) ==
  [k \in DOMAIN pkgs \cup {key} |-> IF k = key THEN package ELSE pkgs[k]]

(* Fault: only forgets the info, the fragments stay.                       *)
EraseOnlyInfo(pkgs, key) ==
  [k \in DOMAIN pkgs |-> IF k = key THEN [pkgs[k] EXCEPT !.fragment_info_received_ = FALSE]
                                    ELSE pkgs[k]]

Erase(pkgs, key) == Restrict(pkgs, DOMAIN pkgs \ {key})

(* std::vector::resize: truncates, or appends null pointers.               *)
Resize(fragments, n) ==
  [i \in 1 .. n |-> IF i <= Len(fragments) THEN fragments[i] ELSE NoFragment]

(* The slots that hold a fragment.  The code's slot `num' is slot num + 1. *)
Filled(fragments) == {i \in DOMAIN fragments : fragments[i] # NoFragment}

SumOfSizes(views) == FoldLeft(LAMBDA sum, view : sum + view.size, 0, views)

(* The payload bytes that were really received behind the header.          *)
BytesAvailable(d) == d.size - HeaderSize

Return(error, message) ==
  /\ returned' = [error |-> error, message |-> message]
  /\ UNCHANGED alive

-----------------------------------------------------------------------------
(* The last thing both handlers of fragmented messages do, with the        *)
(* package as they have just updated it.                                   *)

(* Fault: off by one.                                                      *)
IsCompleteOneEarly(package) == /\ package.fragment_info_received_
                               /\ package.received_fragments_ + 1 >= package.total_fragments_

IsComplete(package) == /\ package.fragment_info_received_
                       /\ package.received_fragments_ = package.total_fragments_

(* The size check visits every slot, and dereferences it without looking   *)
(* whether it is null: the count of received fragments stands for that.    *)
(* With a null slot the call does not return; `error' is then still what   *)
(* the caller initialised it with.                                         *)
HasHole(package) == Filled(package.fragments) # DOMAIN package.fragments

(* Fault: neither counts nor checks sizes once the info is there.          *)
handle_fragmented_package_if_informed(pkgs, key, package) ==
  \/ /\ ~ package.fragment_info_received_
     /\ fragmented_packages_' = Store(pkgs, key, package)
     /\ Return("OK", NoMessage)
  \/ /\ package.fragment_info_received_
     /\ fragmented_packages_' = Erase(pkgs, key)
     /\ Return("OK", package.fragments)

handle_fragmented_package_if_complete(pkgs, key, package) ==
  \/ /\ ~ IsComplete(package)
     /\ fragmented_packages_' = Store(pkgs, key, package)
     /\ Return("OK", NoMessage)
  \/ /\ IsComplete(package)
     /\ HasHole(package)
     /\ fragmented_packages_' = Store(pkgs, key, package)
     /\ alive' = FALSE
     /\ returned' = [error |-> "GENERIC_ERROR", message |-> NoMessage]
  \/ /\ IsComplete(package)
     /\ ~ HasHole(package)
     /\ SumOfSizes(package.fragments) # package.total_size_bytes_
     /\ fragmented_packages_' = Erase(pkgs, key)
     /\ Return("MALFORMED_REASSEMBLED_MESSAGE", NoMessage)
  \/ /\ IsComplete(package)
     /\ ~ HasHole(package)
     /\ SumOfSizes(package.fragments) = package.total_size_bytes_
     /\ fragmented_packages_' = Erase(pkgs, key)
     /\ Return("OK", package.fragments)

-----------------------------------------------------------------------------
(* The three datagram types.                                               *)

(* The package once the info datagram d is taken into it.                  *)
WithInfo(package, d) ==
  [package EXCEPT !.fragment_info_received_ = TRUE,
                  !.total_fragments_        = d.num,
                  !.total_size_bytes_       = d.len,
                  !.fragments               = Resize(@, d.num),
                  !.last_access_            = now]

(* Fault: counts on a fragment being the last to arrive.                   *)
handle_info_without_completion(pkgs, endpoint, d) ==
  LET key     == << endpoint, d.id >>
      package == PackageOf(pkgs, key)
  IN  \/ /\ package.fragment_info_received_
         /\ fragmented_packages_' = pkgs
         /\ Return("DUPLICATE_DATAGRAM", NoMessage)
      \/ /\ ~ package.fragment_info_received_
         /\ fragmented_packages_' = Store(pkgs, key, WithInfo(package, d))
         /\ Return("OK", NoMessage)

handle_datagram_fragmented_message_info(pkgs, endpoint, d) ==
  LET key     == << endpoint, d.id >>
      package == PackageOf(pkgs, key)
  IN  \/ /\ package.fragment_info_received_
         /\ fragmented_packages_' = pkgs
         /\ Return("DUPLICATE_DATAGRAM", NoMessage)
      \/ /\ ~ package.fragment_info_received_
         /\ handle_fragmented_package_if_complete(pkgs, key, WithInfo(package, d))

(* Fault: resizes without looking at the info or the size there is.        *)
WithRoomForAlways(package, num) == [package EXCEPT !.fragments = Resize(@, Inc32(num))]

(* Until the info has told their number, the vector grows with the         *)
(* fragments; num + 1 is a uint32_t.                                       *)
WithRoomFor(package, num) ==
  IF package.fragment_info_received_ \/ Inc32(num) <= Len(package.fragments)
  THEN package
  ELSE [package EXCEPT !.fragments = Resize(@, Inc32(num))]

(* Fault: received_fragments_ is not incremented.                          *)
WithFragmentUncounted(package, d) ==
  [package EXCEPT !.fragments[d.num + 1] = [data |-> d.payload, size |-> d.len],
                  !.last_access_         = now]

WithFragment(package, d) ==
  [package EXCEPT !.fragments[d.num + 1] = [data |-> d.payload, size |-> d.len],
                  !.received_fragments_  = Inc32(@),
                  !.last_access_         = now]

(* The early returns keep the package, even one that find did not find.    *)
handle_datagram_fragment(pkgs, endpoint, d) ==
  LET key     == << endpoint, d.id >>
      package == WithRoomFor(PackageOf(pkgs, key), d.num)
  IN  \/ /\ d.num >= Len(package.fragments)
         /\ fragmented_packages_' = Store(pkgs, key, package)
         /\ Return("MALFORMED_DATAGRAM", NoMessage)
      \/ /\ d.num < Len(package.fragments)
         /\ package.fragments[d.num + 1] # NoFragment
         /\ fragmented_packages_' = Store(pkgs, key, package)
         /\ Return("DUPLICATE_DATAGRAM", NoMessage)
      \/ /\ d.num < Len(package.fragments)
         /\ package.fragments[d.num + 1] = NoFragment
         /\ d.len > BytesAvailable(d)
         /\ fragmented_packages_' = Store(pkgs, key, package)
         /\ Return("MALFORMED_DATAGRAM", NoMessage)
      \/ /\ d.num < Len(package.fragments)
         /\ package.fragments[d.num + 1] = NoFragment
         /\ d.len <= BytesAvailable(d)
         /\ handle_fragmented_package_if_complete(pkgs, key, WithFragment(package, d))

handle_datagram_non_fragmented_message(pkgs, d) ==
  /\ fragmented_packages_' = pkgs
  /\ \/ /\ d.len > BytesAvailable(d)
        /\ Return("MALFORMED_DATAGRAM", NoMessage)
     \/ /\ d.len <= BytesAvailable(d)
        /\ Return("OK", << [data |-> d.payload, size |-> d.len] >>)

-----------------------------------------------------------------------------
(* The entry points.                                                       *)

Handlers(pkgs, endpoint, d) ==
  \/ /\ d.type = datagram_type_fragmented_message_info
     /\ handle_datagram_fragmented_message_info(pkgs, endpoint, d)
  \/ /\ d.type = datagram_type_fragment
     /\ handle_datagram_fragment(pkgs, endpoint, d)
  \/ /\ d.type = datagram_type_non_fragmented_message
     /\ handle_datagram_non_fragmented_message(pkgs, d)
  \/ /\ d.type \notin { datagram_type_fragmented_message_info, datagram_type_fragment,
                        datagram_type_non_fragmented_message }
     /\ fragmented_packages_' = pkgs
     /\ Return("MALFORMED_DATAGRAM", NoMessage)

reassembly_handle_datagram(pkgs, endpoint, d) ==
  \/ /\ d.size < HeaderSize
     /\ fragmented_packages_' = pkgs
     /\ Return("MALFORMED_DATAGRAM", NoMessage)
  \/ /\ d.size >= HeaderSize
     /\ Handlers(pkgs, endpoint, d)

(* What remove_old_packages(max_age) leaves in the map.                    *)
WithoutOldPackages(pkgs, max_age) ==
  Restrict(pkgs, {key \in DOMAIN pkgs : pkgs[key].last_access_ >= max_age})

-----------------------------------------------------------------------------
(* The class on its own, as its unit tests use it: any datagram, any time. *)

Init == /\ fragmented_packages_ = << >>
        /\ now = StartTime
        /\ alive = TRUE
        /\ returned = [error |-> "OK", message |-> NoMessage]

HandleDatagram(endpoint, d) ==
  /\ alive
  /\ reassembly_handle_datagram(fragmented_packages_, endpoint, d)
  /\ UNCHANGED now

remove_old_packages(max_age) ==
  /\ alive
  /\ fragmented_packages_' = WithoutOldPackages(fragmented_packages_, max_age)
  /\ UNCHANGED << now, alive, returned >>

Tick == /\ now < MaxTime
        /\ now' = now + 1
        /\ UNCHANGED << fragmented_packages_, alive, returned >>

Next == \/ \E endpoint \in Endpoints, d \in Datagrams : HandleDatagram(endpoint, d)
        \/ \E max_age \in 0 .. now : remove_old_packages(max_age)
        \/ Tick

Spec == Init /\ [][Next]_vars

-----------------------------------------------------------------------------
(* Type correctness. *)

Package == [ fragment_info_received_ : BOOLEAN,
             total_fragments_        : UInt32,
             total_size_bytes_       : UInt32,
             received_fragments_     : UInt32,
             last_access_            : Nat,
             fragments               : Seq(View \cup {NoFragment}) ]

(* The variables have their types: every package of the map belongs to an  *)
(* endpoint and an id, and the last call returned an error code and either *)
(* a message or nothing (the members of class Reassembly).                 *)
TypeOK ==
  /\ DOMAIN fragmented_packages_ \subseteq Endpoints \X Ids
  /\ \A key \in DOMAIN fragmented_packages_ : fragmented_packages_[key] \in Package
  /\ fragmented_packages_ = [key \in DOMAIN fragmented_packages_ |-> fragmented_packages_[key]]
  /\ now \in Nat
  /\ alive \in BOOLEAN
  /\ returned \in [error : ErrorCode, message : Seq(View) \cup {NoMessage}]

(* The counter received_fragments_ never lags behind the vector: it is the *)
(* number of filled slots until the info is known, and at least that after *)
(* (an info that announces fewer fragments than are stored drops some).    *)
CounterCoversSlots ==
  \A key \in DOMAIN fragmented_packages_ :
     LET package == fragmented_packages_[key]
         filled  == Cardinality(Filled(package.fragments))
     IN  /\ package.received_fragments_ >= filled
         /\ ~ package.fragment_info_received_ => package.received_fragments_ = filled

(* In a running program no package stays in the map once its count has     *)
(* reached the announced number, whichever of its datagrams came last.     *)
NoCompletePackageLingers ==
  alive => \A key \in DOMAIN fragmented_packages_ : ~ IsComplete(fragmented_packages_[key])

(* The program dies only on a package from which an info has cut off a     *)
(* fragment that was counted: the counter says more than the vector holds. *)
DiesOnlyOfCutOffFragments ==
  alive \/ \E key \in DOMAIN fragmented_packages_ :
              LET package == fragmented_packages_[key]
              IN  /\ package.fragment_info_received_
                  /\ package.received_fragments_ > Cardinality(Filled(package.fragments))

(* While a package is in the map, its info is taken once and the first     *)
(* fragment to arrive in a slot stays there: no later datagram, duplicate  *)
(* or not, changes what has been announced or stored.                      *)
FirstDatagramWins ==
  [][ \A key \in DOMAIN fragmented_packages_ \cap DOMAIN fragmented_packages_' :
        LET old == fragmented_packages_[key]
            new == fragmented_packages_'[key]
        IN  /\ \A i \in Filled(old.fragments) \cap DOMAIN new.fragments :
                  new.fragments[i] = old.fragments[i]
            /\ old.fragment_info_received_ =>
                  /\ new.fragment_info_received_
                  /\ new.total_fragments_  = old.total_fragments_
                  /\ new.total_size_bytes_ = old.total_size_bytes_
                  /\ Len(new.fragments)    = Len(old.fragments) ]_vars

=============================================================================
