------------------------------- MODULE Socket -------------------------------
(***************************************************************************)
(* The receiving side of ecaludp::Socket: handle_datagram, which expires   *)
(* old packages, drops alien traffic and dispatches on the protocol        *)
(* version, around the Reassembly it owns.  SocketNpcap::handle_datagram   *)
(* is the same code.                                                       *)
(*                                                                         *)
(* A whole call is one step: the two reads of the steady clock in it (for  *)
(* the expiry and for last_access_) give the same tick.                    *)
(***************************************************************************)
EXTENDS Reassembly

CONSTANTS
  magic_header_bytes_,  \* the four bytes given to the constructor
  DefaultAge,           \* the constructor's max_reassembly_age_
  Ages                  \* the ages a user may set

ASSUME MagicAssumption == magic_header_bytes_ \in Seq(Nat) /\ Len(magic_header_bytes_) = 4

ASSUME AgesAssumption == DefaultAge \in Nat /\ Ages \subseteq Nat

ASSUME ArrivalsAssumption ==
  \A d \in Datagrams : d.magic \in Seq(Nat) /\ Len(d.magic) = 4 /\ d.version \in Nat

VARIABLE max_reassembly_age_

socketVars == << vars, max_reassembly_age_ >>

SocketInit == Init /\ max_reassembly_age_ = DefaultAge

set_max_reassembly_age(age) ==
  /\ alive
  /\ max_reassembly_age_' = age
  /\ UNCHANGED vars

HasMagic(d) == StrncmpEqual(d.magic, magic_header_bytes_)

(* Fault: old packages are not removed.                                    *)
CleanedNever == fragmented_packages_

(* Fault: they are removed a tick too late.                                *)
CleanedLate == WithoutOldPackages(fragmented_packages_, now - max_reassembly_age_ - 1)

(* The packages that are left once the old ones are removed.               *)
Cleaned == WithoutOldPackages(fragmented_packages_, now - max_reassembly_age_)

Dropped(error) ==
  /\ fragmented_packages_' = Cleaned
  /\ Return(error, NoMessage)

(* The body of Socket::handle_datagram.                                    *)
Accept(endpoint, d) ==
  \/ /\ d.size < HeaderCommonSize
     /\ Dropped("MALFORMED_DATAGRAM")
  \/ /\ d.size >= HeaderCommonSize
     /\ ~ HasMagic(d)
     /\ Dropped("MALFORMED_DATAGRAM")
  \/ /\ d.size >= HeaderCommonSize
     /\ HasMagic(d)
     /\ d.version # 5
     /\ Dropped("UNSUPPORTED_PROTOCOL_VERSION")
  \/ /\ d.size >= HeaderCommonSize
     /\ HasMagic(d)
     /\ d.version = 5
     /\ reassembly_handle_datagram(Cleaned, endpoint, d)

handle_datagram(endpoint, d) ==
  /\ alive
  /\ Accept(endpoint, d)
  /\ UNCHANGED << now, max_reassembly_age_ >>

(* Time passes whether or not the socket is used. *)
SocketTick == Tick /\ UNCHANGED max_reassembly_age_

SocketNext == \/ \E endpoint \in Endpoints, d \in Datagrams : handle_datagram(endpoint, d)
              \/ \E age \in Ages : set_max_reassembly_age(age)
              \/ SocketTick

SocketSpec == SocketInit /\ [][SocketNext]_socketVars

-----------------------------------------------------------------------------

(* The socket's variables have their types. *)
SocketTypeOK == TypeOK /\ max_reassembly_age_ \in Nat

Expired(package) == package.last_access_ < now - max_reassembly_age_

(* The socket steps other than a tick of the clock or a change of the age. *)
HandledADatagram == UNCHANGED << now, max_reassembly_age_ >>

(* A datagram that arrives after its package has expired does not bring    *)
(* the package back: what is then stored under its key is what this one    *)
(* datagram made of a new package, and a message of several fragments is   *)
(* only ever completed from a package that had not expired                 *)
(* (Socket::handle_datagram cleans before it looks at the datagram).       *)
ExpiredPackagesStayDead ==
  [][ HandledADatagram =>
        /\ \A key \in DOMAIN fragmented_packages_ \cap DOMAIN fragmented_packages_' :
              LET new == fragmented_packages_'[key]
              IN  Expired(fragmented_packages_[key]) =>
                     \/ new.fragment_info_received_ /\ Filled(new.fragments) = {}
                     \/ ~ new.fragment_info_received_ /\ Cardinality(Filled(new.fragments)) <= 1
        /\ (returned' # returned /\ returned'.message # NoMessage /\ Len(returned'.message) >= 2) =>
              \E key \in DOMAIN fragmented_packages_ \ DOMAIN fragmented_packages_' :
                 ~ Expired(fragmented_packages_[key]) ]_socketVars

(* A rejected first fragment leaves a package whose last_access_ is the    *)
(* clock's epoch.  Such packages do not pile up: the next datagram, of     *)
(* whatever kind, removes the one there is (as long as the clock is past   *)
(* every age in use).                                                      *)
RejectedPackagesDoNotPileUp ==
  (\A age \in Ages \cup {DefaultAge} : age < StartTime) =>
     Cardinality({key \in DOMAIN fragmented_packages_ :
                    fragmented_packages_[key].last_access_ = 0}) <= 1

=============================================================================
