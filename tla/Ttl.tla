-------------------------------- MODULE Ttl --------------------------------
(***************************************************************************)
(* The time to live of a lease: calculate_ttl of covert-types/src/ttl.rs,  *)
(* called when a lease is registered and twice when it is renewed.         *)
(*                                                                         *)
(* Instants and durations are naturals in one unit.  Converting between    *)
(* the two Rust duration types fails only for durations of about 2^63      *)
(* milliseconds and is not modelled.                                       *)
(***************************************************************************)
EXTENDS Integers

CONSTANTS
    None,       \* Rust's Option::None: no TTL requested, no wake-up scheduled
    Configs     \* the MountConfig values a mount can have

MountConfig == [default_lease_ttl : Nat, max_lease_ttl : Nat]

ASSUME NoneAssumption == None \notin Nat
ASSUME ConfigsAssumption == Configs \subseteq MountConfig /\ Configs # {}

\* ttl.unwrap_or(mount_config.default_lease_ttl)
RequestedTtl(mount_config, ttl) ==
    IF ttl = None THEN mount_config.default_lease_ttl ELSE ttl

CalculateTtl(now, issued_at, mount_config, ttl) ==
    LET max_expires_at == issued_at + mount_config.max_lease_ttl
        new_expires_at == now + RequestedTtl(mount_config, ttl)
    IN  IF new_expires_at > max_expires_at
        THEN IF max_expires_at > now THEN max_expires_at - now ELSE 0
        ELSE IF new_expires_at > now THEN new_expires_at - now ELSE 0
=============================================================================
