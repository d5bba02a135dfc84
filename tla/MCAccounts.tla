----------------------------- MODULE MCAccounts -----------------------------
(***************************************************************************)
(* Three requests, in any roles: two sign-ups and a log-in of the same     *)
(* name in two cases, or a sign-up, a logout and a message that race.      *)
(***************************************************************************)
EXTENDS Accounts, TLC

CONSTANTS Anna, anna, boris, secret, other

(* Names whose lower case Rust and Postgres agree about.                   *)
MCLower == [n \in Name |-> IF n = Anna THEN anna ELSE n]

(* A name with a capital sigma at its end: str::to_lowercase makes it the  *)
(* final small sigma, lower() of a libc locale the other small sigma.      *)
CONSTANTS ODOS, odos, odosFinal

SigmaLower == (ODOS :> odosFinal) @@ (odos :> odos) @@ (odosFinal :> odosFinal)
SigmaDbLower == (ODOS :> odos) @@ (odos :> odos) @@ (odosFinal :> odosFinal)
=============================================================================
