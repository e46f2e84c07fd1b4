------------------------------ MODULE Outcome -------------------------------
(***************************************************************************)
(* What the functions of the crates return and are given: Option and       *)
(* Result, and the ChannelKind of kdf.rs.                                  *)
(***************************************************************************)

CONSTANTS
    None    \* Option::None

Ok(value) == [tag |-> "Ok", value |-> value]
Err(error) == [tag |-> "Err", error |-> error]

ChannelKind == {"mailbox", "slot"}

=============================================================================
