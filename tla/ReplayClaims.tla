---------------------------- MODULE ReplayClaims ----------------------------
(***************************************************************************)
(* What replay control promises, with no store, no lock and no clock:      *)
(* an attempt claims its nonce and its idempotency key together and only   *)
(* while both are free, a claim is for ever, and only an attempt that      *)
(* holds its claim dispatches, once.  CausalCell with a durable store      *)
(* implements this specification, across crashes and processes.            *)
(***************************************************************************)
CONSTANTS
    Attempts,     \* every call of CausalCell.execute, in any process
    NonceOf(_),   \* the nonce an attempt presents
    KeyOf(_)      \* the idempotency key an attempt presents

VARIABLES
    claimed,      \* attempts whose claim was granted
    dispatched    \* attempts whose executor was called

Conflict(a, b) == NonceOf(a) = NonceOf(b) \/ KeyOf(a) = KeyOf(b)

Init == claimed = {} /\ dispatched = {}

Claim(a) ==
    /\ \A b \in claimed : ~Conflict(a, b)
    /\ claimed' = claimed \cup {a}
    /\ UNCHANGED dispatched

Dispatch(a) ==
    /\ a \in claimed \ dispatched
    /\ dispatched' = dispatched \cup {a}
    /\ UNCHANGED claimed

Next == \E a \in Attempts : Claim(a) \/ Dispatch(a)

Spec == Init /\ [][Next]_<<claimed, dispatched>>
=============================================================================
