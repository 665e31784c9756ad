---------------------------- MODULE ClaimService ----------------------------
(***************************************************************************)
(* What a replay store promises its callers, with no transactions: a call  *)
(* claims all its names at once and only while every one is free, a claim  *)
(* is for ever, and an answer is true when it is given.  A granted call    *)
(* may never hear of it (its process died), but a call is never told that  *)
(* it was granted, or forestalled, when it was not.  Module SQLiteStore    *)
(* implements this specification.                                          *)
(***************************************************************************)
CONSTANTS
    Calls,
    NamesOf(_),   \* the names a call claims: nonce and idempotency key, or run key
    None

VARIABLES
    granted,      \* calls whose claim is in the store
    told          \* call -> what its caller was told: None so far

Conflict(c, d) == NamesOf(c) \cap NamesOf(d) # {}

Init == granted = {} /\ told = [c \in Calls |-> None]

Grant(c) ==
    /\ told[c] = None
    /\ \A d \in granted : ~Conflict(c, d)
    /\ granted' = granted \cup {c}
    /\ UNCHANGED told

TellGranted(c) ==
    /\ c \in granted
    /\ told' = [told EXCEPT ![c] = "granted"]
    /\ UNCHANGED granted

\* Only somebody else's claim is a replay.
TellReplayed(c) ==
    /\ c \notin granted
    /\ \E d \in granted : Conflict(c, d)
    /\ told' = [told EXCEPT ![c] = "replayed"]
    /\ UNCHANGED granted

TellInvalid(c) ==
    /\ c \notin granted
    /\ told' = [told EXCEPT ![c] = "invalid"]
    /\ UNCHANGED granted

Next == \E c \in Calls : Grant(c) \/ TellGranted(c) \/ TellReplayed(c) \/ TellInvalid(c)

Spec == Init /\ [][Next]_<<granted, told>>
=============================================================================
