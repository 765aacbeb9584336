----------------------------- MODULE MemoryGuard -----------------------------
(***************************************************************************)
(* The memory guard of a hosted tunnel (struct Guard in                    *)
(* crates/core/src/packet.rs): above one footprint it refuses new flows,   *)
(* above a higher one it closes every connection.  The footprint is read   *)
(* from the operating system, so each check takes any reading.             *)
(***************************************************************************)
EXTENDS Clock, Integers

CONSTANTS
    Footprint,      \* the readings memory::usage() can return
    ShedAbove,      \* Budget::shed_above
    CloseAbove,     \* Budget::close_above
    RecoverMargin,  \* RECOVER_MARGIN
    CloseCooldown,  \* CLOSE_COOLDOWN
    CloseEvery      \* the five seconds between two closes

ASSUME MemoryGuardAssumption ==
    /\ Footprint \subseteq Nat
    /\ ShedAbove \in Nat
    /\ CloseAbove \in Nat
    /\ ShedAbove < CloseAbove
    /\ RecoverMargin \in Nat
    /\ CloseCooldown \in Nat
    /\ CloseEvery \in Nat
    /\ CloseCooldown <= CloseEvery

VARIABLES
    closedAt,   \* when every connection was last closed: {} or {time}
    shedding    \* new flows are refused

guardVars == <<closedAt, shedding>>

GuardInit ==
    /\ ClockInit
    /\ closedAt = {}
    /\ shedding = FALSE

MayClose == \A at \in closedAt : now - at >= CloseEvery
Cooling(at) == now - at < CloseCooldown
Closes(footprint) == footprint >= CloseAbove /\ MayClose

\* Mutant: recovery looks at the footprint alone.
ShedsByFootprint(footprint) ==
    IF shedding THEN footprint + RecoverMargin >= ShedAbove ELSE footprint >= ShedAbove

Sheds(footprint) ==
    IF shedding
    THEN \/ footprint + RecoverMargin >= ShedAbove
         \/ \E at \in closedAt' : Cooling(at)
    ELSE footprint >= ShedAbove \/ Closes(footprint)

\* decide: the closing time first, then the refusing state.
Decide(footprint) ==
    /\ closedAt' = IF Closes(footprint) THEN {now} ELSE closedAt
    /\ shedding' = Sheds(footprint)

GuardNext ==
    \/ \E footprint \in Footprint : Decide(footprint) /\ UNCHANGED now
    \/ Advance /\ UNCHANGED guardVars

GuardSpec == GuardInit /\ [][GuardNext]_<<guardVars, now>>

=============================================================================
