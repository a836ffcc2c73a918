------------------------- MODULE ConnectionRecovery -------------------------
(***************************************************************************)
(* What the resilient client promises about its connection: at any time    *)
(* there is at most one recovery, it starts when a working connection is   *)
(* lost, and it ends with the connection restored, with the retry limit    *)
(* reached (if there is one), or with the client closed.                   *)
(***************************************************************************)
CONSTANT Limited   \* there is a retry limit

VARIABLES
    state,         \* "connected", "reconnecting" or "disconnected"
    recovering,    \* a recovery is going on
    stopped        \* the client is closed

vars == <<state, recovering, stopped>>

Init ==
    /\ \/ state = "connected" /\ ~recovering
       \/ state = "disconnected" /\ recovering
    /\ ~stopped

Lose ==
    /\ state = "connected"
    /\ ~recovering
    /\ state' = "disconnected"
    /\ recovering'
    /\ UNCHANGED stopped

Retry ==
    /\ recovering
    /\ state' = "reconnecting"
    /\ UNCHANGED <<recovering, stopped>>

Restore ==
    /\ recovering
    /\ state = "reconnecting"
    /\ state' = "connected"
    /\ ~recovering'
    /\ UNCHANGED stopped

(* The limit is reached, or the last attempt was cut short by closing.     *)
GiveUp ==
    /\ recovering
    /\ Limited
    /\ state = "reconnecting"
    /\ state' = "disconnected"
    /\ ~recovering'
    /\ UNCHANGED stopped

Stop ==
    /\ ~stopped
    /\ stopped'
    /\ UNCHANGED <<state, recovering>>

Abandon ==
    /\ stopped
    /\ recovering
    /\ ~recovering'
    /\ UNCHANGED <<state, stopped>>

Next == Lose \/ Retry \/ Restore \/ GiveUp \/ Stop \/ Abandon

Spec == Init /\ [][Next]_vars

=============================================================================
