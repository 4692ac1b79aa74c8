--------------------------- MODULE DurableRecord ---------------------------
(***************************************************************************)
(* What atomic_io.py promises of one strict state file, and what           *)
(* PairingState assumes of each of its files: a change is made visible as  *)
(* a whole, it is reported only when nothing else can come back, and a     *)
(* power loss before that leaves an earlier contents, never a torn one.    *)
(***************************************************************************)
CONSTANTS
    Values,   \* contents, the absent file among them
    Absent,   \* the absent file
    NoValue   \* no change is under way

VARIABLES
    visible,  \* what a reader sees
    kept,     \* what a power loss may leave
    wanted    \* the contents that the change under way is to establish

record == <<visible, kept, wanted>>

Init == visible = Absent /\ kept = {Absent} /\ wanted = NoValue

\* A change to new contents, to the absent file, or to what is visible already.
Asks(v) ==
    /\ wanted = NoValue
    /\ wanted' = v
    /\ UNCHANGED <<visible, kept>>

Changes ==
    /\ wanted # NoValue
    /\ visible' = wanted /\ kept' = kept \cup {wanted}
    /\ UNCHANGED wanted

\* Success is reported.
Commits ==
    /\ wanted # NoValue /\ visible = wanted
    /\ kept' = {visible} /\ wanted' = NoValue
    /\ UNCHANGED visible

\* An error is reported, or the process dies.
Fails ==
    /\ wanted # NoValue
    /\ wanted' = NoValue
    /\ UNCHANGED <<visible, kept>>

PowerLoss ==
    /\ visible' \in kept /\ kept' = {visible'}
    /\ wanted' = NoValue

Next == (\E v \in Values : Asks(v)) \/ Changes \/ Commits \/ Fails \/ PowerLoss

Spec == Init /\ [][Next]_record
=============================================================================
