------------------------------ MODULE Register ------------------------------
(***************************************************************************)
(* What whoever saves a document on the device relies on: a register that  *)
(* changes from one whole document to the next, that holds the new one     *)
(* when the save has come back, and that a power cut leaves alone.         *)
(***************************************************************************)
CONSTANTS
    Documents,  \* what may be saved
    Writers,    \* who saves
    Nothing     \* what is read before anything was saved

VARIABLES
    value,      \* what a reader finds
    asked       \* asked[w]: the document w is saving, or Nothing

registerVars == <<value, asked>>

RegisterInit == value = Nothing /\ asked = [w \in Writers |-> Nothing]

Ask(w, d) ==
    /\ asked[w] = Nothing
    /\ asked' = [asked EXCEPT ![w] = d]
    /\ UNCHANGED value

Put(w) ==
    /\ asked[w] # Nothing
    /\ value' = asked[w]
    /\ asked' = [asked EXCEPT ![w] = Nothing]

PowerCut == asked' = [w \in Writers |-> Nothing] /\ UNCHANGED value

RegisterNext ==
    \/ PowerCut
    \/ \E w \in Writers : Put(w) \/ \E d \in Documents : Ask(w, d)

RegisterSpec == RegisterInit /\ [][RegisterNext]_registerVars
=============================================================================
