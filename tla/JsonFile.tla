------------------------------ MODULE JsonFile ------------------------------
(***************************************************************************)
(* How a document is saved (json_store.py): into a file beside it, which   *)
(* is then renamed over it, in a thread of its own.  The power may go at   *)
(* any point.  Of the file system it is assumed that a rename is one step  *)
(* and does not overtake the data it renames.                              *)
(*                                                                         *)
(* The file beside has one name, whoever saves.  With one writer at a time *)
(* this is a register; two that overlap write into each other's file.      *)
(***************************************************************************)
CONSTANTS
    Contents,   \* what is saved
    Writers,    \* the threads that may save the same document
    Nothing,    \* no file
    Torn        \* a file that is not, or not only, one document

ASSUME JsonAssumption == Nothing # Torn /\ {Nothing, Torn} \cap Contents = {}

VARIABLES
    file,       \* what is under the document's name
    temp,       \* what is under the other
    step,       \* step[w]: "idle", "opened" or "written"
    doc,        \* doc[w]: what w is saving, or Nothing
    handle      \* handle[w]: the name of the file w has open: "temp" or "file"

jsonVars == <<file, temp, step, doc, handle>>

JsonInit ==
    /\ file = Nothing /\ temp = Nothing
    /\ step = [w \in Writers |-> "idle"]
    /\ doc = [w \in Writers |-> Nothing]
    /\ handle = [w \in Writers |-> "temp"]

(* open(temp, "w") empties what is there, whosoever it is.                 *)
OpenTemp(w, d) ==
    /\ step[w] = "idle"
    /\ step' = [step EXCEPT ![w] = "opened"]
    /\ doc' = [doc EXCEPT ![w] = d]
    /\ handle' = [handle EXCEPT ![w] = "temp"]
    /\ temp' = Torn
    /\ UNCHANGED file

Overwrites(w) == (IF handle[w] = "temp" THEN temp ELSE file) # Torn

(* The document, over what another may have written there since: a shorter *)
(* one leaves the end of it behind.                                        *)
Write(w) ==
    /\ step[w] = "opened"
    /\ step' = [step EXCEPT ![w] = "written"]
    /\ \E content \in {doc[w]} \cup (IF Overwrites(w) THEN {Torn} ELSE {}) :
          IF handle[w] = "temp" THEN temp' = content /\ UNCHANGED file
                                ELSE file' = content /\ UNCHANGED temp
    /\ UNCHANGED <<doc, handle>>

(* A slip for Replace: renamed before it is written.                       *)
ReplaceEarly(w) ==
    /\ step[w] \in {"opened", "written"}
    /\ step' = [step EXCEPT ![w] = "idle"]
    /\ doc' = [doc EXCEPT ![w] = Nothing]
    /\ temp # Nothing /\ file' = temp /\ temp' = Nothing
    /\ UNCHANGED handle

(* os.replace(); those who still have the file open have it open under its *)
(* new name.  It raises if another writer has renamed it already.          *)
Replace(w) ==
    /\ step[w] = "written"
    /\ step' = [step EXCEPT ![w] = "idle"]
    /\ doc' = [doc EXCEPT ![w] = Nothing]
    /\ IF temp # Nothing
       THEN /\ file' = temp /\ temp' = Nothing
            /\ handle' = [v \in Writers |-> "file"]
       ELSE UNCHANGED <<file, temp, handle>>

(* What a writer had in hand is gone; what is under the names stays.       *)
PowerFails ==
    /\ step' = [w \in Writers |-> "idle"]
    /\ doc' = [w \in Writers |-> Nothing]
    /\ UNCHANGED <<file, temp, handle>>

JsonNext ==
    \/ PowerFails
    \/ \E w \in Writers :
          Write(w) \/ Replace(w) \/ \E d \in Contents : OpenTemp(w, d)

JsonSpec == JsonInit /\ [][JsonNext]_jsonVars

(* ------------------------------ properties ----------------------------- *)

(* json_store.py: "a power cut on the Pi cannot leave a half-written       *)
(* document behind".  Saving implements a register.                        *)
Saved == INSTANCE Register WITH value <- file, asked <- doc, Documents <- Contents

ImplementsRegister == Saved!RegisterSpec

=============================================================================
