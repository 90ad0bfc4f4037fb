----------------------------- MODULE ConfigSync -----------------------------
(***************************************************************************)
(* The limits of one room: config.apply on the listen loop, the limits     *)
(* menu of the device, the cache and the override file, the boot.          *)
(*                                                                         *)
(* Arranged like ScheduleSync, with two differences that matter: nothing   *)
(* is sent upstream, and neither the publish nor the edit awaits anything  *)
(* between its check and its assignments, so only file writes suspend.     *)
(***************************************************************************)
EXTENDS Integers, Sequences

CONSTANTS
    Typed,          \* what an operator may type, Settable or not
    Settable,       \* temperatures within MIN_SETTABLE_C..MAX_SETTABLE_C
    Published,      \* limits the owner may publish
    MaxConfigs,     \* bound: versions the server publishes
    MaxRevs,        \* bound: local edits
    MaxBadWrites    \* bound: writes to the card that fail

VARIABLES
    sent,       \* published documents, in order
    heard,      \* how many of them the device has applied
    doc,        \* the effective document; limits_guard reads its limits
    published,  \* the last published document the device holds
    revision,   \* local revision
    reported,   \* active_config_version
    onCard,     \* config_cache.json
    local,      \* config_local.json
    apply,      \* the config.apply being handled
    edit,       \* the operator's edit
    bad         \* failed writes

cvars == <<sent, heard, doc, published, revision, reported, onCard, local,
           apply, edit, bad>>
held  == <<doc, published, revision, reported>>

Unset   == -1
Fields  == {"max", "min"}
Limits  == [Fields -> Typed \cup {Unset}]
Blank   == [v |-> 0, limits |-> [f \in Fields |-> Unset]]
NoConfig == [v |-> 0, limits |-> <<>>]
NoLocal  == [doc |-> NoConfig, base |-> 0, rev |-> 0]
AtRest   == [pc |-> "idle", doc |-> NoConfig, was |-> 0]
NoEdit   == [pc |-> "idle", doc |-> NoConfig, token |-> <<0, 0>>]

(* A minimum at or above the maximum could never let a cut boiler recover. *)
Coherent(l) == l["max"] = Unset \/ l["min"] = Unset \/ l["min"] < l["max"]

CInit ==
    /\ sent = <<>> /\ heard = 0
    /\ doc = NoConfig /\ published = NoConfig /\ revision = 0 /\ reported = 0
    /\ onCard = NoConfig /\ local = NoLocal
    /\ apply = AtRest /\ edit = NoEdit
    /\ bad = 0

(* The owner of the room publishes; nothing checks the limits against each *)
(* other on the way.                                                       *)
OwnerSends ==
    /\ Len(sent) < MaxConfigs
    /\ \E l \in Published :
        sent' = Append(sent, [v |-> Len(sent) + 1, limits |-> l])
    /\ UNCHANGED <<heard, held, onCard, local, apply, edit, bad>>

Adopt(d, r) == doc' = d /\ revision' = r /\ reported' = d.v

(* The newest published document arrives: pushed, or after the next hello. *)
ConfigApply ==
    /\ apply.pc = "idle" /\ heard < Len(sent)
    /\ LET d == sent[Len(sent)] IN
        /\ heard' = Len(sent)
        /\ published' = d /\ Adopt(d, 0)
        /\ apply' = [pc |-> IF revision > 0 THEN "clear" ELSE "cache",
                     doc |-> d, was |-> doc.v]
    /\ UNCHANGED <<sent, onCard, local, edit, bad>>

WrittenOr(change) ==
    \/ change /\ bad' = bad
    \/ bad < MaxBadWrites /\ bad' = bad + 1 /\ UNCHANGED <<onCard, local>>

RemoveLocal ==
    /\ apply.pc = "clear"
    /\ WrittenOr(local' = NoLocal /\ onCard' = onCard)
    /\ apply' = [apply EXCEPT !.pc = "cache"]
    /\ UNCHANGED <<sent, heard, held, edit>>

(* Only when the version moved; was = 0 also stands for no config at all.  *)
CacheConfig ==
    /\ apply.pc = "cache"
    /\ IF apply.was # apply.doc.v
       THEN WrittenOr(onCard' = apply.doc /\ local' = local)
       ELSE UNCHANGED <<onCard, local, bad>>
    /\ apply' = AtRest
    /\ UNCHANGED <<sent, heard, held, edit>>

CurrentToken == <<published.v, revision>>
DocumentForEdit == IF doc = NoConfig THEN Blank ELSE doc

(* The prompt may stay open for minutes: what was typed meets the document *)
(* as it was when the prompt opened.                                       *)
ChangeLimit ==
    /\ edit.pc = "idle" /\ revision < MaxRevs
    /\ edit' = [pc |-> "prompt", doc |-> DocumentForEdit, token |-> CurrentToken]
    /\ UNCHANGED <<sent, heard, held, onCard, local, apply, bad>>

(* Cancelled, unreadable, out of range, incoherent, or changed meanwhile.  *)
Refused(t, l) == t \notin Settable \cup {Unset} \/ ~Coherent(l)
                 \/ edit.token # CurrentToken

TypeLimit ==
    /\ edit.pc = "prompt"
    /\ \E f \in Fields, t \in Typed \cup {Unset} :
        LET l == [edit.doc.limits EXCEPT ![f] = t] IN
        IF Refused(t, l)
        THEN edit' = NoEdit /\ UNCHANGED held
        ELSE /\ Adopt([v |-> edit.doc.v, limits |-> l], revision + 1)
             /\ published' = published
             /\ edit' = [edit EXCEPT !.pc = "save", !.doc = doc',
                                     !.token = <<published.v, revision + 1>>]
    /\ UNCHANGED <<sent, heard, onCard, local, apply, bad>>

(* A slip for SaveLocalConfig: the version is read when the file is        *)
(* written, not when the edit was made.                                    *)
SaveOnLatest ==
    /\ edit.pc = "save"
    /\ WrittenOr(/\ local' = [doc |-> edit.doc, base |-> published.v,
                              rev |-> edit.token[2]]
                 /\ onCard' = onCard)
    /\ edit' = NoEdit
    /\ UNCHANGED <<sent, heard, held, apply>>

SaveLocalConfig ==
    /\ edit.pc = "save"
    /\ WrittenOr(/\ local' = [doc |-> edit.doc, base |-> edit.token[1],
                              rev |-> edit.token[2]]
                 /\ onCard' = onCard)
    /\ edit' = NoEdit
    /\ UNCHANGED <<sent, heard, held, apply>>

(* The override is removed first: if that fails the edit stays in force.   *)
DiscardLimits ==
    /\ edit.pc = "idle" /\ revision > 0
    /\ edit' = [NoEdit EXCEPT !.pc = "discard"]
    /\ UNCHANGED <<sent, heard, held, onCard, local, apply, bad>>

RevertLimits ==
    /\ edit.pc = "discard"
    /\ edit' = NoEdit
    /\ \/ /\ local' = NoLocal /\ revision' = 0
            /\ doc' = published
          /\ reported' = IF published = NoConfig THEN reported ELSE published.v
          /\ UNCHANGED <<onCard, bad>>
       \/ /\ bad < MaxBadWrites /\ bad' = bad + 1
          /\ UNCHANGED <<local, onCard, doc, revision, reported>>
    /\ UNCHANGED <<sent, heard, published, apply>>

Restorable == local # NoLocal /\ local.base = onCard.v

Reboot ==
    /\ published' = onCard /\ apply' = AtRest /\ edit' = NoEdit
    /\ IF Restorable
       THEN Adopt(local.doc, local.rev) /\ local' = local
       ELSE Adopt(onCard, 0) /\ local' = NoLocal
    /\ heard' = onCard.v
    /\ UNCHANGED <<sent, onCard, bad>>

CNext == OwnerSends \/ ConfigApply \/ RemoveLocal \/ CacheConfig
         \/ ChangeLimit \/ TypeLimit \/ SaveLocalConfig
         \/ DiscardLimits \/ RevertLimits \/ Reboot

CSpec == CInit /\ [][CNext]_cvars
-----------------------------------------------------------------------------

(* The override a power cut would put back is the edit in force: with no   *)
(* write under way and none failed, no edit that was superseded, replaced  *)
(* or discarded is left where a restart finds it.                          *)
NoDeadLimits ==
    apply.pc = "idle" /\ edit.pc # "save" /\ bad = 0 /\ Restorable
    => doc = local.doc /\ revision = local.rev
=============================================================================
