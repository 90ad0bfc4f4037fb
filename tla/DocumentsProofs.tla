-------------------------- MODULE DocumentsProofs ---------------------------
(***************************************************************************)
(* What is proved of a room's two documents: of its limits (ConfigSync),   *)
(* that the override a power cut would put back is the edit in force; of   *)
(* its programme (ScheduleSync), that what is reported is what runs, that  *)
(* published versions do not regress, and that no dead edit comes back.    *)
(***************************************************************************)
EXTENDS ScheduleSync, ConfigSync, TLAPS

(* ------------------------------ the limits ----------------------------- *)

LimitsTypes ==
    /\ sent \in Seq([v : Nat, limits : Published])
    /\ apply = [pc |-> apply.pc, doc |-> apply.doc, was |-> apply.was]
    /\ edit = [pc |-> edit.pc, doc |-> edit.doc, token |-> edit.token]
    /\ apply.pc \in {"idle", "clear", "cache"}
    /\ edit.pc \in {"idle", "prompt", "save", "discard"}
    /\ bad \in Nat

(* Whatever the device holds is at most as new as what it last published   *)
(* of the server's, and an override at most as new as what it sits on.     *)
Behind ==
    /\ \A i \in 1..Len(sent) : sent[i].v = i
    /\ heard \in 0..Len(sent) /\ published.v \in 0..heard
    /\ doc.v \in 0..published.v /\ onCard.v \in 0..published.v
    /\ local.base \in 0..published.v /\ local.doc.v \in 0..local.base
    /\ apply.pc # "idle" => apply.doc = published /\ apply.was \in 0..(published.v - 1)
    /\ edit.pc \in {"prompt", "save"} => edit.doc.v \in 0..published.v
    /\ edit.pc = "save" => /\ edit.token[1] \in 0..published.v
                           /\ edit.doc.v \in 0..edit.token[1]

(* As long as no write has failed: a publish that is not cached yet is on  *)
(* its way to the card, and an edit of the published version that is not   *)
(* in force is on its way out.                                             *)
CleanCard ==
    /\ apply.pc = "idle" => onCard.v = published.v
    /\ edit.pc = "save" /\ edit.token[1] = published.v
          => doc = edit.doc /\ revision = edit.token[2]
    /\ edit.pc # "save" /\ local # NoLocal /\ local.base = published.v
          => doc = local.doc /\ revision = local.rev

LimitsInv == LimitsTypes /\ Behind /\ (bad = 0 => CleanCard)

LEMMA LimitsInit == CInit => LimitsInv
<1> SUFFICES ASSUME CInit PROVE LimitsInv
  OBVIOUS
<1> USE DEF CInit
<1>1. sent = <<>> /\ Len(sent) = 0 /\ sent \in Seq([v : Nat, limits : Published])
  OBVIOUS
<1>2. LimitsTypes
  BY <1>1 DEF LimitsTypes, AtRest, NoEdit
<1>3. Behind
  BY <1>1 DEF Behind, NoConfig, NoLocal, NoEdit, AtRest
<1>4. CleanCard
  BY DEF CleanCard, NoConfig, NoLocal, NoEdit, AtRest
<1> QED
  BY <1>2, <1>3, <1>4 DEF LimitsInv

LEMMA OwnerSendsKeeps == LimitsInv /\ OwnerSends => LimitsInv'
<1> SUFFICES ASSUME LimitsInv, OwnerSends PROVE LimitsInv'
  OBVIOUS
<1>1. PICK l \in Published : sent' = Append(sent, [v |-> Len(sent) + 1, limits |-> l])
  BY DEF OwnerSends
<1>2. /\ heard' = heard /\ doc' = doc /\ published' = published /\ revision' = revision
      /\ onCard' = onCard /\ local' = local /\ apply' = apply /\ edit' = edit /\ bad' = bad
  BY DEF OwnerSends, held
<1>3. sent \in Seq([v : Nat, limits : Published]) /\ Len(sent) \in Nat
  BY DEF LimitsInv, LimitsTypes
<1>4. [v |-> Len(sent) + 1, limits |-> l] \in [v : Nat, limits : Published]
  BY <1>3
<1>5. sent' \in Seq([v : Nat, limits : Published]) /\ Len(sent') = Len(sent) + 1
  BY <1>1, <1>3, <1>4
<1>6. \A i \in 1..Len(sent') : sent'[i].v = i
  <2> TAKE i \in 1..Len(sent')
  <2>1. CASE i = Len(sent) + 1
    BY <1>1, <1>3, <2>1
  <2>2. CASE i \in 1..Len(sent)
    <3>1. sent'[i] = sent[i]
      BY <1>1, <1>3, <2>2
    <3> QED
      BY <2>2, <3>1 DEF LimitsInv, Behind
  <2> QED
    BY <1>3, <1>5, <2>1, <2>2
<1>7. LimitsTypes'
  BY <1>2, <1>5 DEF LimitsInv, LimitsTypes
<1>8. Behind'
  BY <1>2, <1>3, <1>5, <1>6 DEF LimitsInv, Behind
<1>9. (bad = 0 => CleanCard)'
  BY <1>2 DEF LimitsInv, CleanCard
<1> QED
  BY <1>7, <1>8, <1>9 DEF LimitsInv

LEMMA ConfigApplyKeeps == LimitsInv /\ ConfigApply => LimitsInv'
<1> SUFFICES ASSUME LimitsInv, ConfigApply PROVE LimitsInv'
  OBVIOUS
<1> DEFINE d == sent[Len(sent)]
<1>1. /\ apply.pc = "idle" /\ heard < Len(sent) /\ heard' = Len(sent)
      /\ published' = d /\ doc' = d /\ revision' = 0
      /\ apply' = [pc |-> IF revision > 0 THEN "clear" ELSE "cache", doc |-> d, was |-> doc.v]
      /\ sent' = sent /\ onCard' = onCard /\ local' = local /\ edit' = edit /\ bad' = bad
  BY DEF ConfigApply, Adopt
<1>2. /\ Len(sent) \in Nat /\ heard \in 0..Len(sent) /\ published.v \in 0..heard
      /\ Len(sent) \in 1..Len(sent)
  BY <1>1 DEF LimitsInv, LimitsTypes, Behind
<1>3. d.v = Len(sent) /\ published.v < d.v
  BY <1>1, <1>2 DEF LimitsInv, Behind
<1>4. apply'.pc \in {"clear", "cache"} /\ apply'.doc = d /\ apply'.was = doc.v
  BY <1>1
<1> HIDE DEF d
<1>5. LimitsTypes'
  BY <1>1, <1>4 DEF LimitsInv, LimitsTypes
<1>6. Behind'
  <2>1. published'.v = d.v /\ doc'.v = d.v
    BY <1>1
  <2> QED
    BY <1>1, <1>2, <1>3, <1>4, <2>1 DEF LimitsInv, Behind
<1>7. (bad = 0 => CleanCard)'
  <2> SUFFICES ASSUME bad' = 0 PROVE CleanCard'
    OBVIOUS
  <2>1. published'.v = d.v
    BY <1>1
  <2>2. apply'.pc # "idle"
    BY <1>4
  <2>3. edit'.pc = "save" => edit'.token[1] # published'.v
    BY <1>1, <1>2, <1>3, <2>1 DEF LimitsInv, Behind
  <2>4. local'.base # published'.v
    BY <1>1, <1>2, <1>3, <2>1 DEF LimitsInv, Behind
  <2> QED
    BY <2>2, <2>3, <2>4 DEF CleanCard
<1> QED
  BY <1>5, <1>6, <1>7 DEF LimitsInv

LEMMA RemoveLocalKeeps == LimitsInv /\ RemoveLocal => LimitsInv'
<1> SUFFICES ASSUME LimitsInv, RemoveLocal PROVE LimitsInv'
  OBVIOUS
<1>1. /\ apply.pc = "clear" /\ apply' = [apply EXCEPT !.pc = "cache"]
      /\ sent' = sent /\ heard' = heard /\ doc' = doc /\ published' = published
      /\ revision' = revision /\ edit' = edit
  BY DEF RemoveLocal, held
<1>2. apply'.pc = "cache" /\ apply'.doc = apply.doc /\ apply'.was = apply.was
      /\ apply' = [pc |-> apply'.pc, doc |-> apply'.doc, was |-> apply'.was]
  BY <1>1 DEF LimitsInv, LimitsTypes
<1>3. onCard' = onCard /\ bad \in Nat
  BY DEF RemoveLocal, WrittenOr, LimitsInv, LimitsTypes
<1>4. CASE local' = NoLocal /\ bad' = bad
  <2>1. LimitsTypes'
    BY <1>1, <1>2, <1>3, <1>4 DEF LimitsInv, LimitsTypes
  <2>2. Behind'
    BY <1>1, <1>2, <1>3, <1>4 DEF LimitsInv, Behind, NoLocal, NoConfig
  <2>3. (bad = 0 => CleanCard)'
    BY <1>1, <1>2, <1>3, <1>4 DEF LimitsInv, CleanCard
  <2> QED
    BY <2>1, <2>2, <2>3 DEF LimitsInv
<1>5. CASE local' = local /\ bad' = bad + 1
  <2>1. LimitsTypes' /\ bad' # 0
    BY <1>1, <1>2, <1>3, <1>5 DEF LimitsInv, LimitsTypes
  <2>2. Behind'
    BY <1>1, <1>2, <1>3, <1>5 DEF LimitsInv, Behind
  <2> QED
    BY <2>1, <2>2 DEF LimitsInv
<1> QED
  BY <1>4, <1>5 DEF RemoveLocal, WrittenOr

LEMMA CacheConfigKeeps == LimitsInv /\ CacheConfig => LimitsInv'
<1> SUFFICES ASSUME LimitsInv, CacheConfig PROVE LimitsInv'
  OBVIOUS
<1>1. /\ apply.pc = "cache" /\ apply' = AtRest /\ local' = local
      /\ sent' = sent /\ heard' = heard /\ doc' = doc /\ published' = published
      /\ revision' = revision /\ edit' = edit
  BY DEF CacheConfig, held, WrittenOr
<1>2. /\ apply'.pc = "idle" /\ bad \in Nat
      /\ apply' = [pc |-> apply'.pc, doc |-> apply'.doc, was |-> apply'.was]
  BY <1>1 DEF AtRest, LimitsInv, LimitsTypes
<1>3. LimitsTypes' /\ (bad' = bad \/ bad' # 0)
  BY <1>1, <1>2 DEF CacheConfig, WrittenOr, LimitsInv, LimitsTypes
<1>4. onCard' = apply.doc \/ onCard' = onCard
  BY DEF CacheConfig, WrittenOr
<1>5. /\ apply.doc = published /\ apply.was \in 0..(published.v - 1) /\ published.v \in Nat
      /\ apply.was # apply.doc.v
  BY <1>1 DEF LimitsInv, Behind
<1>6. bad' = 0 => bad = 0 /\ onCard' = published
  BY <1>2, <1>5 DEF CacheConfig, WrittenOr
<1>7. Behind'
  BY <1>1, <1>2, <1>4, <1>5 DEF LimitsInv, Behind
<1>8. (bad = 0 => CleanCard)'
  BY <1>1, <1>2, <1>6 DEF LimitsInv, CleanCard
<1> QED
  BY <1>3, <1>7, <1>8 DEF LimitsInv

LEMMA PromptKeeps == LimitsInv /\ (ChangeLimit \/ DiscardLimits) => LimitsInv'
<1> SUFFICES ASSUME LimitsInv, ChangeLimit \/ DiscardLimits PROVE LimitsInv'
  OBVIOUS
<1>1. /\ edit.pc = "idle"
      /\ sent' = sent /\ heard' = heard /\ doc' = doc /\ published' = published
      /\ revision' = revision /\ onCard' = onCard /\ local' = local /\ apply' = apply
      /\ bad' = bad
  BY DEF ChangeLimit, DiscardLimits, held
<1>2. /\ edit' = [pc |-> edit'.pc, doc |-> edit'.doc, token |-> edit'.token]
      /\ edit'.pc \in {"prompt", "discard"}
      /\ edit'.pc = "prompt" => edit'.doc = DocumentForEdit
  BY DEF ChangeLimit, DiscardLimits, NoEdit
<1>3. DocumentForEdit.v \in 0..published.v
  BY DEF DocumentForEdit, Blank, LimitsInv, Behind
<1>4. LimitsTypes'
  BY <1>1, <1>2 DEF LimitsInv, LimitsTypes
<1>5. Behind'
  BY <1>1, <1>2, <1>3 DEF LimitsInv, Behind
<1>6. (bad = 0 => CleanCard)'
  BY <1>1, <1>2 DEF LimitsInv, CleanCard
<1> QED
  BY <1>4, <1>5, <1>6 DEF LimitsInv

LEMMA TypeLimitKeeps == LimitsInv /\ TypeLimit => LimitsInv'
<1> SUFFICES ASSUME LimitsInv, TypeLimit PROVE LimitsInv'
  OBVIOUS
<1>1. /\ edit.pc = "prompt" /\ sent' = sent /\ heard' = heard /\ onCard' = onCard
      /\ local' = local /\ apply' = apply /\ bad' = bad
  BY DEF TypeLimit
<1>2. CASE edit' = NoEdit /\ UNCHANGED held
  <2>1. edit'.pc = "idle" /\ edit' = [pc |-> edit'.pc, doc |-> edit'.doc, token |-> edit'.token]
    BY <1>2 DEF NoEdit
  <2>2. doc' = doc /\ published' = published /\ revision' = revision
    BY <1>2 DEF held
  <2>3. LimitsTypes'
    BY <1>1, <2>1, <2>2 DEF LimitsInv, LimitsTypes
  <2>4. Behind'
    BY <1>1, <2>1, <2>2 DEF LimitsInv, Behind
  <2>5. (bad = 0 => CleanCard)'
    BY <1>1, <2>1, <2>2 DEF LimitsInv, CleanCard
  <2> QED
    BY <2>3, <2>4, <2>5 DEF LimitsInv
<1>3. CASE \E l : /\ Adopt([v |-> edit.doc.v, limits |-> l], revision + 1)
                  /\ published' = published
                  /\ edit' = [edit EXCEPT !.pc = "save", !.doc = doc',
                                          !.token = <<published.v, revision + 1>>]
  <2>1. /\ doc'.v = edit.doc.v /\ revision' = revision + 1 /\ published' = published
        /\ edit' = [edit EXCEPT !.pc = "save", !.doc = doc',
                                !.token = <<published.v, revision + 1>>]
    BY <1>3 DEF Adopt
  <2>2. /\ edit'.pc = "save" /\ edit'.doc = doc' /\ edit'.token = <<published.v, revision + 1>>
        /\ edit' = [pc |-> edit'.pc, doc |-> edit'.doc, token |-> edit'.token]
    BY <2>1 DEF LimitsInv, LimitsTypes
  <2>3. edit'.token[1] = published.v /\ edit'.token[2] = revision'
    BY <2>1, <2>2
  <2>4. LimitsTypes'
    BY <1>1, <2>2 DEF LimitsInv, LimitsTypes
  <2>5. Behind'
    BY <1>1, <2>1, <2>2, <2>3 DEF LimitsInv, Behind
  <2>6. (bad = 0 => CleanCard)'
    BY <1>1, <2>1, <2>2, <2>3 DEF LimitsInv, CleanCard
  <2> QED
    BY <2>4, <2>5, <2>6 DEF LimitsInv
<1> QED
  BY <1>2, <1>3 DEF TypeLimit

LEMMA SaveLocalConfigKeeps == LimitsInv /\ SaveLocalConfig => LimitsInv'
<1> SUFFICES ASSUME LimitsInv, SaveLocalConfig PROVE LimitsInv'
  OBVIOUS
<1>1. /\ edit.pc = "save" /\ edit' = NoEdit /\ sent' = sent /\ heard' = heard /\ doc' = doc
      /\ published' = published /\ revision' = revision /\ apply' = apply /\ onCard' = onCard
  BY DEF SaveLocalConfig, held, WrittenOr
<1>2. edit'.pc = "idle" /\ edit' = [pc |-> edit'.pc, doc |-> edit'.doc, token |-> edit'.token]
  BY <1>1 DEF NoEdit
<1>3. CASE /\ local' = [doc |-> edit.doc, base |-> edit.token[1], rev |-> edit.token[2]]
           /\ bad' = bad
  <2>1. local'.doc = edit.doc /\ local'.base = edit.token[1] /\ local'.rev = edit.token[2]
    BY <1>3
  <2>2. LimitsTypes'
    BY <1>1, <1>2, <1>3 DEF LimitsInv, LimitsTypes
  <2>3. Behind'
    BY <1>1, <1>2, <2>1 DEF LimitsInv, Behind
  <2>4. (bad = 0 => CleanCard)'
    BY <1>1, <1>2, <1>3, <2>1 DEF LimitsInv, CleanCard
  <2> QED
    BY <2>2, <2>3, <2>4 DEF LimitsInv
<1>4. CASE local' = local /\ bad' = bad + 1
  <2>1. LimitsTypes' /\ bad' # 0
    BY <1>1, <1>2, <1>4 DEF LimitsInv, LimitsTypes
  <2>2. Behind'
    BY <1>1, <1>2, <1>4 DEF LimitsInv, Behind
  <2> QED
    BY <2>1, <2>2 DEF LimitsInv
<1> QED
  BY <1>3, <1>4 DEF SaveLocalConfig, WrittenOr

LEMMA RevertLimitsKeeps == LimitsInv /\ RevertLimits => LimitsInv'
<1> SUFFICES ASSUME LimitsInv, RevertLimits PROVE LimitsInv'
  OBVIOUS
<1>1. /\ edit.pc = "discard" /\ edit' = NoEdit /\ sent' = sent /\ heard' = heard
      /\ published' = published /\ apply' = apply /\ onCard' = onCard
  BY DEF RevertLimits
<1>2. edit'.pc = "idle" /\ edit' = [pc |-> edit'.pc, doc |-> edit'.doc, token |-> edit'.token]
  BY <1>1 DEF NoEdit
<1>3. CASE local' = NoLocal /\ doc' = published /\ bad' = bad
  <2>1. LimitsTypes'
    BY <1>1, <1>2, <1>3 DEF LimitsInv, LimitsTypes
  <2>2. Behind'
    BY <1>1, <1>2, <1>3 DEF LimitsInv, Behind, NoLocal, NoConfig
  <2>3. (bad = 0 => CleanCard)'
    BY <1>1, <1>2, <1>3 DEF LimitsInv, CleanCard
  <2> QED
    BY <2>1, <2>2, <2>3 DEF LimitsInv
<1>4. CASE bad' = bad + 1 /\ local' = local /\ doc' = doc /\ revision' = revision
  <2>1. LimitsTypes' /\ bad' # 0
    BY <1>1, <1>2, <1>4 DEF LimitsInv, LimitsTypes
  <2>2. Behind'
    BY <1>1, <1>2, <1>4 DEF LimitsInv, Behind
  <2> QED
    BY <2>1, <2>2 DEF LimitsInv
<1> QED
  BY <1>3, <1>4 DEF RevertLimits

LEMMA RebootKeeps == LimitsInv /\ Reboot => LimitsInv'
<1> SUFFICES ASSUME LimitsInv, Reboot PROVE LimitsInv'
  OBVIOUS
<1>1. /\ published' = onCard /\ apply' = AtRest /\ edit' = NoEdit /\ heard' = onCard.v
      /\ sent' = sent /\ onCard' = onCard /\ bad' = bad
  BY DEF Reboot
<1>2. /\ edit'.pc = "idle" /\ edit' = [pc |-> edit'.pc, doc |-> edit'.doc, token |-> edit'.token]
      /\ apply'.pc = "idle" /\ apply' = [pc |-> apply'.pc, doc |-> apply'.doc, was |-> apply'.was]
  BY <1>1 DEF NoEdit, AtRest
<1>3. LimitsTypes'
  BY <1>1, <1>2 DEF LimitsInv, LimitsTypes
<1>4. CASE Restorable
  <2>1. doc' = local.doc /\ revision' = local.rev /\ local' = local /\ local.base = onCard.v
    BY <1>4 DEF Reboot, Restorable, Adopt
  <2>2. Behind'
    BY <1>1, <1>2, <2>1 DEF LimitsInv, Behind
  <2>3. (bad = 0 => CleanCard)'
    BY <1>1, <1>2, <2>1 DEF LimitsInv, CleanCard
  <2> QED
    BY <1>3, <2>2, <2>3 DEF LimitsInv
<1>5. CASE ~Restorable
  <2>1. doc' = onCard /\ local' = NoLocal
    BY <1>5 DEF Reboot, Adopt
  <2>2. Behind'
    BY <1>1, <1>2, <2>1 DEF LimitsInv, Behind, NoLocal, NoConfig
  <2>3. (bad = 0 => CleanCard)'
    BY <1>1, <1>2, <2>1 DEF LimitsInv, CleanCard
  <2> QED
    BY <1>3, <2>2, <2>3 DEF LimitsInv
<1> QED
  BY <1>4, <1>5

(* For any limits, publishes and edits, wherever the power goes: with no   *)
(* write under way and none failed, what a restart would restore is the    *)
(* edit in force.                                                          *)
THEOREM NoDeadLimitsReturn == CSpec => []NoDeadLimits
<1>1. LimitsInv /\ [CNext]_cvars => LimitsInv'
  <2> SUFFICES ASSUME LimitsInv, [CNext]_cvars PROVE LimitsInv'
    OBVIOUS
  <2>1. CASE UNCHANGED cvars
    <3>1. /\ sent' = sent /\ heard' = heard /\ doc' = doc /\ published' = published
          /\ revision' = revision /\ onCard' = onCard /\ local' = local /\ apply' = apply
          /\ edit' = edit /\ bad' = bad
      BY <2>1 DEF cvars
    <3> QED
      BY <3>1 DEF LimitsInv, LimitsTypes, Behind, CleanCard
  <2> QED
    BY <2>1, OwnerSendsKeeps, ConfigApplyKeeps, RemoveLocalKeeps, CacheConfigKeeps, PromptKeeps,
       TypeLimitKeeps, SaveLocalConfigKeeps, RevertLimitsKeeps, RebootKeeps DEF CNext
<1>2. LimitsInv => NoDeadLimits
  BY DEF LimitsInv, Behind, CleanCard, NoDeadLimits, Restorable
<1> QED
  BY LimitsInit, <1>1, <1>2, PTL DEF CSpec

(* ----------------------------- the programme --------------------------- *)

(* What can have been seen outside the editor that is open: everything but *)
(* the edit being made in it.                                              *)
Entered == IF menu.pc \in {"editing", "parse"} THEN edits - 1 ELSE edits
Old     == {NoContent} \cup {Pub(v) : v \in 1..MaxVersion} \cup {Edit(n) : n \in 1..Entered}
OldDocs == [c : Old, v : 0..MaxVersion]
Message == [type : {"push"}, doc : OldDocs] \cup [type : {"ack"}, v : 0..MaxVersion] \cup {Refusal}
Handling == {"idle", "parse", "clear", "cache", "relabel", "settle"}
AtWork   == {"idle", "editing", "parse", "save", "publish", "discard", "revert"}

ServerTypes ==
    /\ room \in Seq(Old) /\ up \in Seq(Old) /\ down \in Seq(Message)
    /\ Len(room) <= MaxVersion

DeviceTypes ==
    /\ inForce \in OldDocs /\ base \in OldDocs /\ cache \in OldDocs
    /\ override \in [c : Old, v : 0..MaxVersion, base : 0..MaxVersion, rev : Nat]
    /\ rev \in Nat
    /\ listen \in [pc : Handling, doc : OldDocs, was : 0..MaxVersion, beaten : Old]
    /\ dead \subseteq Old

MenuTypes ==
    /\ edits \in Nat
    /\ menu \in [pc : AtWork, doc : [c : Old \cup {Edit(edits)}, v : 0..MaxVersion],
                 token : (0..MaxVersion) \X Nat]
    /\ menu.pc \in {"editing", "parse"} => menu.doc.c = Edit(edits) /\ edits # 0
    /\ menu.pc \in {"save", "publish", "revert"} => menu.doc.c \in Old

ProgrammeTypes == ServerTypes /\ DeviceTypes /\ MenuTypes

LEMMA Bounds == MaxVersion \in Nat
BY ScheduleSyncAssumption

LEMMA AppendSeq ==
    ASSUME NEW T, NEW s \in Seq(T), NEW e \in T
    PROVE  Append(s, e) \in Seq(T) /\ Len(Append(s, e)) = Len(s) + 1
OBVIOUS

LEMMA TailSeq ==
    ASSUME NEW T, NEW s \in Seq(T), s # <<>>
    PROVE  Tail(s) \in Seq(T) /\ Head(s) \in T
OBVIOUS

LEMMA OldFacts ==
    /\ NoContent \in Old /\ \A v \in 1..MaxVersion : Pub(v) \in Old
    /\ Nothing \in OldDocs
    /\ Idle \in [pc : Handling, doc : OldDocs, was : 0..MaxVersion, beaten : Old]
    /\ NoFile \in [c : Old, v : 0..MaxVersion, base : 0..MaxVersion, rev : Nat]
<1>1. NoContent \in Old /\ \A v \in 1..MaxVersion : Pub(v) \in Old
  BY DEF Old
<1>2. 0 \in 0..MaxVersion
  BY Bounds
<1>3. Nothing \in OldDocs
  BY <1>1, <1>2 DEF Nothing, OldDocs
<1>4. NoFile \in [c : Old, v : 0..MaxVersion, base : 0..MaxVersion, rev : Nat]
  BY <1>1, <1>2 DEF NoFile
<1>5. Idle \in [pc : Handling, doc : OldDocs, was : 0..MaxVersion, beaten : Old]
  BY <1>1, <1>2, <1>3 DEF Idle, Handling
<1> QED
  BY <1>1, <1>3, <1>4, <1>5

LEMMA SameOld ==
    ASSUME Entered' = Entered
    PROVE  Old' = Old /\ OldDocs' = OldDocs /\ Message' = Message
<1>1. Old' = Old
  BY DEF Old
<1>2. OldDocs' = OldDocs
  BY <1>1 DEF OldDocs
<1> QED
  BY <1>1, <1>2 DEF Message

LEMMA MoreOld ==
    ASSUME ProgrammeTypes, edits' = edits, menu'.pc \notin {"editing", "parse"}
    PROVE  /\ Old \subseteq Old' /\ OldDocs \subseteq OldDocs' /\ Message \subseteq Message'
           /\ Edit(edits) \in Old' \/ edits = 0
<1>1. edits \in Nat /\ Entered' = edits /\ (Entered = edits \/ Entered = edits - 1)
  BY DEF ProgrammeTypes, MenuTypes, Entered
<1>2. 1..Entered \subseteq 1..edits
  BY <1>1
<1>3. Old \subseteq Old'
  BY <1>1, <1>2 DEF Old
<1>4. OldDocs \subseteq OldDocs'
  BY <1>3 DEF OldDocs
<1>5. Message \subseteq Message'
  BY <1>4 DEF Message
<1>6. Edit(edits) \in Old' \/ edits = 0
  BY <1>1 DEF Old
<1> QED
  BY <1>3, <1>4, <1>5, <1>6

(* What was typed stays typed when more has been entered.                  *)
LEMMA GrowOld ==
    ASSUME ServerTypes, DeviceTypes,
           Old \subseteq Old', OldDocs \subseteq OldDocs', Message \subseteq Message'
    PROVE  /\ room \in Seq(Old') /\ up \in Seq(Old') /\ down \in Seq(Message')
           /\ inForce \in OldDocs' /\ base \in OldDocs' /\ cache \in OldDocs'
           /\ override \in [c : Old', v : 0..MaxVersion, base : 0..MaxVersion, rev : Nat]
           /\ listen \in [pc : Handling, doc : OldDocs', was : 0..MaxVersion, beaten : Old']
           /\ dead \subseteq Old'
<1>1. /\ room \in Seq(Old') /\ up \in Seq(Old') /\ down \in Seq(Message')
  BY DEF ServerTypes
<1>2. /\ inForce \in OldDocs' /\ base \in OldDocs' /\ cache \in OldDocs' /\ dead \subseteq Old'
  BY DEF DeviceTypes
<1>3. override \in [c : Old', v : 0..MaxVersion, base : 0..MaxVersion, rev : Nat]
  BY DEF DeviceTypes
<1>4. listen \in [pc : Handling, doc : OldDocs', was : 0..MaxVersion, beaten : Old']
  BY DEF DeviceTypes
<1> QED
  BY <1>1, <1>2, <1>3, <1>4

LEMMA ProgrammeTypesInit == Init => ProgrammeTypes
<1> SUFFICES ASSUME Init PROVE ProgrammeTypes
  OBVIOUS
<1>1. /\ room = <<>> /\ up = <<>> /\ down = <<>> /\ Len(room) = 0
      /\ inForce = Nothing /\ base = Nothing /\ cache = Nothing /\ override = NoFile /\ rev = 0
      /\ listen = Idle /\ menu = Resting /\ edits = 0 /\ dead = {}
  BY DEF Init
<1>2. ServerTypes
  BY <1>1, Bounds DEF ServerTypes
<1>3. DeviceTypes
  BY <1>1, OldFacts DEF DeviceTypes
<1>4. MenuTypes
  <2>1. 0 \in 0..MaxVersion /\ NoContent \in Old
    BY Bounds, OldFacts
  <2> QED
    BY <1>1, <2>1 DEF MenuTypes, Resting, Nothing, AtWork
<1> QED
  BY <1>2, <1>3, <1>4 DEF ProgrammeTypes

(* The server and the link: neither the device nor its editor moves.       *)
LEMMA ServerTypesKept ==
    ASSUME ProgrammeTypes,
           OwnerPublishes \/ ServerTakes \/ LinkDrops \/ Connect \/ OfferPending
    PROVE  ProgrammeTypes'
<1>1. /\ menu' = menu /\ edits' = edits /\ listen' = listen /\ inForce' = inForce
      /\ base' = base /\ rev' = rev /\ cache' = cache /\ override' = override /\ dead' = dead
  BY DEF OwnerPublishes, ServerTakes, LinkDrops, Connect, OfferPending, device, card, tasks, past
<1>2. Old' = Old /\ OldDocs' = OldDocs /\ Message' = Message
  BY <1>1, SameOld DEF Entered
<1>3. DeviceTypes' /\ MenuTypes'
  BY <1>1, <1>2 DEF ProgrammeTypes, DeviceTypes, MenuTypes
<1>4. /\ room \in Seq(Old) /\ up \in Seq(Old) /\ down \in Seq(Message)
      /\ Len(room) \in Nat /\ Len(room) <= MaxVersion
  BY DEF ProgrammeTypes, ServerTypes
<1>5. \A v \in 1..MaxVersion, c \in Old : Push(v, c) \in Message
  <2> TAKE v \in 1..MaxVersion, c \in Old
  <2>1. [v |-> v, c |-> c] \in OldDocs
    BY Bounds DEF OldDocs
  <2> QED
    BY <2>1 DEF Push, Message
<1>6. \A v \in 1..MaxVersion : Ack(v) \in Message
  BY Bounds DEF Ack, Message
<1>7. Refusal \in Message
  BY DEF Message
<1>8. ServerTypes'
  <2>1. CASE OwnerPublishes
    <3> DEFINE v == Len(room) + 1
    <3>1. v \in 1..MaxVersion /\ Pub(v) \in Old
      BY <1>4, <2>1, Bounds, OldFacts DEF OwnerPublishes
    <3>2. room' = Append(room, Pub(v)) /\ up' = up
          /\ (down' = Append(down, Push(v, Pub(v))) \/ down' = down)
      BY <2>1 DEF OwnerPublishes
    <3>3. Push(v, Pub(v)) \in Message
      BY <1>5, <3>1
    <3> HIDE DEF v
    <3>4. room' \in Seq(Old) /\ Len(room') = Len(room) + 1
      BY <1>4, <3>1, <3>2, AppendSeq
    <3>5. down' \in Seq(Message)
      <4>1. Append(down, Push(v, Pub(v))) \in Seq(Message)
        BY <1>4, <3>3, AppendSeq
      <4> QED
        BY <1>4, <3>2, <4>1
    <3> QED
      BY <1>2, <1>4, <3>1, <3>2, <3>4, <3>5 DEF ServerTypes, v
  <2>2. CASE ServerTakes
    <3>1. Head(up) \in Old /\ Tail(up) \in Seq(Old)
      BY <1>4, <2>2, TailSeq DEF ServerTakes
    <3>2. CASE room' = room /\ down' = Append(down, Refusal)
      <4>1. down' \in Seq(Message)
        BY <1>4, <1>7, <3>2, AppendSeq
      <4> QED
        BY <1>2, <1>4, <2>2, <3>1, <3>2, <4>1 DEF ServerTypes, ServerTakes
    <3>3. CASE /\ Len(room) < MaxVersion /\ room' = Append(room, Head(up))
               /\ down' = Append(down, Ack(Len(room) + 1))
      <4>1. Len(room) + 1 \in 1..MaxVersion
        BY <1>4, <3>3, Bounds
      <4>2. Ack(Len(room) + 1) \in Message
        BY <1>6, <4>1
      <4>3. down' \in Seq(Message) /\ room' \in Seq(Old) /\ Len(room') = Len(room) + 1
        BY <1>4, <3>1, <3>3, <4>2, AppendSeq
      <4> QED
        BY <1>2, <1>4, <2>2, <3>1, <4>1, <4>3 DEF ServerTypes, ServerTakes
    <3> QED
      BY <2>2, <3>2, <3>3 DEF ServerTakes
  <2>3. CASE LinkDrops
    BY <1>2, <1>4, <2>3 DEF LinkDrops, ServerTypes
  <2>4. CASE Connect
    <3>1. room' = room /\ up' = up
      BY <2>4 DEF Connect
    <3>2. down' \in Seq(Message)
      <4>1. CASE room = <<>>
        BY <2>4, <4>1 DEF Connect
      <4>2. CASE room # <<>>
        <5>1. Len(room) \in 1..MaxVersion /\ room[Len(room)] \in Old
          BY <1>4, <4>2, Bounds
        <5>2. Push(Len(room), room[Len(room)]) \in Message
          BY <1>5, <5>1
        <5>3. down' = <<Push(Len(room), room[Len(room)])>> \/ down' = <<>>
          BY <2>4 DEF Connect
        <5>4. CASE down' = <<>>
          BY <5>4
        <5> DEFINE p == Push(Len(room), room[Len(room)])
        <5>5. CASE down' = <<p>>
          <6> HIDE DEF p
          <6> QED
            BY <5>2, <5>5 DEF p
        <5> QED
          BY <5>3, <5>4, <5>5
      <4> QED
        BY <4>1, <4>2
    <3> QED
      BY <1>2, <1>4, <3>1, <3>2 DEF ServerTypes
  <2>5. CASE OfferPending
    <3>1. inForce.c \in Old
      BY DEF ProgrammeTypes, DeviceTypes, OldDocs
    <3>2. room' = room /\ down' = down /\ (up' = up \/ up' = Append(up, inForce.c))
      BY <2>5 DEF OfferPending, Send
    <3>3. up' \in Seq(Old)
      <4>1. Append(up, inForce.c) \in Seq(Old)
        BY <1>4, <3>1, AppendSeq
      <4> QED
        BY <1>4, <3>2, <4>1
    <3> QED
      BY <1>2, <1>4, <3>2, <3>3 DEF ServerTypes
  <2> QED
    BY <2>1, <2>2, <2>3, <2>4, <2>5
<1> QED
  BY <1>3, <1>8 DEF ProgrammeTypes

(* The listen loop.                                                        *)
LEMMA ListenTypesKept ==
    ASSUME ProgrammeTypes, Listening
    PROVE  ProgrammeTypes'
<1>1. menu' = menu /\ edits' = edits /\ room' = room /\ up' = up
  BY DEF Listening, Hear, ApplyPublished, RemoveOverride, CachePublished, AdoptPublishedVersion,
         RemoveSettled, server, tasks
<1>2. Old' = Old /\ OldDocs' = OldDocs /\ Message' = Message
  BY <1>1, SameOld DEF Entered
<1>3. MenuTypes'
  BY <1>1, <1>2 DEF ProgrammeTypes, MenuTypes
<1>4. down' = down \/ (down # <<>> /\ down' = Tail(down))
  BY DEF Listening, Hear, ApplyPublished, RemoveOverride, CachePublished, AdoptPublishedVersion,
         RemoveSettled, server
<1>5. ServerTypes'
  <2>1. room \in Seq(Old) /\ up \in Seq(Old) /\ Len(room) <= MaxVersion /\ down \in Seq(Message)
    BY DEF ProgrammeTypes, ServerTypes
  <2>2. down' \in Seq(Message)
    BY <1>4, <2>1, TailSeq
  <2> QED
    BY <1>1, <1>2, <2>1, <2>2 DEF ServerTypes
<1>6. /\ inForce \in OldDocs /\ base \in OldDocs /\ cache \in OldDocs
      /\ override \in [c : Old, v : 0..MaxVersion, base : 0..MaxVersion, rev : Nat]
      /\ rev \in Nat
      /\ listen \in [pc : Handling, doc : OldDocs, was : 0..MaxVersion, beaten : Old]
      /\ dead \subseteq Old
  BY DEF ProgrammeTypes, DeviceTypes
<1>7. listen.doc \in OldDocs /\ inForce.c \in Old /\ inForce.v \in 0..MaxVersion
  BY <1>6 DEF OldDocs
<1>8. DeviceTypes'
  <2>1. CASE Hear
    <3>1. UNCHANGED <<inForce, base, cache, override, rev, dead>>
      BY <2>1 DEF Hear, device, card
    <3>2. listen' \in [pc : Handling, doc : OldDocs, was : 0..MaxVersion, beaten : Old]
      <4> DEFINE m == Head(down)
      <4>1. m \in Message
        BY <2>1 DEF Hear, ProgrammeTypes, ServerTypes
      <4>2. CASE /\ m.type = "push"
                 /\ listen' = [Idle EXCEPT !.pc = "parse", !.doc = m.doc, !.was = inForce.v]
        <5>1. m.doc \in OldDocs
          BY <4>1, <4>2 DEF Message, Refusal
        <5> QED
          BY <1>7, <4>2, <5>1, OldFacts DEF Handling
      <4>3. CASE /\ m.type = "ack"
                 /\ listen' = [Idle EXCEPT !.pc = "relabel", !.doc = [c |-> inForce.c, v |-> m.v]]
        <5>1. m.v \in 0..MaxVersion
          BY <4>1, <4>3 DEF Message, Refusal
        <5>2. [c |-> inForce.c, v |-> m.v] \in OldDocs
          BY <1>7, <5>1 DEF OldDocs
        <5> QED
          BY <4>3, <5>2, OldFacts DEF Handling
      <4>4. CASE listen' = listen
        BY <1>6, <4>4
      <4> QED
        BY <2>1, <4>2, <4>3, <4>4 DEF Hear
    <3> QED
      BY <1>2, <1>6, <3>1, <3>2 DEF DeviceTypes
  <2>2. CASE ApplyPublished \/ AdoptPublishedVersion
    <3>1. /\ inForce' = listen.doc /\ base' = listen.doc /\ rev' = 0
          /\ cache' = cache /\ override' = override /\ dead' = dead
      BY <2>2 DEF ApplyPublished, AdoptPublishedVersion, Run, card, past
    <3>2. listen' \in [pc : Handling, doc : OldDocs, was : 0..MaxVersion, beaten : Old]
      BY <1>6, <1>7, <2>2 DEF ApplyPublished, AdoptPublishedVersion, AfterClear, Handling
    <3> QED
      BY <1>2, <1>6, <1>7, <3>1, <3>2 DEF DeviceTypes
  <2>3. CASE RemoveOverride \/ CachePublished \/ RemoveSettled
    <3>1. /\ inForce' = inForce /\ base' = base /\ rev' = rev
          /\ cache' \in {cache, listen.doc} /\ override' \in {override, NoFile}
          /\ dead' \subseteq dead \cup {listen.beaten}
      BY <2>3 DEF RemoveOverride, CachePublished, RemoveSettled, Written, Remove, device, past
    <3>2. listen' \in [pc : Handling, doc : OldDocs, was : 0..MaxVersion, beaten : Old]
      BY <1>6, <2>3, OldFacts DEF RemoveOverride, CachePublished, RemoveSettled, AfterClear, Handling
    <3>3. cache' \in OldDocs /\ dead' \subseteq Old
          /\ override' \in [c : Old, v : 0..MaxVersion, base : 0..MaxVersion, rev : Nat]
      BY <1>6, <1>7, <3>1, OldFacts
    <3> QED
      BY <1>2, <1>6, <3>1, <3>2, <3>3 DEF DeviceTypes
  <2> QED
    BY <2>1, <2>2, <2>3 DEF Listening
<1> QED
  BY <1>3, <1>5, <1>8 DEF ProgrammeTypes

(* The editor, before anything is entered and after it has been.           *)
LEMMA EditorTypesKept ==
    ASSUME ProgrammeTypes,
           StartEdit \/ CheckToken \/ SaveLocal \/ PublishLocal \/ StartRevert \/ RevertRemoves \/ Revert
    PROVE  ProgrammeTypes'
<1>1. /\ room' = room /\ down' = down /\ base' = base /\ cache' = cache /\ listen' = listen
      /\ (up' = up \/ up' = Append(up, inForce.c))
  BY DEF StartEdit, CheckToken, SaveLocal, PublishLocal, StartRevert, RevertRemoves, Revert, Run,
         Send, Written, Remove, server, device, card
<1>2. /\ edits \in Nat /\ menu.pc \in AtWork
      /\ menu.doc \in [c : Old \cup {Edit(edits)}, v : 0..MaxVersion]
      /\ menu.doc.c \in Old \cup {Edit(edits)} /\ menu.doc.v \in 0..MaxVersion
      /\ menu.token \in (0..MaxVersion) \X Nat
      /\ menu.token[1] \in 0..MaxVersion /\ menu.token[2] \in Nat
  BY DEF ProgrammeTypes, MenuTypes
<1>3. /\ inForce \in OldDocs /\ base \in OldDocs /\ rev \in Nat
      /\ inForce.c \in Old /\ inForce.v \in 0..MaxVersion /\ base.c \in Old /\ base.v \in 0..MaxVersion
  BY DEF ProgrammeTypes, DeviceTypes, OldDocs
<1>4. /\ NoContent \in Old /\ 0 \in 0..MaxVersion
      /\ Resting.pc = "idle" /\ Resting.doc = Nothing /\ Resting.token = <<0, 0>>
      /\ Resting.doc.c = NoContent /\ Resting.doc.v = 0
      /\ \A C : NoContent \in C =>
             Resting \in [pc : AtWork, doc : [c : C, v : 0..MaxVersion], token : (0..MaxVersion) \X Nat]
  BY OldFacts, Bounds DEF Resting, Nothing, AtWork
<1>5. Entered' = Entered
  <2>1. CASE StartEdit
    BY <1>2, <2>1 DEF StartEdit, Entered
  <2>2. CASE CheckToken
    <3>1. /\ edits' = edits /\ menu.pc = "editing" /\ menu' = [menu EXCEPT !.pc = "parse"]
          /\ menu'.pc = "parse"
      BY <2>2 DEF CheckToken, ProgrammeTypes, MenuTypes
    <3> QED
      BY <3>1 DEF Entered
  <2>3. CASE SaveLocal
    <3>1. edits' = edits /\ menu.pc = "save" /\ menu'.pc = "publish"
      BY <2>3 DEF SaveLocal, ProgrammeTypes, MenuTypes
    <3> QED
      BY <3>1 DEF Entered
  <2>4. CASE PublishLocal \/ Revert
    <3>1. edits' = edits /\ menu.pc \notin {"editing", "parse"} /\ menu' = Resting
      BY <2>4 DEF PublishLocal, Revert
    <3> QED
      BY <1>4, <3>1 DEF Entered
  <2>5. CASE StartRevert
    <3>1. edits' = edits /\ menu.pc = "idle" /\ menu'.pc = "discard"
      BY <2>5 DEF StartRevert, Resting
    <3> QED
      BY <3>1 DEF Entered
  <2>6. CASE RevertRemoves
    <3>1. edits' = edits /\ menu.pc = "discard"
          /\ (menu' = Resting \/ menu' = [menu EXCEPT !.pc = "revert", !.doc = base])
      BY <2>6 DEF RevertRemoves
    <3>2. menu'.pc \in {"idle", "revert"}
      BY <1>4, <3>1 DEF ProgrammeTypes, MenuTypes
    <3> QED
      BY <3>1, <3>2 DEF Entered
  <2> QED
    BY <2>1, <2>2, <2>3, <2>4, <2>5, <2>6
<1>6. Old' = Old /\ OldDocs' = OldDocs /\ Message' = Message
  BY <1>5, SameOld
<1>7. ServerTypes'
  <2>1. up \in Seq(Old)
    BY DEF ProgrammeTypes, ServerTypes
  <2>2. Append(up, inForce.c) \in Seq(Old)
    BY <1>3, <2>1, AppendSeq
  <2>3. up' \in Seq(Old)
    BY <1>1, <2>1, <2>2
  <2> QED
    BY <1>1, <1>6, <2>3 DEF ProgrammeTypes, ServerTypes
<1>8. MenuTypes'
  <2>1. CASE StartEdit
    <3>1. /\ edits' = edits + 1
          /\ menu' = [pc |-> "editing", token |-> <<base.v, rev>>,
                      doc |-> [c |-> Edit(edits'), v |-> inForce.v]]
      BY <2>1 DEF StartEdit, Token
    <3> QED
      BY <1>2, <1>3, <1>6, <3>1 DEF MenuTypes, AtWork
  <2>2. CASE CheckToken
    <3>1. /\ edits' = edits /\ menu.pc = "editing" /\ menu' = [menu EXCEPT !.pc = "parse"]
      BY <2>2 DEF CheckToken
    <3> QED
      BY <1>6, <3>1 DEF ProgrammeTypes, MenuTypes, AtWork
  <2>3. CASE SaveLocal
    <3>1. /\ edits' = edits /\ menu.pc = "save" /\ menu' = [menu EXCEPT !.pc = "publish"]
      BY <2>3 DEF SaveLocal
    <3> QED
      BY <1>6, <3>1 DEF ProgrammeTypes, MenuTypes, AtWork
  <2>4. CASE PublishLocal \/ Revert
    <3>1. edits' = edits /\ menu' = Resting
      BY <2>4 DEF PublishLocal, Revert
    <3> QED
      BY <1>2, <1>4, <1>6, <3>1 DEF MenuTypes
  <2>5. CASE StartRevert
    <3>1. edits' = edits /\ menu' = [Resting EXCEPT !.pc = "discard"]
      BY <2>5 DEF StartRevert
    <3>2. menu' = [pc |-> "discard", doc |-> Nothing, token |-> <<0, 0>>]
      BY <3>1 DEF Resting
    <3> QED
      BY <1>2, <1>4, <1>6, <3>1, <3>2 DEF MenuTypes, AtWork, Nothing
  <2>6. CASE RevertRemoves
    <3>1. edits' = edits /\ (menu' = Resting \/ menu' = [menu EXCEPT !.pc = "revert", !.doc = base])
      BY <2>6 DEF RevertRemoves
    <3>2. CASE menu' = Resting
      BY <1>2, <1>4, <1>6, <3>1, <3>2 DEF MenuTypes
    <3>3. CASE menu' = [menu EXCEPT !.pc = "revert", !.doc = base]
      <4>1. base \in [c : Old \cup {Edit(edits)}, v : 0..MaxVersion]
        BY <1>3 DEF OldDocs
      <4>2. /\ menu'.pc = "revert" /\ menu'.doc = base
            /\ menu' \in [pc : AtWork, doc : [c : Old \cup {Edit(edits)}, v : 0..MaxVersion],
                          token : (0..MaxVersion) \X Nat]
        BY <3>3, <4>1 DEF ProgrammeTypes, MenuTypes, AtWork
      <4> QED
        BY <1>2, <1>3, <1>6, <3>1, <4>2 DEF MenuTypes
    <3> QED
      BY <3>1, <3>2, <3>3
  <2> QED
    BY <2>1, <2>2, <2>3, <2>4, <2>5, <2>6
<1>9. DeviceTypes'
  <2>1. CASE StartEdit \/ CheckToken \/ PublishLocal \/ StartRevert
    <3>1. inForce' = inForce /\ rev' = rev /\ override' = override /\ dead' = dead
      BY <2>1 DEF StartEdit, CheckToken, PublishLocal, StartRevert, device, card, past
    <3> QED
      BY <1>1, <1>6, <3>1 DEF ProgrammeTypes, DeviceTypes
  <2>2. CASE SaveLocal
    <3>1. /\ inForce' = inForce /\ rev' = rev /\ dead' = dead
          /\ \/ override' = override
             \/ override' = [c |-> menu.doc.c, v |-> menu.doc.v,
                             base |-> menu.token[1], rev |-> menu.token[2]]
      BY <2>2 DEF SaveLocal, Written, device, past
    <3>2. menu.doc.c \in Old
      BY <2>2 DEF SaveLocal, ProgrammeTypes, MenuTypes
    <3>3. override' \in [c : Old, v : 0..MaxVersion, base : 0..MaxVersion, rev : Nat]
      BY <1>2, <3>1, <3>2 DEF ProgrammeTypes, DeviceTypes
    <3> QED
      BY <1>1, <1>6, <3>1, <3>3 DEF ProgrammeTypes, DeviceTypes
  <2>3. CASE RevertRemoves
    <3>1. /\ inForce' \in {inForce, Nothing} /\ rev' \in {rev, 0} /\ dead' = dead
          /\ override' \in {override, NoFile}
      BY <2>3 DEF RevertRemoves, Remove, device, past
    <3>2. /\ inForce' \in OldDocs /\ rev' \in Nat
          /\ override' \in [c : Old, v : 0..MaxVersion, base : 0..MaxVersion, rev : Nat]
      BY <1>3, <3>1, OldFacts DEF ProgrammeTypes, DeviceTypes
    <3> QED
      BY <1>1, <1>6, <3>1, <3>2 DEF ProgrammeTypes, DeviceTypes
  <2>4. CASE Revert
    <3>1. /\ inForce' = menu.doc /\ rev' = 0 /\ override' = override
          /\ dead' \subseteq dead \cup {inForce.c}
      BY <2>4 DEF Revert, Run, card
    <3>2. menu.doc \in OldDocs
      BY <1>2, <2>4 DEF Revert, ProgrammeTypes, MenuTypes, OldDocs
    <3>3. dead' \subseteq Old
      BY <1>3, <3>1 DEF ProgrammeTypes, DeviceTypes
    <3> QED
      BY <1>1, <1>6, <3>1, <3>2, <3>3 DEF ProgrammeTypes, DeviceTypes
  <2> QED
    BY <2>1, <2>2, <2>3, <2>4
<1> QED
  BY <1>7, <1>8, <1>9 DEF ProgrammeTypes

(* An edit is given up or entered, or all edits under way are lost.        *)
LEMMA EnteredTypesKept ==
    ASSUME ProgrammeTypes, DropEdit \/ ApplyLocal \/ Restart
    PROVE  ProgrammeTypes'
<1>1. edits' = edits /\ edits \in Nat /\ menu'.pc \notin {"editing", "parse"}
  <2>1. edits' = edits /\ edits \in Nat
    BY DEF DropEdit, ApplyLocal, Restart, ProgrammeTypes, MenuTypes
  <2>2. CASE DropEdit \/ Restart
    <3>1. menu' = Resting
      BY <2>2 DEF DropEdit, Restart
    <3>2. Resting.pc = "idle"
      BY DEF Resting
    <3> QED
      BY <2>1, <3>1, <3>2
  <2>3. CASE ApplyLocal
    BY <2>3 DEF ApplyLocal, ProgrammeTypes, MenuTypes
  <2> QED
    BY <2>1, <2>2, <2>3
<1>2. /\ Old \subseteq Old' /\ OldDocs \subseteq OldDocs' /\ Message \subseteq Message'
      /\ Edit(edits) \in Old' \/ edits = 0
  BY <1>1, MoreOld
<1>3. /\ room \in Seq(Old') /\ up \in Seq(Old') /\ down \in Seq(Message')
      /\ inForce \in OldDocs' /\ base \in OldDocs' /\ cache \in OldDocs'
      /\ override \in [c : Old', v : 0..MaxVersion, base : 0..MaxVersion, rev : Nat]
      /\ listen \in [pc : Handling, doc : OldDocs', was : 0..MaxVersion, beaten : Old']
      /\ dead \subseteq Old' /\ rev \in Nat /\ Len(room) <= MaxVersion
  BY <1>2, GrowOld DEF ProgrammeTypes, ServerTypes, DeviceTypes
<1>4. /\ NoContent \in Old' /\ Nothing \in OldDocs'
      /\ Idle \in [pc : Handling, doc : OldDocs', was : 0..MaxVersion, beaten : Old']
      /\ NoFile \in [c : Old', v : 0..MaxVersion, base : 0..MaxVersion, rev : Nat]
  BY <1>2, OldFacts DEF Idle, NoFile, Nothing, Handling
<1>5. Resting \in [pc : AtWork, doc : [c : Old' \cup {Edit(edits)}, v : 0..MaxVersion],
                  token : (0..MaxVersion) \X Nat]
  BY <1>4, Bounds DEF Resting, Nothing, AtWork
<1>6. /\ override.c \in Old' /\ override.v \in 0..MaxVersion /\ override.rev \in Nat
      /\ base.v \in 0..MaxVersion
  BY <1>3 DEF OldDocs
<1>7. CASE DropEdit
  <2>1. menu' = Resting /\ UNCHANGED <<server, device, card, listen, offering, edits, past>>
    BY <1>7 DEF DropEdit
  <2>2. ServerTypes'
    BY <1>3, <2>1 DEF ServerTypes, server
  <2>3. DeviceTypes'
    BY <1>3, <2>1 DEF DeviceTypes, device, card, past
  <2>4. MenuTypes'
    <3>1. menu'.pc = "idle"
      BY <2>1 DEF Resting
    <3> QED
      BY <1>1, <1>5, <2>1, <3>1 DEF MenuTypes
  <2> QED
    BY <2>2, <2>3, <2>4 DEF ProgrammeTypes
<1>8. CASE ApplyLocal
  <2>1. /\ menu.pc = "parse" /\ inForce' = menu.doc /\ base' = base /\ rev' = rev + 1
        /\ menu' = [menu EXCEPT !.pc = "save", !.token = <<base.v, rev + 1>>]
        /\ UNCHANGED <<server, card, listen, offering, edits, past>>
    BY <1>8 DEF ApplyLocal, Run
  <2>2. /\ menu.doc.c = Edit(edits) /\ edits # 0 /\ menu.doc.v \in 0..MaxVersion
        /\ menu.doc = [c |-> menu.doc.c, v |-> menu.doc.v]
    BY <2>1 DEF ProgrammeTypes, MenuTypes
  <2>3. menu.doc.c \in Old' /\ menu.doc \in OldDocs'
    BY <1>2, <2>2 DEF OldDocs
  <2>4. ServerTypes'
    BY <1>3, <2>1 DEF ServerTypes, server
  <2>5. DeviceTypes'
    BY <1>3, <2>1, <2>3 DEF DeviceTypes, card, past
  <2>6. MenuTypes'
    <3>1. <<base.v, rev + 1>> \in (0..MaxVersion) \X Nat
      BY <1>3, <1>6
    <3>2. /\ menu'.pc = "save" /\ menu'.doc = menu.doc
          /\ menu' = [pc |-> "save", doc |-> menu.doc, token |-> <<base.v, rev + 1>>]
      BY <2>1 DEF ProgrammeTypes, MenuTypes
    <3>3. menu.doc \in [c : Old' \cup {Edit(edits)}, v : 0..MaxVersion]
      BY <2>3 DEF OldDocs
    <3> QED
      BY <1>1, <2>3, <3>1, <3>2, <3>3 DEF MenuTypes, AtWork
  <2> QED
    BY <2>4, <2>5, <2>6 DEF ProgrammeTypes
<1>9. CASE Restart
  <2>1. /\ room' = room /\ up' = <<>> /\ down' = <<>> /\ listen' = Idle /\ menu' = Resting
        /\ base' = cache /\ cache' = cache /\ dead' = dead
    BY <1>9 DEF Restart
  <2>2. ServerTypes'
    BY <1>3, <2>1 DEF ServerTypes
  <2>3. /\ inForce' \in OldDocs' /\ rev' \in Nat
        /\ override' \in [c : Old', v : 0..MaxVersion, base : 0..MaxVersion, rev : Nat]
    <3>1. CASE Adoptable
      <4>1. /\ inForce' = [c |-> override.c, v |-> override.v] /\ rev' = override.rev
            /\ override' = override
        BY <1>9, <3>1 DEF Restart, Run
      <4>2. [c |-> override.c, v |-> override.v] \in OldDocs'
        BY <1>6 DEF OldDocs
      <4> QED
        BY <1>3, <1>6, <4>1, <4>2
    <3>2. CASE ~Adoptable
      BY <1>3, <1>4, <1>9, <3>2 DEF Restart, Run
    <3> QED
      BY <3>1, <3>2
  <2>4. DeviceTypes'
    BY <1>3, <1>4, <2>1, <2>3 DEF DeviceTypes
  <2>5. MenuTypes'
    <3>1. menu'.pc = "idle"
      BY <2>1 DEF Resting
    <3> QED
      BY <1>1, <1>5, <2>1, <3>1 DEF MenuTypes
  <2> QED
    BY <2>2, <2>4, <2>5 DEF ProgrammeTypes
<1> QED
  BY <1>7, <1>8, <1>9

LEMMA ProgrammeTypesKept == ProgrammeTypes /\ [Next]_vars => ProgrammeTypes'
<1> SUFFICES ASSUME ProgrammeTypes, [Next]_vars PROVE ProgrammeTypes'
  OBVIOUS
<1>1. CASE UNCHANGED vars
  <2>1. UNCHANGED <<server, device, card, tasks, past>>
    BY <1>1 DEF vars
  <2>2. Entered' = Entered
    BY <2>1 DEF Entered, tasks
  <2>3. Old' = Old /\ OldDocs' = OldDocs /\ Message' = Message
    BY <2>2, SameOld
  <2> QED
    BY <2>1, <2>3 DEF ProgrammeTypes, ServerTypes, DeviceTypes, MenuTypes, server, device, card,
                      tasks, past
<1> QED
  BY <1>1, ServerTypesKept, ListenTypesKept, EditorTypesKept, EnteredTypesKept
     DEF Next, Outside, Operator, Editing

(* ------------------------------ versions ------------------------------- *)

Dated(m)   == m.type # "refused"
Version(m) == IF m.type = "push" THEN m.doc.v ELSE m.v

(* The versions a sequence of messages carries ascend from lo to hi.       *)
Ordered(s, lo, hi) ==
    /\ \A i \in 1..Len(s) : Dated(s[i]) => lo <= Version(s[i]) /\ Version(s[i]) <= hi
    /\ \A i, j \in 1..Len(s) :
          i < j /\ Dated(s[i]) /\ Dated(s[j]) => Version(s[i]) <= Version(s[j])

(* The oldest version the next message may carry.                          *)
Floor == IF listen.pc \in {"parse", "relabel"} THEN listen.doc.v ELSE base.v

Ascending ==
    /\ Ordered(down, Floor, Len(room))
    /\ base.v <= Floor /\ Floor <= Len(room)
    /\ listen.pc \in {"clear", "cache"} => base = listen.doc
    /\ cache.v <= base.v
    /\ restarts \in Nat

LEMMA VersionIsNat ==
    ASSUME NEW m \in Message, Dated(m)
    PROVE  Version(m) \in Nat
<1>1. CASE m \in [type : {"push"}, doc : OldDocs]
  <2>1. m.type = "push" /\ m.doc \in OldDocs
    BY <1>1
  <2> QED
    BY <2>1, Bounds DEF Version, OldDocs
<1>2. CASE m \in [type : {"ack"}, v : 0..MaxVersion]
  <2>1. m.type = "ack" /\ m.v \in 0..MaxVersion
    BY <1>2
  <2> QED
    BY <2>1, Bounds DEF Version
<1>3. CASE m = Refusal
  BY <1>3 DEF Refusal, Dated
<1> QED
  BY <1>1, <1>2, <1>3 DEF Message

(* A message of the newest version, or of none, joins the end.             *)
LEMMA OrderedAppend ==
    ASSUME NEW s \in Seq(Message), NEW m \in Message, NEW lo \in Nat, NEW hi \in Nat, NEW top \in Nat,
           Ordered(s, lo, hi), lo <= top, hi <= top, Dated(m) => Version(m) = top
    PROVE  Ordered(Append(s, m), lo, top)
<1> DEFINE t == Append(s, m)
<1>1. /\ Len(s) \in Nat /\ Len(t) = Len(s) + 1 /\ t[Len(s) + 1] = m
      /\ \A i \in 1..Len(s) : t[i] = s[i] /\ s[i] \in Message
  OBVIOUS
<1> HIDE DEF t
<1>2. \A i \in 1..Len(s) : Dated(s[i]) =>
          /\ Version(s[i]) \in Nat /\ lo <= Version(s[i]) /\ Version(s[i]) <= top
  <2> TAKE i \in 1..Len(s)
  <2> HAVE Dated(s[i])
  <2>1. lo <= Version(s[i]) /\ Version(s[i]) <= hi
    BY DEF Ordered
  <2>2. Version(s[i]) \in Nat
    BY <1>1, VersionIsNat
  <2> QED
    BY <2>1, <2>2
<1>3. \A i \in 1..Len(t) : i \in 1..Len(s) \/ i = Len(s) + 1
  BY <1>1
<1>4. \A i \in 1..Len(t) : Dated(t[i]) => lo <= Version(t[i]) /\ Version(t[i]) <= top
  BY <1>1, <1>2, <1>3
<1>5. \A i, j \in 1..Len(t) :
          i < j /\ Dated(t[i]) /\ Dated(t[j]) => Version(t[i]) <= Version(t[j])
  <2> TAKE i, j \in 1..Len(t)
  <2> HAVE i < j /\ Dated(t[i]) /\ Dated(t[j])
  <2>1. i \in 1..Len(s)
    BY <1>1
  <2>2. CASE j \in 1..Len(s)
    BY <1>1, <2>1, <2>2 DEF Ordered
  <2>3. CASE j = Len(s) + 1
    BY <1>1, <1>2, <2>1, <2>3
  <2> QED
    BY <1>3, <2>2, <2>3
<1> QED
  BY <1>4, <1>5 DEF Ordered, t

(* The first message is the oldest of them.                                *)
LEMMA OrderedTail ==
    ASSUME NEW s \in Seq(Message), NEW lo \in Nat, NEW hi \in Nat, Ordered(s, lo, hi), s # <<>>
    PROVE  /\ Ordered(Tail(s), lo, hi)
           /\ Dated(Head(s)) => /\ Ordered(Tail(s), Version(Head(s)), hi)
                                /\ lo <= Version(Head(s)) /\ Version(Head(s)) <= hi
<1> DEFINE t == Tail(s)
<1>1. /\ Len(s) \in Nat /\ Len(s) >= 1 /\ Len(t) = Len(s) - 1 /\ Head(s) = s[1]
      /\ \A i \in 1..Len(t) : t[i] = s[i + 1]
  OBVIOUS
<1> HIDE DEF t
<1>2. 1 \in 1..Len(s) /\ \A i \in 1..Len(t) : i + 1 \in 1..Len(s) /\ 1 < i + 1
  BY <1>1
<1>3. \A i, j \in 1..Len(t) :
          i < j /\ Dated(t[i]) /\ Dated(t[j]) => Version(t[i]) <= Version(t[j])
  <2> TAKE i, j \in 1..Len(t)
  <2> HAVE i < j /\ Dated(t[i]) /\ Dated(t[j])
  <2>1. i + 1 < j + 1
    OBVIOUS
  <2> QED
    BY <1>1, <1>2, <2>1 DEF Ordered
<1>4. \A i \in 1..Len(t) : Dated(t[i]) => lo <= Version(t[i]) /\ Version(t[i]) <= hi
  BY <1>1, <1>2 DEF Ordered
<1>5. Dated(s[1]) => \A i \in 1..Len(t) : Dated(t[i]) => Version(s[1]) <= Version(t[i])
  BY <1>1, <1>2 DEF Ordered
<1>6. Dated(s[1]) => lo <= Version(s[1]) /\ Version(s[1]) <= hi
  BY <1>2 DEF Ordered
<1> QED
  BY <1>1, <1>3, <1>4, <1>5, <1>6 DEF Ordered, t

LEMMA VersionsAreNat ==
    ASSUME ProgrammeTypes
    PROVE  /\ room \in Seq(Old) /\ down \in Seq(Message) /\ Len(room) \in Nat
           /\ base.v \in Nat /\ cache.v \in Nat /\ inForce.v \in Nat /\ listen.doc.v \in Nat
           /\ Floor \in Nat
<1>1. room \in Seq(Old) /\ down \in Seq(Message)
  BY DEF ProgrammeTypes, ServerTypes
<1>2. /\ base.v \in 0..MaxVersion /\ cache.v \in 0..MaxVersion /\ inForce.v \in 0..MaxVersion
      /\ listen.doc.v \in 0..MaxVersion
  BY DEF ProgrammeTypes, DeviceTypes, OldDocs
<1> QED
  BY <1>1, <1>2, Bounds DEF Floor

LEMMA AscendingInit == Init => Ascending
<1> SUFFICES ASSUME Init PROVE Ascending
  OBVIOUS
<1>1. /\ room = <<>> /\ down = <<>> /\ base = Nothing /\ cache = Nothing
      /\ listen = Idle /\ restarts = 0
  BY DEF Init
<1>2. Len(room) = 0 /\ Len(down) = 0 /\ base.v = 0 /\ cache.v = 0 /\ listen.pc = "idle"
  BY <1>1 DEF Nothing, Idle
<1> QED
  BY <1>1, <1>2 DEF Ascending, Floor, Ordered

(* Steps that leave the published document and the link alone.             *)
LEMMA AscendingSame ==
    ASSUME Ascending, room' = room, down' = down, listen' = listen, base' = base, cache' = cache,
           restarts' = restarts
    PROVE  Ascending'
<1>1. Floor' = Floor
  BY DEF Floor
<1>2. Ordered(down, Floor, Len(room))' <=> Ordered(down, Floor, Len(room))
  BY <1>1 DEF Ordered, Dated, Version
<1> QED
  BY <1>1, <1>2 DEF Ascending

LEMMA AscendingServer ==
    ASSUME ProgrammeTypes, Ascending, OwnerPublishes \/ ServerTakes \/ LinkDrops \/ Connect
    PROVE  Ascending'
<1>1. listen' = listen /\ base' = base /\ cache' = cache /\ restarts' = restarts
  BY DEF OwnerPublishes, ServerTakes, LinkDrops, Connect, device, card, tasks, past
<1>2. Floor' = Floor
  BY <1>1 DEF Floor
<1>3. /\ room \in Seq(Old) /\ down \in Seq(Message) /\ Len(room) \in Nat
      /\ base.v \in Nat /\ Floor \in Nat /\ Len(room) + 1 \in Nat
      /\ base.v <= Floor /\ Floor <= Len(room) /\ Ordered(down, Floor, Len(room))
  BY VersionsAreNat DEF Ascending
<1>4. \A c : Dated(Push(Len(room) + 1, c)) /\ Version(Push(Len(room) + 1, c)) = Len(room) + 1
  BY DEF Dated, Version, Push
<1>5. Version(Ack(Len(room) + 1)) = Len(room) + 1 /\ ~Dated(Refusal)
  BY DEF Dated, Version, Ack, Refusal
<1>6. \A m \in Message : (Dated(m) => Version(m) = Len(room) + 1) =>
          Ordered(Append(down, m), Floor, Len(room) + 1)
  BY <1>3, OrderedAppend
<1>7. \A m \in Message : ~Dated(m) => Ordered(Append(down, m), Floor, Len(room))
  BY <1>3, OrderedAppend
<1>8. Ordered(down, Floor, Len(room) + 1)
  <2>1. \A i \in 1..Len(down) : Dated(down[i]) => Version(down[i]) <= Len(room) + 1
    <3> TAKE i \in 1..Len(down)
    <3> HAVE Dated(down[i])
    <3>1. down[i] \in Message /\ Version(down[i]) <= Len(room)
      BY <1>3 DEF Ordered
    <3>2. Version(down[i]) \in Nat
      BY <3>1, VersionIsNat
    <3> QED
      BY <1>3, <3>1, <3>2
  <2> QED
    BY <1>3, <2>1 DEF Ordered
<1>9. /\ Floor' <= Len(room') /\ Ordered(down', Floor', Len(room'))
  <2>1. CASE OwnerPublishes
    <3> DEFINE m == Push(Len(room) + 1, Pub(Len(room) + 1))
    <3>1. m \in Message
      <4>1. Len(room) + 1 \in 1..MaxVersion
        BY <1>3, <2>1, Bounds DEF OwnerPublishes
      <4>2. Pub(Len(room) + 1) \in Old /\ Len(room) + 1 \in 0..MaxVersion
        BY <4>1, OldFacts, Bounds
      <4>3. [v |-> Len(room) + 1, c |-> Pub(Len(room) + 1)] \in OldDocs
        BY <4>2 DEF OldDocs
      <4> QED
        BY <4>3 DEF Push, Message
    <3>2. room' = Append(room, Pub(Len(room) + 1)) /\ (down' = Append(down, m) \/ down' = down)
      BY <2>1 DEF OwnerPublishes
    <3>3. Len(room') = Len(room) + 1
      BY <1>3, <3>2
    <3>4. Ordered(Append(down, m), Floor, Len(room) + 1)
      BY <1>4, <1>6, <3>1
    <3> HIDE DEF m
    <3>5. Ordered(down', Floor, Len(room) + 1)
      BY <1>8, <3>2, <3>4
    <3>6. Floor <= Len(room) + 1
      BY <1>3
    <3> QED
      BY <1>2, <3>3, <3>5, <3>6
  <2>2. CASE ServerTakes
    <3>1. CASE room' = room /\ down' = Append(down, Refusal)
      <4>1. Refusal \in Message
        BY DEF Message
      <4> QED
        BY <1>2, <1>3, <1>5, <1>7, <3>1, <4>1
    <3>2. CASE /\ Len(room) < MaxVersion /\ room' = Append(room, Head(up))
               /\ down' = Append(down, Ack(Len(room) + 1))
      <4>1. Ack(Len(room) + 1) \in Message
        <5>1. Len(room) + 1 \in 0..MaxVersion
          BY <1>3, <3>2, Bounds
        <5> QED
          BY <5>1 DEF Ack, Message
      <4>2. Len(room') = Len(room) + 1
        BY <1>3, <3>2
      <4> QED
        BY <1>2, <1>3, <1>5, <1>6, <3>2, <4>1, <4>2
    <3> QED
      BY <2>2, <3>1, <3>2 DEF ServerTakes
  <2>3. CASE LinkDrops
    <3>1. down' = <<>> /\ room' = room
      BY <2>3 DEF LinkDrops
    <3>2. Ordered(down', Floor', Len(room'))
      BY <3>1 DEF Ordered
    <3> QED
      BY <1>2, <1>3, <3>1, <3>2
  <2>4. CASE Connect
    <3>1. room' = room /\ (down' = <<>> \/ down' = <<Push(Len(room), room[Len(room)])>>)
      BY <2>4 DEF Connect
    <3> DEFINE p == Push(Len(room), room[Len(room)])
    <3>2. Version(p) = Len(room)
      BY DEF Version, Push
    <3> HIDE DEF p
    <3>3. CASE down' = <<>>
      <4>1. Ordered(down', Floor', Len(room'))
        BY <3>3 DEF Ordered
      <4> QED
        BY <1>2, <1>3, <3>1, <4>1
    <3>4. CASE down' = <<p>>
      <4>1. Len(down') = 1 /\ down'[1] = p
        BY <3>4
      <4>2. \A i \in 1..Len(down') : i = 1
        BY <4>1
      <4>3. Ordered(down', Floor', Len(room'))
        BY <1>2, <1>3, <3>1, <3>2, <4>1, <4>2 DEF Ordered
      <4> QED
        BY <1>2, <1>3, <3>1, <4>3
    <3> QED
      BY <3>1, <3>3, <3>4 DEF p
  <2> QED
    BY <2>1, <2>2, <2>3, <2>4
<1> QED
  BY <1>1, <1>2, <1>3, <1>9 DEF Ascending

LEMMA AscendingListen ==
    ASSUME ProgrammeTypes, Ascending, Listening
    PROVE  Ascending' /\ cache'.v >= cache.v /\ base'.v >= base.v
<1>1. room' = room /\ restarts' = restarts
  BY DEF Listening, Hear, ApplyPublished, RemoveOverride, CachePublished, AdoptPublishedVersion,
         RemoveSettled, server, past
<1>2. /\ down \in Seq(Message) /\ Len(room) \in Nat /\ Floor \in Nat
      /\ base.v \in Nat /\ cache.v \in Nat /\ listen.doc.v \in Nat
      /\ base.v <= Floor /\ Floor <= Len(room) /\ cache.v <= base.v
      /\ Ordered(down, Floor, Len(room)) /\ restarts \in Nat
  BY VersionsAreNat DEF Ascending
<1>3. listen = [pc |-> listen.pc, doc |-> listen.doc, was |-> listen.was, beaten |-> listen.beaten]
  BY DEF ProgrammeTypes, DeviceTypes
<1>4. CASE Hear
  <2> DEFINE m == Head(down)
  <2>1. /\ down # <<>> /\ down' = Tail(down) /\ base' = base /\ cache' = cache
        /\ listen.pc = "idle"
    BY <1>4 DEF Hear, device, card
  <2>2. Floor = base.v
    BY <2>1 DEF Floor
  <2>3. /\ Ordered(Tail(down), Floor, Len(room))
        /\ Dated(m) => /\ Ordered(Tail(down), Version(m), Len(room))
                       /\ Floor <= Version(m) /\ Version(m) <= Len(room)
    BY <1>2, <2>1, OrderedTail
  <2>4. CASE m.type = "push" /\ listen' = [Idle EXCEPT !.pc = "parse", !.doc = m.doc, !.was = inForce.v]
    <3>1. listen'.pc = "parse" /\ listen'.doc = m.doc
      BY <2>4 DEF Idle
    <3>2. Dated(m) /\ Version(m) = m.doc.v
      BY <2>4 DEF Dated, Version
    <3>3. Floor' = Version(m)
      BY <3>1, <3>2 DEF Floor
    <3> QED
      BY <1>1, <1>2, <2>1, <2>2, <2>3, <3>1, <3>2, <3>3 DEF Ascending
  <2>5. CASE /\ m.type = "ack"
             /\ listen' = [Idle EXCEPT !.pc = "relabel", !.doc = [c |-> inForce.c, v |-> m.v]]
    <3>1. listen'.pc = "relabel" /\ listen'.doc.v = m.v
      BY <2>5 DEF Idle
    <3>2. Dated(m) /\ Version(m) = m.v
      BY <2>5 DEF Dated, Version
    <3>3. Floor' = Version(m)
      BY <3>1, <3>2 DEF Floor
    <3> QED
      BY <1>1, <1>2, <2>1, <2>2, <2>3, <3>1, <3>2, <3>3 DEF Ascending
  <2>6. CASE listen' = listen
    <3>1. Floor' = Floor
      BY <2>1, <2>6 DEF Floor
    <3> QED
      BY <1>1, <1>2, <2>1, <2>3, <2>6, <3>1 DEF Ascending
  <2> QED
    BY <1>4, <2>4, <2>5, <2>6 DEF Hear
<1>5. CASE ApplyPublished \/ AdoptPublishedVersion
  <2>1. /\ base' = listen.doc /\ down' = down /\ cache' = cache
        /\ listen.pc \in {"parse", "relabel"}
    BY <1>5 DEF ApplyPublished, AdoptPublishedVersion, server, card
  <2>2. listen'.pc \in {"clear", "cache", "settle", "idle"} /\ listen'.doc = listen.doc
    BY <1>3, <1>5 DEF ApplyPublished, AdoptPublishedVersion, AfterClear
  <2>3. Floor = listen.doc.v /\ Floor' = listen.doc.v
    BY <2>1, <2>2 DEF Floor
  <2> QED
    BY <1>1, <1>2, <2>1, <2>2, <2>3 DEF Ascending
<1>6. CASE RemoveOverride \/ CachePublished \/ RemoveSettled
  <2>1. /\ base' = base /\ down' = down /\ listen.pc \in {"clear", "cache", "settle"}
        /\ cache' = cache \/ (listen.pc = "cache" /\ cache' = listen.doc)
    BY <1>6 DEF RemoveOverride, CachePublished, RemoveSettled, Written, Remove, server, device
  <2>2. /\ listen'.pc \in {"cache", "idle"}
        /\ listen'.pc = "cache" => listen.pc = "clear" /\ listen'.doc = listen.doc
    BY <1>3, <1>6 DEF RemoveOverride, CachePublished, RemoveSettled, AfterClear, Idle
  <2>3. listen.pc \in {"clear", "cache"} => base = listen.doc
    BY DEF Ascending
  <2>4. Floor = base.v /\ Floor' = base.v
    BY <2>1, <2>2 DEF Floor
  <2>5. cache'.v <= base.v /\ cache'.v >= cache.v
    BY <1>2, <2>1, <2>3
  <2> QED
    BY <1>1, <1>2, <2>1, <2>2, <2>3, <2>4, <2>5 DEF Ascending
<1> QED
  BY <1>4, <1>5, <1>6 DEF Listening

LEMMA AscendingRestart ==
    ASSUME ProgrammeTypes, Ascending, Restart
    PROVE  Ascending' /\ cache' = cache /\ restarts' # restarts
<1>1. /\ room' = room /\ down' = <<>> /\ listen' = Idle /\ base' = cache /\ cache' = cache
      /\ restarts' = restarts + 1
  BY DEF Restart
<1>2. /\ cache.v \in Nat /\ base.v \in Nat /\ Floor \in Nat /\ Len(room) \in Nat
      /\ cache.v <= base.v /\ base.v <= Floor /\ Floor <= Len(room) /\ restarts \in Nat
  BY VersionsAreNat DEF Ascending
<1>3. listen'.pc = "idle" /\ Floor' = cache.v
  BY <1>1 DEF Idle, Floor
<1>4. Ordered(down', Floor', Len(room'))
  BY <1>1 DEF Ordered
<1> QED
  BY <1>1, <1>2, <1>3, <1>4 DEF Ascending

(* The editor and the reconciler.                                          *)
LEMMA AscendingEditor ==
    ASSUME Ascending, Operator \/ Editing \/ OfferPending
    PROVE  Ascending' /\ cache' = cache /\ base' = base
<1>1. /\ room' = room /\ down' = down /\ listen' = listen /\ base' = base /\ cache' = cache
      /\ restarts' = restarts
  BY DEF Operator, StartEdit, DropEdit, CheckToken, StartRevert, Editing, ApplyLocal, SaveLocal,
         PublishLocal, RevertRemoves, Revert, OfferPending, Written, Remove, server, device, card, past
<1> QED
  BY <1>1, AscendingSame

LEMMA AscendingKept == ProgrammeTypes /\ Ascending /\ [Next]_vars => Ascending'
<1> SUFFICES ASSUME ProgrammeTypes, Ascending, [Next]_vars PROVE Ascending'
  OBVIOUS
<1>1. CASE UNCHANGED vars
  <2>1. /\ room' = room /\ down' = down /\ listen' = listen /\ base' = base /\ cache' = cache
        /\ restarts' = restarts
    BY <1>1 DEF vars, server, device, card, tasks, past
  <2> QED
    BY <2>1, AscendingSame
<1> QED
  BY <1>1, AscendingServer, AscendingListen, AscendingRestart, AscendingEditor DEF Next, Outside

(* For any number of versions, edits, dropped links and power cuts: the    *)
(* published document the device holds, and the one on its card, never go  *)
(* back to an older version.                                               *)
THEOREM PublishedAscends == Spec => PublishedNeverRegresses
<1>1. ASSUME ProgrammeTypes, Ascending, Next
      PROVE  cache'.v >= cache.v /\ (restarts' = restarts => base'.v >= base.v)
  <2>1. base.v \in Nat /\ cache.v \in Nat
    BY <1>1, VersionsAreNat
  <2>2. CASE OwnerPublishes \/ ServerTakes \/ LinkDrops \/ Connect
    <3>1. base' = base /\ cache' = cache
      BY <2>2 DEF OwnerPublishes, ServerTakes, LinkDrops, Connect, device, card
    <3> QED
      BY <2>1, <3>1
  <2>3. CASE Listening
    BY <1>1, <2>3, AscendingListen
  <2>4. CASE Restart
    BY <1>1, <2>1, <2>4, AscendingRestart
  <2>5. CASE Operator \/ Editing \/ OfferPending
    BY <1>1, <2>1, <2>5, AscendingEditor
  <2> QED
    BY <1>1, <2>2, <2>3, <2>4, <2>5 DEF Next, Outside
<1>2. ProgrammeTypes /\ Ascending /\ [Next]_vars =>
          [cache'.v >= cache.v /\ (restarts' = restarts => base'.v >= base.v)]_vars
  BY <1>1
<1> QED
  BY ProgrammeTypesInit, AscendingInit, ProgrammeTypesKept, AscendingKept, <1>2, PTL
     DEF Spec, PublishedNeverRegresses

(* ------------------------ what runs is reported ------------------------ *)

(* Nothing the device may come to run is newer than what it calls          *)
(* published: not the document in force, nor the one in the menu's hands,  *)
(* nor the edit on the card.                                               *)
NotNewer ==
    /\ active = inForce.v /\ inForce.v <= base.v
    /\ menu.pc \in {"editing", "parse", "save", "revert"} => menu.doc.v <= base.v
    /\ menu.pc = "save" => menu.doc.v <= menu.token[1] /\ menu.token[1] <= base.v
    /\ override.v <= override.base /\ override.base <= base.v

LEMMA NotNewerInit == Init => NotNewer
<1> SUFFICES ASSUME Init PROVE NotNewer
  OBVIOUS
<1>1. inForce.v = 0 /\ base.v = 0 /\ active = 0 /\ override.v = 0 /\ override.base = 0
  BY DEF Init, Nothing, NoFile
<1>2. menu.pc = "idle"
  BY DEF Init, Resting
<1> QED
  BY <1>1, <1>2 DEF NotNewer

LEMMA MoreAreNat ==
    ASSUME ProgrammeTypes
    PROVE  /\ override.v \in Nat /\ override.base \in Nat /\ override.rev \in Nat /\ rev \in Nat
           /\ menu.doc.v \in Nat /\ menu.token[1] \in Nat /\ menu.token[2] \in Nat
           /\ menu = [pc |-> menu.pc, doc |-> menu.doc, token |-> menu.token]
<1>1. override.v \in 0..MaxVersion /\ override.base \in 0..MaxVersion /\ override.rev \in Nat
      /\ rev \in Nat
  BY DEF ProgrammeTypes, DeviceTypes
<1>2. /\ menu.doc.v \in 0..MaxVersion /\ menu.token[1] \in 0..MaxVersion /\ menu.token[2] \in Nat
      /\ menu = [pc |-> menu.pc, doc |-> menu.doc, token |-> menu.token]
  BY DEF ProgrammeTypes, MenuTypes
<1> QED
  BY <1>1, <1>2, Bounds

LEMMA NotNewerListen ==
    ASSUME ProgrammeTypes, Ascending, NotNewer, Listening
    PROVE  NotNewer'
<1>1. menu' = menu /\ override' \in {override, NoFile} /\ base'.v >= base.v
  BY AscendingListen DEF Listening, Hear, ApplyPublished, RemoveOverride, CachePublished,
     AdoptPublishedVersion, RemoveSettled, Written, Remove, tasks, card
<1>2. base.v \in Nat /\ inForce.v \in Nat /\ base'.v \in Nat
  <2>1. ProgrammeTypes'
    BY ListenTypesKept
  <2>2. base'.v \in 0..MaxVersion
    BY <2>1 DEF ProgrammeTypes, DeviceTypes, OldDocs
  <2> QED
    BY <2>2, Bounds, VersionsAreNat
<1>3. \/ inForce' = inForce /\ active' = active
      \/ inForce' = listen.doc /\ base' = listen.doc /\ active' = listen.doc.v
  BY DEF Listening, Hear, ApplyPublished, RemoveOverride, CachePublished, AdoptPublishedVersion,
         RemoveSettled, Run, device
<1>4. active' = inForce'.v /\ inForce'.v <= base'.v
  BY <1>1, <1>2, <1>3, VersionsAreNat DEF NotNewer
<1>5. /\ override.v \in Nat /\ override.base \in Nat /\ menu.doc.v \in Nat /\ menu.token[1] \in Nat
      /\ NoFile.v = 0 /\ NoFile.base = 0
  BY MoreAreNat DEF NoFile
<1>6. override'.v <= override'.base /\ override'.base <= base'.v
  <2>1. CASE override' = override
    BY <1>1, <1>2, <1>5, <2>1 DEF NotNewer
  <2>2. CASE override' = NoFile
    BY <1>2, <1>5, <2>2
  <2> QED
    BY <1>1, <2>1, <2>2
<1>7. /\ menu.pc \in {"editing", "parse", "save", "revert"} => menu.doc.v <= base'.v
      /\ menu.pc = "save" => menu.doc.v <= menu.token[1] /\ menu.token[1] <= base'.v
  BY <1>1, <1>2, <1>5 DEF NotNewer
<1> QED
  BY <1>1, <1>4, <1>6, <1>7 DEF NotNewer

LEMMA NotNewerSame ==
    ASSUME NotNewer, UNCHANGED <<active, inForce, base, menu, override>>
    PROVE  NotNewer'
BY DEF NotNewer

LEMMA NotNewerEditor ==
    ASSUME ProgrammeTypes, NotNewer, Operator \/ Editing
    PROVE  NotNewer'
<1>1. base' = base
  BY DEF Operator, StartEdit, DropEdit, CheckToken, StartRevert, Editing, ApplyLocal, SaveLocal,
         PublishLocal, RevertRemoves, Revert, device
<1>2. /\ base.v \in Nat /\ inForce.v \in Nat /\ menu.doc.v \in Nat /\ menu.token[1] \in Nat
      /\ override.v \in Nat /\ override.base \in Nat
      /\ menu = [pc |-> menu.pc, doc |-> menu.doc, token |-> menu.token]
  BY VersionsAreNat, MoreAreNat
<1>3. NoFile.v = 0 /\ NoFile.base = 0 /\ Resting.pc = "idle" /\ Nothing.v = 0
  BY DEF NoFile, Resting, Nothing
<1>4. CASE StartEdit
  <2>1. UNCHANGED <<active, inForce, override>> /\ menu'.pc = "editing" /\ menu'.doc.v = inForce.v
    BY <1>4 DEF StartEdit, device, card
  <2> QED
    BY <1>1, <2>1 DEF NotNewer
<1>5. CASE DropEdit \/ PublishLocal \/ StartRevert
  <2>1. UNCHANGED <<active, inForce, override>> /\ menu'.pc \in {"idle", "discard"}
    BY <1>3, <1>5 DEF DropEdit, PublishLocal, StartRevert, device, card, Resting
  <2> QED
    BY <1>1, <2>1 DEF NotNewer
<1>6. CASE CheckToken
  <2>1. UNCHANGED <<active, inForce, override>> /\ menu.pc = "editing" /\ menu'.pc = "parse"
        /\ menu'.doc = menu.doc
    BY <1>2, <1>6 DEF CheckToken, device, card
  <2> QED
    BY <1>1, <2>1 DEF NotNewer
<1>7. CASE ApplyLocal
  <2>1. /\ menu.pc = "parse" /\ inForce' = menu.doc /\ active' = menu.doc.v /\ override' = override
        /\ menu'.pc = "save" /\ menu'.doc = menu.doc /\ menu'.token[1] = base.v
    BY <1>2, <1>7 DEF ApplyLocal, Run, card
  <2> QED
    BY <1>1, <1>2, <2>1 DEF NotNewer
<1>8. CASE SaveLocal
  <2>1. /\ UNCHANGED <<active, inForce>> /\ menu.pc = "save" /\ menu'.pc = "publish"
        /\ override' = override \/ (override'.v = menu.doc.v /\ override'.base = menu.token[1])
    BY <1>2, <1>8 DEF SaveLocal, Written, device
  <2> QED
    BY <1>1, <2>1 DEF NotNewer
<1>9. CASE RevertRemoves
  <2>1. override' \in {override, NoFile} /\ (menu'.pc = "idle" \/ (menu'.pc = "revert" /\ menu'.doc = base))
    BY <1>2, <1>3, <1>9 DEF RevertRemoves, Remove
  <2>2. \/ UNCHANGED <<active, inForce>>
        \/ base.v = 0 /\ inForce' = Nothing /\ active' = active
    BY <1>9 DEF RevertRemoves, device
  <2>3. active' = inForce'.v /\ inForce'.v <= base.v
    BY <1>2, <1>3, <2>2 DEF NotNewer
  <2>4. override'.v <= override'.base /\ override'.base <= base.v
    BY <1>2, <1>3, <2>1 DEF NotNewer
  <2> QED
    BY <1>1, <1>2, <2>1, <2>3, <2>4 DEF NotNewer
<1>10. CASE Revert
  <2>1. /\ menu.pc = "revert" /\ inForce' = menu.doc /\ active' = menu.doc.v /\ override' = override
        /\ menu'.pc = "idle"
    BY <1>3, <1>10 DEF Revert, Run, card
  <2> QED
    BY <1>1, <2>1 DEF NotNewer
<1> QED
  BY <1>4, <1>5, <1>6, <1>7, <1>8, <1>9, <1>10 DEF Operator, Editing

LEMMA NotNewerRestart ==
    ASSUME ProgrammeTypes, NotNewer, Restart
    PROVE  NotNewer'
<1>1. base' = cache /\ menu' = Resting
  BY DEF Restart
<1>2. Resting.pc = "idle" /\ NoFile.v = 0 /\ NoFile.base = 0
  BY DEF Resting, NoFile
<1>3. cache.v \in Nat /\ override.v \in Nat /\ override.base \in Nat
  BY VersionsAreNat, MoreAreNat
<1>4. CASE Adoptable
  <2>1. /\ inForce'.v = override.v /\ active' = override.v /\ override' = override
        /\ override.base = cache.v
    BY <1>4 DEF Restart, Run, Adoptable
  <2> QED
    BY <1>1, <1>2, <1>3, <2>1 DEF NotNewer
<1>5. CASE ~Adoptable
  <2>1. inForce' = cache /\ active' = cache.v /\ override' = NoFile
    BY <1>5 DEF Restart, Run
  <2> QED
    BY <1>1, <1>2, <1>3, <2>1 DEF NotNewer
<1> QED
  BY <1>4, <1>5

LEMMA NotNewerKept == ProgrammeTypes /\ Ascending /\ NotNewer /\ [Next]_vars => NotNewer'
<1> SUFFICES ASSUME ProgrammeTypes, Ascending, NotNewer, [Next]_vars PROVE NotNewer'
  OBVIOUS
<1>1. CASE UNCHANGED vars \/ OwnerPublishes \/ ServerTakes \/ LinkDrops \/ Connect \/ OfferPending
  <2>1. UNCHANGED <<active, inForce, base, menu, override>>
    BY <1>1 DEF vars, OwnerPublishes, ServerTakes, LinkDrops, Connect, OfferPending, device, card, tasks
  <2> QED
    BY <2>1, NotNewerSame
<1> QED
  BY <1>1, NotNewerListen, NotNewerEditor, NotNewerRestart DEF Next, Outside

(* Between any two steps of any task, the version reported to the server   *)
(* is the version of the document that drives the relays.                  *)
THEOREM RunsWhatIsReported == Spec => []ReportsWhatRuns
<1>1. NotNewer => ReportsWhatRuns
  BY DEF NotNewer, ReportsWhatRuns
<1> QED
  BY <1>1, ProgrammeTypesInit, AscendingInit, NotNewerInit, ProgrammeTypesKept, AscendingKept,
     NotNewerKept, PTL DEF Spec

(* ----------------------------- dead edits ------------------------------ *)

(* Wherever an edit that is dead still lies, on the card or in the hands   *)
(* of the menu that is about to write it, it is older than the card.       *)
BuriedOnCard == override # NoFile /\ override.c \in dead => override.base < cache.v
BuriedInMenu == menu.pc = "save" /\ menu.doc.c \in dead => menu.token[1] < cache.v

(* An edit just superseded will be: the version that did it is newer.      *)
Dying ==
    /\ listen.pc = "parse" => listen.beaten = NoContent
    /\ listen.pc \in {"clear", "cache"} /\ listen.beaten # NoContent =>
          /\ override # NoFile /\ override.c = listen.beaten => override.base < listen.doc.v
          /\ menu.pc = "save" /\ menu.doc.c = listen.beaten => menu.token[1] < listen.doc.v

Buried == /\ BuriedOnCard /\ BuriedInMenu /\ Dying
          /\ menu.pc = "revert" => override = NoFile

LEMMA BuriedInit == Init => Buried
<1>1. Idle.pc = "idle" /\ Resting.pc = "idle"
  BY DEF Idle, Resting
<1> QED
  BY <1>1 DEF Init, Buried, BuriedOnCard, BuriedInMenu, Dying

(* An edit not entered yet has been seen nowhere.                          *)
LEMMA Fresh ==
    ASSUME ProgrammeTypes, menu.pc = "parse"
    PROVE  menu.doc.c \notin Old
<1>1. menu.doc.c = Edit(edits) /\ edits \in Nat /\ Entered = edits - 1
  BY DEF ProgrammeTypes, MenuTypes, Entered
<1>2. Edit(edits) # NoContent /\ \A v \in 1..MaxVersion : Edit(edits) # Pub(v)
  BY DEF Edit, NoContent, Pub
<1>3. \A n \in 1..Entered : Edit(edits) # Edit(n)
  BY <1>1 DEF Edit
<1> QED
  BY <1>1, <1>2, <1>3 DEF Old

LEMMA BuriedListen ==
    ASSUME ProgrammeTypes, Ascending, NotNewer, Buried, Listening
    PROVE  Buried'
<1>1. menu' = menu
  BY DEF Listening, Hear, ApplyPublished, RemoveOverride, CachePublished, AdoptPublishedVersion,
         RemoveSettled, tasks
<1>2. /\ base.v \in Nat /\ cache.v \in Nat /\ listen.doc.v \in Nat /\ Floor \in Nat
      /\ override.base \in Nat /\ menu.token[1] \in Nat
      /\ base.v <= Floor /\ cache.v <= base.v
      /\ override.base <= base.v /\ (menu.pc = "save" => menu.token[1] <= base.v)
  BY VersionsAreNat, MoreAreNat DEF Ascending, NotNewer
<1>3. listen = [pc |-> listen.pc, doc |-> listen.doc, was |-> listen.was, beaten |-> listen.beaten]
  BY DEF ProgrammeTypes, DeviceTypes
<1>4. CASE Hear
  <2>1. cache' = cache /\ override' = override /\ dead' = dead
    BY <1>4 DEF Hear, card
  <2>2. /\ listen'.pc \notin {"clear", "cache"}
        /\ listen'.pc = "parse" => listen'.beaten = NoContent
    BY <1>4 DEF Hear, Idle
  <2> QED
    BY <1>1, <2>1, <2>2 DEF Buried, BuriedOnCard, BuriedInMenu, Dying
<1>5. CASE ApplyPublished
  <2>1. cache' = cache /\ override' = override /\ dead' = dead /\ listen.pc = "parse"
    BY <1>5 DEF ApplyPublished, card, past
  <2>2. listen.beaten = NoContent /\ Floor = listen.doc.v
    BY <2>1 DEF Buried, Dying, Floor
  <2>3. /\ listen'.pc # "parse" /\ listen'.doc = listen.doc
        /\ listen'.beaten # NoContent => base.v # listen.doc.v
    BY <1>3, <1>5, <2>2 DEF ApplyPublished, AfterClear
  <2>4. base.v # listen.doc.v => /\ override.base < listen.doc.v
                                 /\ menu.pc = "save" => menu.token[1] < listen.doc.v
    BY <1>2, <2>2
  <2>5. Dying'
    BY <1>1, <2>1, <2>3, <2>4 DEF Dying
  <2> QED
    BY <1>1, <2>1, <2>5 DEF Buried, BuriedOnCard, BuriedInMenu
<1>6. CASE RemoveOverride
  <2>1. /\ cache' = cache /\ override' \in {override, NoFile} /\ dead' = dead
        /\ listen.pc = "clear"
    BY <1>6 DEF RemoveOverride, Written, Remove, past
  <2>2. /\ listen'.pc \in {"cache", "idle"} /\ listen'.doc = listen.doc
        /\ listen'.beaten = listen.beaten
    BY <1>3, <1>6 DEF RemoveOverride, AfterClear
  <2> QED
    BY <1>1, <2>1, <2>2 DEF Buried, BuriedOnCard, BuriedInMenu, Dying
<1>7. CASE CachePublished
  <2>1. /\ override' = override /\ listen.pc = "cache" /\ listen' = Idle
        /\ dead' \subseteq dead \/ cache' = listen.doc
        /\ cache' = cache \/ cache' = listen.doc
    BY <1>7 DEF CachePublished, Written
  <2>2. dead' \subseteq dead \cup ({listen.beaten} \ {NoContent}) /\ listen.doc = base
    BY <1>7 DEF CachePublished, Ascending
  <2>3. listen'.pc = "idle"
    BY <2>1 DEF Idle
  <2>4. BuriedOnCard' /\ BuriedInMenu'
    <3>1. CASE cache' = cache /\ dead' \subseteq dead
      BY <1>1, <2>1, <3>1 DEF Buried, BuriedOnCard, BuriedInMenu
    <3>2. CASE cache' = listen.doc
      <4>1. \A b \in Nat : b < cache.v \/ b < listen.doc.v => b < cache'.v
        BY <1>2, <2>2, <3>2
      <4>2. ASSUME override # NoFile, override.c \in dead' PROVE override.base < cache'.v
        BY <1>2, <2>1, <2>2, <4>1, <4>2 DEF Buried, BuriedOnCard, Dying
      <4>3. ASSUME menu.pc = "save", menu.doc.c \in dead' PROVE menu.token[1] < cache'.v
        BY <1>2, <2>1, <2>2, <4>1, <4>3 DEF Buried, BuriedInMenu, Dying
      <4> QED
        BY <1>1, <2>1, <4>2, <4>3 DEF BuriedOnCard, BuriedInMenu
    <3> QED
      BY <2>1, <3>1, <3>2
  <2> QED
    BY <1>1, <2>1, <2>3, <2>4 DEF Buried, Dying
<1>8. CASE AdoptPublishedVersion \/ RemoveSettled
  <2>1. cache' = cache /\ override' \in {override, NoFile} /\ dead' = dead
    BY <1>8 DEF AdoptPublishedVersion, RemoveSettled, Written, Remove, card, past
  <2>2. listen'.pc \in {"settle", "idle"}
    BY <1>3, <1>8 DEF AdoptPublishedVersion, RemoveSettled, Idle
  <2> QED
    BY <1>1, <2>1, <2>2 DEF Buried, BuriedOnCard, BuriedInMenu, Dying
<1> QED
  BY <1>4, <1>5, <1>6, <1>7, <1>8 DEF Listening

LEMMA BuriedEditor ==
    ASSUME ProgrammeTypes, Buried, Operator \/ Editing
    PROVE  Buried'
<1>1. listen' = listen /\ cache' = cache
  BY DEF Operator, StartEdit, DropEdit, CheckToken, StartRevert, Editing, ApplyLocal, SaveLocal,
         PublishLocal, RevertRemoves, Revert, Written, Remove, card
<1>2. menu = [pc |-> menu.pc, doc |-> menu.doc, token |-> menu.token] /\ Resting.pc = "idle"
  BY MoreAreNat DEF Resting
<1>3. CASE StartEdit \/ DropEdit \/ CheckToken \/ StartRevert \/ PublishLocal
  <2>1. override' = override /\ dead' = dead
    BY <1>3 DEF StartEdit, DropEdit, CheckToken, StartRevert, PublishLocal, card, past
  <2>2. menu'.pc \in {"idle", "editing", "parse", "discard"}
    BY <1>2, <1>3 DEF StartEdit, DropEdit, CheckToken, StartRevert, PublishLocal, Resting
  <2> QED
    BY <1>1, <2>1, <2>2 DEF Buried, BuriedOnCard, BuriedInMenu, Dying
<1>4. CASE ApplyLocal
  <2>1. /\ override' = override /\ dead' = dead /\ menu.pc = "parse"
        /\ menu'.pc = "save" /\ menu'.doc = menu.doc
    BY <1>2, <1>4 DEF ApplyLocal, card, past
  <2>2. menu.doc.c \notin Old
    BY <2>1, Fresh
  <2>3. dead \subseteq Old /\ listen.beaten \in Old
    BY DEF ProgrammeTypes, DeviceTypes
  <2> QED
    BY <1>1, <2>1, <2>2, <2>3 DEF Buried, BuriedOnCard, BuriedInMenu, Dying
<1>5. CASE SaveLocal
  <2>1. /\ dead' = dead /\ menu.pc = "save" /\ menu'.pc = "publish"
        /\ override' = override \/ (override'.c = menu.doc.c /\ override'.base = menu.token[1])
    BY <1>2, <1>5 DEF SaveLocal, Written, past
  <2> QED
    BY <1>1, <2>1 DEF Buried, BuriedOnCard, BuriedInMenu, Dying
<1>6. CASE RevertRemoves
  <2>1. dead' = dead /\ menu'.pc \in {"idle", "revert"} /\ override' \in {override, NoFile}
        /\ (menu'.pc = "revert" => override' = NoFile)
    BY <1>2, <1>6 DEF RevertRemoves, Remove, past
  <2> QED
    BY <1>1, <2>1 DEF Buried, BuriedOnCard, BuriedInMenu, Dying
<1>7. CASE Revert
  <2>1. override' = override /\ menu.pc = "revert" /\ menu'.pc = "idle"
    BY <1>2, <1>7 DEF Revert, card
  <2> QED
    BY <1>1, <2>1 DEF Buried, BuriedOnCard, BuriedInMenu, Dying
<1> QED
  BY <1>3, <1>4, <1>5, <1>6, <1>7 DEF Operator, Editing

LEMMA BuriedKept == ProgrammeTypes /\ Ascending /\ NotNewer /\ Buried /\ [Next]_vars => Buried'
<1> SUFFICES ASSUME ProgrammeTypes, Ascending, NotNewer, Buried, [Next]_vars PROVE Buried'
  OBVIOUS
<1>1. CASE UNCHANGED vars \/ OwnerPublishes \/ ServerTakes \/ LinkDrops \/ Connect \/ OfferPending
  <2>1. UNCHANGED <<cache, override, dead, listen, menu>>
    BY <1>1 DEF vars, OwnerPublishes, ServerTakes, LinkDrops, Connect, OfferPending, device, card,
       tasks, past
  <2> QED
    BY <2>1 DEF Buried, BuriedOnCard, BuriedInMenu, Dying
<1>2. CASE Restart
  <2>1. cache' = cache /\ dead' = dead /\ override' \in {override, NoFile} /\ listen' = Idle
        /\ menu' = Resting
    BY <1>2 DEF Restart
  <2>2. listen'.pc = "idle" /\ menu'.pc = "idle"
    BY <2>1 DEF Idle, Resting
  <2> QED
    BY <2>1, <2>2 DEF Buried, BuriedOnCard, BuriedInMenu, Dying
<1> QED
  BY <1>1, <1>2, BuriedListen, BuriedEditor DEF Next, Outside

(* However the menu's thread, the listen loop, failed removals and power   *)
(* cuts meet: no restart brings back an edit that was superseded on the    *)
(* card or discarded by the operator.                                      *)
THEOREM NoDeadEditReturns == Spec => []DeadEditsStayDead
<1>1. ProgrammeTypes /\ Buried => DeadEditsStayDead
  <2> SUFFICES ASSUME ProgrammeTypes, Buried, Adoptable PROVE override.c \notin dead
    BY DEF DeadEditsStayDead
  <2>1. cache.v \in Nat
    BY VersionsAreNat
  <2> QED
    BY <2>1 DEF Buried, BuriedOnCard, Adoptable
<1> QED
  BY <1>1, ProgrammeTypesInit, AscendingInit, NotNewerInit, BuriedInit, ProgrammeTypesKept,
     AscendingKept, NotNewerKept, BuriedKept, PTL DEF Spec
=============================================================================
