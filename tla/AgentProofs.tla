---------------------------- MODULE AgentProofs -----------------------------
(***************************************************************************)
(* What is proved of the parts of the agent that meet only through what    *)
(* the others take as given.  SignIn: no refusal, timeout, typing or power *)
(* cut costs a paired device its credentials.  JsonFile: with one writer   *)
(* at a time saving a document implements a register, wherever the power   *)
(* goes.  Watcher: for any probes, failures and resets, between two looks  *)
(* the card has the whole order, but for the accidents that OrderIsKept    *)
(* names.  Wiring: whatever records the server sends, no probe of a boiler *)
(* is left out of its guards and a unit switches its own relay alone.      *)
(* Programme: what is wanted of a unit is what was last said of it, and a  *)
(* wizard changes one entry, the one that was shown, unless a publish comes*)
(* while the edit is parsed.                                               *)
(***************************************************************************)
EXTENDS SignIn, JsonFile, Watcher, Wiring, Programme,
        FiniteSetTheorems, NaturalsInduction, WellFoundedInduction, TLAPS

(* ------------------------------- SignIn -------------------------------- *)

(* A device that is paired works with what it has kept, and has nothing    *)
(* typed that waits to be written, until it has logged in; and then        *)
(* auth_loop, which alone writes, has returned.                            *)
UntilLoggedIn ==
    kept # None =>
        \/ auth = "returned"
        \/ env = kept /\ ~unsaved /\ ~needed /\ dialog = "menu" /\ auth # "saving"

LEMMA UntilLoggedInStep == UntilLoggedIn /\ [SignInNext]_signInVars => UntilLoggedIn'
<1> SUFFICES ASSUME UntilLoggedIn, [SignInNext]_signInVars PROVE UntilLoggedIn'
  OBVIOUS
<1> USE DEF UntilLoggedIn
<1>1. CASE AuthStep
  <2>1. CASE AskOperator
    BY <2>1 DEF AskOperator
  <2>2. CASE Login \/ WakeUp \/ Supervise \/ Retry
    BY <2>2 DEF Login, WakeUp, Supervise, Retry, events
  <2>3. CASE SaveCredentials \/ SaveFails
    BY <2>3 DEF SaveCredentials, SaveFails
  <2> QED
    BY <1>1, <2>1, <2>2, <2>3 DEF AuthStep
<1>2. CASE Answer
  <2>1. CASE Accepted
    BY <2>1 DEF Accepted
  <2>2. CASE Refused
    BY <2>2 DEF Refused, MayForget
  <2> QED
    BY <1>2, <2>1, <2>2 DEF Answer
<1>3. CASE Unreachable \/ TaskDies
  BY <1>3 DEF Unreachable, TaskDies, events
<1>4. CASE DialogStep
  <2>1. CASE OpenSignIn
    BY <2>1 DEF OpenSignIn, CredentialsWanted
  <2>2. CASE StartTyping \/ HearAccepted \/ HearRefused \/ HearNothing
    BY <2>2 DEF StartTyping, HearAccepted, HearRefused, HearNothing, events
  <2> QED
    BY <1>4, <2>1, <2>2 DEF DialogStep
<1>5. CASE Decline \/ TypeUnusable \/ \E typed \in {"good", "bad"} : TypeCredentials(typed)
  BY <1>5 DEF Decline, TypeUnusable, TypeCredentials
<1>6. CASE PowerCut
  BY <1>6 DEF PowerCut
<1>7. CASE UNCHANGED signInVars
  BY <1>7 DEF signInVars, events
<1> QED
  BY <1>1, <1>2, <1>3, <1>4, <1>5, <1>6, <1>7 DEF SignInNext

(* Only a save changes what is kept, and a device that is paired is not    *)
(* about to make one.                                                      *)
LEMMA OnlySavingChanges ==
    UntilLoggedIn /\ [SignInNext]_signInVars => (kept # None => kept' = kept)
<1> SUFFICES ASSUME UntilLoggedIn, [SignInNext]_signInVars, kept # None PROVE kept' = kept
  OBVIOUS
<1>1. CASE SaveCredentials
  BY <1>1 DEF SaveCredentials, UntilLoggedIn
<1>2. CASE AskOperator \/ Login \/ WakeUp \/ Supervise \/ Retry \/ SaveFails
  BY <1>2 DEF AskOperator, Login, WakeUp, Supervise, Retry, SaveFails
<1>3. CASE Answer \/ Unreachable \/ TaskDies \/ DialogStep
  BY <1>3 DEF Answer, Accepted, Refused, Unreachable, TaskDies, DialogStep, OpenSignIn,
     StartTyping, HearAccepted, HearRefused, HearNothing
<1>4. CASE Decline \/ TypeUnusable \/ \E typed \in {"good", "bad"} : TypeCredentials(typed)
  BY <1>4 DEF Decline, TypeUnusable, TypeCredentials
<1>5. CASE PowerCut \/ UNCHANGED signInVars
  BY <1>5 DEF PowerCut, signInVars
<1> QED
  BY <1>1, <1>2, <1>3, <1>4, <1>5 DEF SignInNext, AuthStep

(* A paired device stays paired with what it has, for any number of power  *)
(* cuts and attempts.                                                      *)
THEOREM StaysPaired == SignInSpec => PairedStaysPaired
<1>1. SignInInit => UntilLoggedIn
  BY DEF SignInInit, UntilLoggedIn
<1> QED
  BY <1>1, UntilLoggedInStep, OnlySavingChanges, PTL DEF SignInSpec, PairedStaysPaired
(* ------------------------------ JsonFile ------------------------------- *)

(* Where a writer that is alone stands, and what is beside the document.   *)
InStep ==
    /\ step \in [Writers -> {"idle", "opened", "written"}]
    /\ DOMAIN doc = Writers /\ DOMAIN handle = Writers
    /\ \A w \in Writers :
          /\ step[w] = "idle" => doc[w] = Nothing
          /\ step[w] # "idle" => doc[w] \in Contents /\ handle[w] = "temp"
          /\ step[w] = "opened" => temp = Torn
          /\ step[w] = "written" => temp = doc[w]

(* A document is not Nothing, and not torn.                                *)
LEMMA Whole == \A d \in Contents : d # Nothing /\ d # Torn
BY JsonAssumption

LEMMA OpenStep ==
    ASSUME \A v, w \in Writers : v = w, InStep,
           NEW w \in Writers, NEW d \in Contents, OpenTemp(w, d)
    PROVE  InStep' /\ Saved!Ask(w, d)
<1>1. InStep'
  BY DEF InStep, OpenTemp
<1>2. Saved!Ask(w, d)
  BY DEF InStep, OpenTemp, Saved!Ask
<1> QED
  BY <1>1, <1>2

(* Alone, a writer finds its own empty file.                               *)
LEMMA WriteStep ==
    ASSUME \A v, w \in Writers : v = w, InStep, NEW w \in Writers, Write(w)
    PROVE  InStep' /\ UNCHANGED <<file, doc>>
<1>1. step[w] = "opened" /\ handle[w] = "temp" /\ temp = Torn
  BY DEF InStep, Write
<1>2. temp' = doc[w] /\ file' = file
  BY <1>1 DEF Write, Overwrites
<1>3. doc' = doc /\ handle' = handle /\ step' = [step EXCEPT ![w] = "written"]
  BY DEF Write
<1>4. InStep'
  BY <1>1, <1>2, <1>3 DEF InStep
<1> QED
  BY <1>2, <1>3, <1>4

LEMMA ReplaceStep ==
    ASSUME \A v, w \in Writers : v = w, InStep, NEW w \in Writers, Replace(w)
    PROVE  InStep' /\ Saved!Put(w)
<1>1. step[w] = "written" /\ temp = doc[w] /\ doc[w] \in Contents
  BY DEF InStep, Replace
<1>2. temp # Nothing
  BY <1>1, Whole
<1>3. /\ step' = [step EXCEPT ![w] = "idle"] /\ doc' = [doc EXCEPT ![w] = Nothing]
      /\ file' = doc[w] /\ handle' = [v \in Writers |-> "file"]
  BY <1>1, <1>2 DEF Replace
<1>4. InStep'
  BY <1>3 DEF InStep
<1>5. Saved!Put(w)
  BY <1>1, <1>2, <1>3 DEF Saved!Put
<1> QED
  BY <1>4, <1>5

LEMMA PowerStep == InStep /\ PowerFails => InStep' /\ Saved!PowerCut
BY DEF InStep, PowerFails, Saved!PowerCut

LEMMA SavingStep ==
    ASSUME \A v, w \in Writers : v = w
    PROVE  InStep /\ [JsonNext]_jsonVars => InStep' /\ [Saved!RegisterNext]_(Saved!registerVars)
<1> SUFFICES ASSUME InStep, [JsonNext]_jsonVars
             PROVE  InStep' /\ [Saved!RegisterNext]_(Saved!registerVars)
  OBVIOUS
<1>1. CASE PowerFails
  BY <1>1, PowerStep DEF Saved!RegisterNext
<1>2. ASSUME NEW w \in Writers, NEW d \in Contents, OpenTemp(w, d)
      PROVE  InStep' /\ [Saved!RegisterNext]_(Saved!registerVars)
  BY <1>2, OpenStep DEF Saved!RegisterNext
<1>3. ASSUME NEW w \in Writers, Write(w)
      PROVE  InStep' /\ [Saved!RegisterNext]_(Saved!registerVars)
  BY <1>3, WriteStep DEF Saved!registerVars
<1>4. ASSUME NEW w \in Writers, Replace(w)
      PROVE  InStep' /\ [Saved!RegisterNext]_(Saved!registerVars)
  BY <1>4, ReplaceStep DEF Saved!RegisterNext
<1>5. CASE UNCHANGED jsonVars
  BY <1>5 DEF jsonVars, InStep, Saved!registerVars
<1> QED
  BY <1>1, <1>2, <1>3, <1>4, <1>5 DEF JsonNext

(* One writer at a time and a file system that renames in one step give a  *)
(* register, for any documents and any number of power cuts.               *)
THEOREM SavingIsARegister ==
    ASSUME \A v, w \in Writers : v = w
    PROVE  JsonSpec => ImplementsRegister
<1>1. JsonInit => InStep /\ Saved!RegisterInit
  BY DEF JsonInit, InStep, Saved!RegisterInit
<1>2. InStep /\ [JsonNext]_jsonVars => InStep' /\ [Saved!RegisterNext]_(Saved!registerVars)
  BY SavingStep
<1> QED
  BY <1>1, <1>2, PTL DEF JsonSpec, ImplementsRegister, Saved!RegisterSpec
(* ------------------------------- Watcher ------------------------------- *)

Places == {"rest", "look", "marked", "making", "writing"}

WatcherTypeOK ==
    /\ order \in Seq(Probes) /\ card \in Seq(Probes)
    /\ bus \subseteq Probes /\ dirty \in BOOLEAN /\ upset \in BOOLEAN
    /\ scan \in [pc : Places, todo : SUBSET Probes, seen : SUBSET Probes, doc : Seq(Probes),
                 clean : BOOLEAN]
    /\ clearing \in {"none", "flag", "file"}

(* Between two looks, and during one that a reset did not meet, what the   *)
(* card lacks is either marked as to be saved or in the document that is   *)
(* being saved.                                                            *)
Tracked ==
    /\ linked \subseteq ToSet(order)
    /\ scan.pc # "rest" /\ clearing # "none" => ~scan.clean
    /\ scan.pc # "rest" /\ ~scan.clean => upset
    /\ scan.pc = "rest" /\ clearing # "none" /\ ~upset => order = <<>>
    /\ scan.pc \in {"look", "marked"} /\ ~dirty /\ ~upset => card = order
    /\ scan.pc = "writing" /\ scan.clean => scan.doc = order
    /\ OrderIsKept

(* A sequence gets a member at its end and loses none.                     *)
LEMMA AppendedSet ==
    ASSUME NEW S, NEW s \in Seq(S), NEW e \in S
    PROVE  Append(s, e) \in Seq(S) /\ ToSet(Append(s, e)) = ToSet(s) \cup {e}
<1>1. /\ Append(s, e) \in Seq(S)
      /\ DOMAIN s = 1..Len(s) /\ Len(s) \in Nat
      /\ DOMAIN Append(s, e) = 1..(Len(s) + 1)
      /\ \A i \in 1..Len(s) : Append(s, e)[i] = s[i]
      /\ Append(s, e)[Len(s) + 1] = e
  OBVIOUS
<1>2. \A i \in 1..(Len(s) + 1) : i \in 1..Len(s) \/ i = Len(s) + 1
  BY <1>1
<1>3. ToSet(Append(s, e)) \subseteq ToSet(s) \cup {e}
  BY <1>1, <1>2 DEF ToSet
<1>4. ToSet(s) \cup {e} \subseteq ToSet(Append(s, e))
  <2>1. \A i \in 1..Len(s) : i \in 1..(Len(s) + 1)
    BY <1>1
  <2>2. Len(s) + 1 \in 1..(Len(s) + 1)
    BY <1>1
  <2> QED
    BY <1>1, <2>1, <2>2 DEF ToSet
<1> QED
  BY <1>1, <1>3, <1>4

LEMMA EmptyOrder == <<>> \in Seq(Probes) /\ ToSet(<<>>) = {}
BY DEF ToSet

LEMMA Resting ==
    /\ AtRest \in [pc : Places, todo : SUBSET Probes, seen : SUBSET Probes, doc : Seq(Probes),
                   clean : BOOLEAN]
    /\ AtRest.pc = "rest"
BY EmptyOrder DEF AtRest, Places

LEMMA LookStep ==
    ASSUME WatcherTypeOK, Tracked, NEW p \in Probes, LookAt(p)
    PROVE  WatcherTypeOK' /\ Tracked'
<1>1. /\ scan.pc = "look" /\ p \in scan.todo
      /\ scan'.pc = "look" /\ scan'.clean = scan.clean
      /\ scan' \in [pc : Places, todo : SUBSET Probes, seen : SUBSET Probes, doc : Seq(Probes),
                    clean : BOOLEAN]
      /\ bus' = bus /\ card' = card /\ clearing' = clearing /\ upset' = upset
  BY DEF LookAt, WatcherTypeOK, Places
<1>2. CASE p \notin bus
  <2>1. order' = order /\ linked' = linked /\ dirty' = dirty
    BY <1>2 DEF LookAt, memory
  <2> QED
    BY <1>1, <2>1 DEF WatcherTypeOK, Tracked, OrderIsKept
<1>3. CASE p \in bus /\ p \in ToSet(order)
  <2>1. order' = order /\ linked' = linked \cup {p} /\ dirty' = (dirty \/ Noted(p))
    BY <1>3 DEF LookAt
  <2> QED
    BY <1>1, <1>3, <2>1 DEF WatcherTypeOK, Tracked, OrderIsKept, Noted
<1>4. CASE p \in bus /\ p \notin ToSet(order)
  <2>1. order' = Append(order, p) /\ linked' = linked \cup {p} /\ dirty' = (dirty \/ Noted(p))
    BY <1>4 DEF LookAt
  <2>2. order' \in Seq(Probes) /\ ToSet(order') = ToSet(order) \cup {p}
    BY <2>1, AppendedSet DEF WatcherTypeOK
  <2>3. p \notin linked
    BY <1>4 DEF Tracked
  <2>4. dirty' = TRUE
    BY <2>1, <2>3 DEF Noted
  <2> QED
    BY <1>1, <2>1, <2>2, <2>4 DEF WatcherTypeOK, Tracked, OrderIsKept
<1> QED
  BY <1>2, <1>3, <1>4

(* The rest of the thread's look, and what befalls the bus.                *)
LEMMA ScanStep ==
    ASSUME WatcherTypeOK, Tracked,
           ListBus \/ MarkGone \/ Save \/ MakeDocument \/ WriteCache \/ WriteFails
    PROVE  WatcherTypeOK' /\ Tracked'
<1> USE DEF WatcherTypeOK, Tracked, OrderIsKept, Places, memory
<1>1. CASE ListBus
  <2>1. /\ scan.pc = "rest" /\ clearing = "none"
        /\ scan'.pc = "look" /\ scan'.clean = TRUE
        /\ scan' \in [pc : Places, todo : SUBSET Probes, seen : SUBSET Probes, doc : Seq(Probes),
                      clean : BOOLEAN]
    BY <1>1, EmptyOrder DEF ListBus, AtRest
  <2>2. /\ order' = order /\ linked' = linked /\ dirty' = dirty /\ card' = card
        /\ bus' = bus /\ clearing' = clearing /\ upset' = upset
    BY <1>1 DEF ListBus
  <2> QED
    BY <2>1, <2>2
<1>2. CASE MarkGone
  <2>1. /\ scan.pc = "look" /\ scan'.pc = "marked" /\ scan'.clean = scan.clean
        /\ scan' \in [pc : Places, todo : SUBSET Probes, seen : SUBSET Probes, doc : Seq(Probes),
                      clean : BOOLEAN]
    BY <1>2 DEF MarkGone
  <2>2. /\ linked' \subseteq linked /\ order' = order /\ card' = card /\ bus' = bus
        /\ clearing' = clearing /\ upset' = upset
        /\ dirty' \in BOOLEAN /\ (dirty => dirty')
    BY <1>2 DEF MarkGone
  <2> QED
    BY <2>1, <2>2
<1>3. CASE Save
  <2>1. /\ scan.pc = "marked"
        /\ order' = order /\ linked' = linked /\ dirty' = FALSE /\ card' = card
        /\ bus' = bus /\ clearing' = clearing /\ upset' = upset
    BY <1>3 DEF Save
  <2>2. CASE dirty
    <3>1. /\ scan'.pc = "making" /\ scan'.clean = scan.clean
          /\ scan' \in [pc : Places, todo : SUBSET Probes, seen : SUBSET Probes,
                        doc : Seq(Probes), clean : BOOLEAN]
      BY <1>3, <2>2 DEF Save
    <3> QED
      BY <2>1, <3>1
  <2>3. CASE ~dirty
    <3>1. scan' = AtRest
      BY <1>3, <2>3 DEF Save
    <3> QED
      BY <2>1, <2>3, <3>1, Resting
  <2> QED
    BY <2>2, <2>3
<1>4. CASE MakeDocument
  <2>1. /\ scan.pc = "making" /\ scan'.pc = "writing" /\ scan'.clean = scan.clean
        /\ scan'.doc = order
        /\ scan' \in [pc : Places, todo : SUBSET Probes, seen : SUBSET Probes, doc : Seq(Probes),
                      clean : BOOLEAN]
    BY <1>4 DEF MakeDocument
  <2> QED
    BY <1>4, <2>1 DEF MakeDocument
<1>5. CASE WriteCache
  BY <1>5 DEF WriteCache, AtRest
<1>6. CASE WriteFails
  BY <1>6 DEF WriteFails, AtRest
<1> QED
  BY <1>1, <1>2, <1>3, <1>4, <1>5, <1>6

LEMMA ResetStep ==
    ASSUME WatcherTypeOK, Tracked,
           Reset \/ DropFlag \/ DeleteFile \/ WatcherRestarts
    PROVE  WatcherTypeOK' /\ Tracked'
<1> USE DEF WatcherTypeOK, Tracked, OrderIsKept, Places, memory
<1>1. CASE Reset
  <2>1. /\ order' = <<>> /\ linked' = {} /\ card' = card /\ bus' = bus /\ dirty' = dirty
        /\ clearing' = "flag" /\ upset' = (upset \/ scan.pc # "rest")
    BY <1>1 DEF Reset
  <2>2. CASE scan' = [scan EXCEPT !.clean = scan.pc = "rest"]
    <3>1. /\ scan'.pc = scan.pc /\ (scan.pc # "rest" => ~scan'.clean)
          /\ scan' \in [pc : Places, todo : SUBSET Probes, seen : SUBSET Probes,
                        doc : Seq(Probes), clean : BOOLEAN]
      BY <2>2
    <3> QED
      BY <2>1, <3>1, EmptyOrder
  <2>3. CASE scan.pc # "rest" /\ scan' = AtRest
    BY <2>1, <2>3, EmptyOrder DEF AtRest
  <2> QED
    BY <1>1, <2>2, <2>3 DEF Reset
<1>2. CASE DropFlag
  BY <1>2 DEF DropFlag
<1>3. CASE DeleteFile
  BY <1>3, EmptyOrder DEF DeleteFile
<1>4. CASE WatcherRestarts
  BY <1>4, EmptyOrder DEF WatcherRestarts, AtRest
<1> QED
  BY <1>1, <1>2, <1>3, <1>4

LEMMA WatcherStep == WatcherTypeOK /\ Tracked /\ [WatcherNext]_watcherVars
                     => WatcherTypeOK' /\ Tracked'
<1> SUFFICES ASSUME WatcherTypeOK, Tracked, [WatcherNext]_watcherVars
             PROVE  WatcherTypeOK' /\ Tracked'
  OBVIOUS
<1>1. ASSUME NEW p \in Probes, PlugOrUnplug(p) PROVE WatcherTypeOK' /\ Tracked'
  BY <1>1 DEF PlugOrUnplug, memory, WatcherTypeOK, Tracked, OrderIsKept
<1>2. CASE UNCHANGED watcherVars
  BY <1>2 DEF watcherVars, memory, WatcherTypeOK, Tracked, OrderIsKept
<1> QED
  BY <1>1, <1>2, LookStep, ScanStep, ResetStep DEF WatcherNext

(* The order of the probes is on the card between two looks, for any       *)
(* probes, write failures and resets.                                      *)
THEOREM OrderSurvives == WatcherSpec => []OrderIsKept
<1>1. WatcherInit => WatcherTypeOK
  BY Resting, EmptyOrder DEF WatcherInit, WatcherTypeOK
<1>2. WatcherInit => Tracked
  BY DEF WatcherInit, Tracked, OrderIsKept, AtRest
<1>3. WatcherTypeOK /\ Tracked => OrderIsKept
  BY DEF Tracked
<1> QED
  BY <1>1, <1>2, <1>3, WatcherStep, PTL DEF WatcherSpec

(* ------------------------------- Wiring -------------------------------- *)

(* A mapping is what its record says, and only records that can be used    *)
(* are mapped.                                                             *)
WiringOK ==
    /\ server \in Records /\ known \subseteq Records /\ cached \subseteq Records
    /\ \A r, s \in known : r = s
    /\ \A r, s \in cached : r = s
    /\ mapped \subseteq Records
    /\ \A r \in mapped : Usable(r)
    /\ \A r \in mapped, m \in mapping : m = MappingFrom(r)

LEMMA LoadKeeps ==
    ASSUME WiringOK, Load
    PROVE  /\ mapped' \subseteq Records /\ \A r \in mapped' : Usable(r)
           /\ \A r \in mapped', m \in mapping' : m = MappingFrom(r)
<1>1. CASE \E r \in known : Usable(r)
  <2>1. mapped' = known /\ mapping' = {MappingFrom(r) : r \in known}
    BY <1>1 DEF Load
  <2>2. QED
    BY <1>1, <2>1 DEF WiringOK
<1>2. CASE ~\E r \in known : Usable(r)
  BY <1>2 DEF Load, WiringOK
<1>3. QED
  BY <1>1, <1>2

LEMMA WiringStep == WiringOK /\ [WiringNext]_wiringVars => WiringOK'
<1> SUFFICES ASSUME WiringOK, [WiringNext]_wiringVars PROVE WiringOK'
  OBVIOUS
<1>1. CASE ServerEdits
  BY <1>1 DEF ServerEdits, WiringOK
<1>2. CASE FetchRecord
  BY <1>2 DEF FetchRecord, WiringOK
<1>3. CASE SaveRecord
  BY <1>3 DEF SaveRecord, WiringOK
<1>4. CASE SaveRecordFails
  BY <1>4 DEF SaveRecordFails, WiringOK
<1>5. CASE AdoptMappingIfMissing \/ ReloadMapping
  <2>1. Load \/ UNCHANGED <<mapping, mapped>>
    BY <1>5 DEF AdoptMappingIfMissing, ReloadMapping
  <2>2. UNCHANGED <<server, cached, known>>
    BY <1>5 DEF AdoptMappingIfMissing, ReloadMapping
  <2>3. QED
    BY <2>1, <2>2, LoadKeeps DEF WiringOK
<1>6. CASE Reboot
  <2>1. known' = cached /\ UNCHANGED <<server, cached>>
    BY <1>6 DEF Reboot
  <2>2. CASE \E r \in cached : Usable(r)
    <3>1. mapped' = cached /\ mapping' = {MappingFrom(r) : r \in cached}
      BY <1>6, <2>2 DEF Reboot
    <3>2. QED
      BY <2>1, <2>2, <3>1 DEF WiringOK
  <2>3. CASE ~\E r \in cached : Usable(r)
    <3>1. mapped' = {} /\ mapping' = {}
      BY <1>6, <2>3 DEF Reboot
    <3>2. QED
      BY <2>1, <3>1 DEF WiringOK
  <2>4. QED
    BY <2>2, <2>3
<1>7. CASE \E type \in {"boiler", "pump"}, index \in 1 .. 2, on \in BOOLEAN :
              Switch(type, index, on)
  BY <1>7 DEF Switch, WiringOK
<1>8. CASE UNCHANGED wiringVars
  BY <1>8 DEF wiringVars, WiringOK
<1>9. QED
  BY <1>1, <1>2, <1>3, <1>4, <1>5, <1>6, <1>7, <1>8 DEF WiringNext, RecordStep

LEMMA WiringInvariant == WiringSpec => []WiringOK
<1>1. WiringInit => WiringOK
  BY DEF WiringInit, WiringOK
<1>2. QED
  BY <1>1, WiringStep, PTL DEF WiringSpec

(* As many keys as entries: no two entries have one key.                   *)
LEMMA EntryOfKey ==
    ASSUME NEW entries, NEW some, IsFiniteSet(some), KeysApart(entries, some), NEW i \in some
    PROVE  /\ LocalKey(entries[i], i) \in Keys(entries, some)
           /\ (CHOOSE j \in some : LocalKey(entries[j], j) = LocalKey(entries[i], i)) = i
<1> DEFINE key == [j \in some |-> LocalKey(entries[j], j)]
<1>1. key \in Surjection(some, Keys(entries, some))
  BY DEF Surjection, Keys
<1>2. key \in Injection(some, Keys(entries, some))
  BY <1>1, FS_SurjSameCardinalityImpliesInj DEF KeysApart
<1>3. \A j \in some : LocalKey(entries[j], j) = LocalKey(entries[i], i) => j = i
  BY <1>2 DEF Injection, IsInjective
<1>4. QED
  BY <1>3 DEF Keys

LEMMA RecordsAreFinite ==
    ASSUME NEW r \in Records, NEW kinds
    PROVE  IsFiniteSet(OfKinds(r.sensors, kinds)) /\ IsFiniteSet(Enabled(r.relays))
<1>1. IsFiniteSet(DOMAIN r.sensors) /\ IsFiniteSet(DOMAIN r.relays)
  BY RecordsAssumption
<1>2. OfKinds(r.sensors, kinds) \subseteq DOMAIN r.sensors
      /\ Enabled(r.relays) \subseteq DOMAIN r.relays
  BY DEF OfKinds, Enabled
<1>3. QED
  BY <1>1, <1>2, FS_Subset

LEMMA ProbeIsMapped ==
    ASSUME NEW r \in Records, Usable(r), NEW i \in OfKinds(r.sensors, Thermometer)
    PROVE  LET k == LocalKey(r.sensors[i], i)
           IN  /\ k \in DOMAIN ProbesOf(r)
               /\ ProbesOf(r)[k] = [address |-> r.sensors[i].address, role |-> r.sensors[i].kind,
                                    unit |-> IndexOf(r.boilers, r.sensors[i].boiler)]
<1> DEFINE some == OfKinds(r.sensors, Thermometer)
           k == LocalKey(r.sensors[i], i)
<1>1. IsFiniteSet(some) /\ KeysApart(r.sensors, some)
  BY RecordsAreFinite DEF Usable, Mappable
<1>2. /\ k \in Keys(r.sensors, some)
      /\ (CHOOSE j \in some : LocalKey(r.sensors[j], j) = k) = i
  BY <1>1, EntryOfKey
<1> HIDE DEF k
<1>3. QED
  BY <1>2 DEF ProbesOf, ByKey, k

LEMMA RelayIsMapped ==
    ASSUME NEW r \in Records, Usable(r), NEW i \in Enabled(r.relays)
    PROVE  LET k == LocalKey(r.relays[i], i)
           IN  /\ k \in DOMAIN RelaysOf(r)
               /\ RelaysOf(r)[k].role = r.relays[i].role
               /\ RelaysOf(r)[k].unit = UnitOf(r, r.relays[i])
               /\ Sound(r, k, r.relays[i])
<1> DEFINE some == Enabled(r.relays)
           k == LocalKey(r.relays[i], i)
<1>1. IsFiniteSet(some) /\ KeysApart(r.relays, some)
  BY RecordsAreFinite DEF Usable, Mappable
<1>2. /\ k \in Keys(r.relays, some)
      /\ (CHOOSE j \in some : LocalKey(r.relays[j], j) = k) = i
  BY <1>1, EntryOfKey
<1>3. Sound(r, k, r.relays[i])
  BY DEF Usable, Mappable
<1> HIDE DEF k
<1>4. QED
  BY <1>2, <1>3 DEF RelaysOf, ByKey, k

LEMMA MappedKeys == ASSUME NEW r PROVE DOMAIN RelaysOf(r) = Keys(r.relays, Enabled(r.relays))
BY DEF RelaysOf, ByKey

(* Every water probe of a boiler guards it, for any records.               *)
THEOREM NoProbeLeftOut == WiringSpec => []EveryProbeGuards
<1>1. WiringOK => EveryProbeGuards
  <2> SUFFICES ASSUME WiringOK, NEW r \in mapped, NEW m \in mapping,
                      NEW i \in OfKinds(r.sensors, WaterRoles)
               PROVE  \E u \in r.boilers, k \in DOMAIN m.probes :
                        /\ u.id = r.sensors[i].boiler
                        /\ m.probes[k] = [address |-> r.sensors[i].address,
                                          role |-> r.sensors[i].kind, unit |-> u.index]
    BY DEF EveryProbeGuards
  <2>1. r \in Records /\ Usable(r) /\ m.probes = ProbesOf(r)
    BY DEF WiringOK, MappingFrom
  <2>2. i \in OfKinds(r.sensors, Thermometer)
    BY DEF OfKinds, Thermometer
  <2>3. \E u \in r.boilers : u.id = r.sensors[i].boiler
    BY <2>1 DEF Usable, Ready
  <2> DEFINE u == CHOOSE v \in r.boilers : v.id = r.sensors[i].boiler
             k == LocalKey(r.sensors[i], i)
  <2>4. u \in r.boilers /\ u.id = r.sensors[i].boiler
    BY <2>3
  <2>5. IndexOf(r.boilers, r.sensors[i].boiler) = u.index
    BY <2>3 DEF IndexOf
  <2>6. /\ k \in DOMAIN m.probes
        /\ m.probes[k] = [address |-> r.sensors[i].address, role |-> r.sensors[i].kind,
                          unit |-> IndexOf(r.boilers, r.sensors[i].boiler)]
    BY <2>1, <2>2, ProbeIsMapped
  <2> HIDE DEF u, k
  <2>7. QED
    BY <2>4, <2>5, <2>6
<1>2. QED
  BY <1>1, WiringInvariant, PTL

LEMMA IndexIs ==
    ASSUME NEW r \in Records, NEW units, units = r.boilers \/ units = r.pumps
    PROVE  /\ \A u \in units : IndexOf(units, u.id) = u.index /\ u.id # No /\ u.index # No
           /\ \A id : \A u \in units : IndexOf(units, id) = u.index => id = u.id
           /\ IndexOf(units, No) = No
<1>1. \A u, v \in units : /\ u.id # No /\ u.index # No
                          /\ (u.id = v.id \/ u.index = v.index) => u = v
  BY RecordsAssumption
<1>2. \A id : IF \E u \in units : u.id = id
              THEN \E v \in units : v.id = id /\ IndexOf(units, id) = v.index
              ELSE IndexOf(units, id) = No
  BY DEF IndexOf
<1>3. QED
  BY <1>1, <1>2

(* A relay's unit is the one the record attaches it to: a pot's among the  *)
(* boilers, a pump's among the pumps.                                      *)
LEMMA UnitIs ==
    ASSUME NEW r \in Records, Usable(r), NEW i \in Enabled(r.relays)
    PROVE  /\ r.relays[i].role = "pot" =>
                \A u \in r.boilers :
                    UnitOf(r, r.relays[i]) = u.index <=> r.relays[i].boiler = u.id
           /\ r.relays[i].role = "pump" =>
                \A u \in r.pumps :
                    UnitOf(r, r.relays[i]) = u.index <=> r.relays[i].pump = u.id
<1> DEFINE relay == r.relays[i]
<1>1. /\ relay.role = "pot" => relay.pump = No
      /\ relay.role = "pump" => relay.boiler = No
  BY RecordsAssumption DEF Enabled
<1>2. relay.role = "pot" =>
        \A u \in r.boilers : UnitOf(r, relay) = u.index <=> relay.boiler = u.id
  <2> SUFFICES ASSUME relay.pump = No, NEW u \in r.boilers
               PROVE  UnitOf(r, relay) = u.index <=> relay.boiler = u.id
    BY <1>1
  <2>1. /\ IndexOf(r.boilers, u.id) = u.index /\ u.id # No /\ u.index # No
        /\ \A id : IndexOf(r.boilers, id) = u.index => id = u.id
    BY IndexIs
  <2>2. IndexOf(r.pumps, No) = No
    BY IndexIs
  <2>3. UnitOf(r, relay) = IF relay.boiler # No THEN IndexOf(r.boilers, relay.boiler)
                           ELSE No
    BY <2>2 DEF UnitOf
  <2>4. QED
    BY <2>1, <2>3
<1>3. relay.role = "pump" =>
        \A u \in r.pumps : UnitOf(r, relay) = u.index <=> relay.pump = u.id
  <2> SUFFICES ASSUME relay.boiler = No, NEW u \in r.pumps
               PROVE  UnitOf(r, relay) = u.index <=> relay.pump = u.id
    BY <1>1
  <2>1. /\ IndexOf(r.pumps, u.id) = u.index
        /\ \A id : IndexOf(r.pumps, id) = u.index => id = u.id
    BY IndexIs
  <2>2. UnitOf(r, relay) = IndexOf(r.pumps, relay.pump)
    BY DEF UnitOf
  <2>3. QED
    BY <2>1, <2>2
<1>4. QED
  BY <1>2, <1>3

(* The relays that the device takes for a unit's are those that the record *)
(* attaches to it.                                                         *)
Taken(r, role, index) ==
    {k \in DOMAIN RelaysOf(r) : RelaysOf(r)[k].role = role /\ RelaysOf(r)[k].unit = index}

LEMMA TakenAre ==
    ASSUME NEW r \in Records, Usable(r), NEW role, NEW index, NEW k
    PROVE  k \in Taken(r, role, index)
             <=> \E i \in Enabled(r.relays) : /\ k = LocalKey(r.relays[i], i)
                                             /\ r.relays[i].role = role
                                             /\ UnitOf(r, r.relays[i]) = index
<1>1. ASSUME k \in Taken(r, role, index)
      PROVE  \E i \in Enabled(r.relays) : /\ k = LocalKey(r.relays[i], i)
                                         /\ r.relays[i].role = role
                                         /\ UnitOf(r, r.relays[i]) = index
  <2>1. \E i \in Enabled(r.relays) : k = LocalKey(r.relays[i], i)
    BY <1>1, MappedKeys DEF Taken, Keys
  <2>2. PICK i \in Enabled(r.relays) : k = LocalKey(r.relays[i], i)
    BY <2>1
  <2>3. RelaysOf(r)[k].role = r.relays[i].role /\ RelaysOf(r)[k].unit = UnitOf(r, r.relays[i])
    BY <2>2, RelayIsMapped
  <2>4. QED
    BY <1>1, <2>2, <2>3 DEF Taken
<1>2. ASSUME NEW i \in Enabled(r.relays), k = LocalKey(r.relays[i], i),
             r.relays[i].role = role, UnitOf(r, r.relays[i]) = index
      PROVE  k \in Taken(r, role, index)
  <2>1. /\ k \in DOMAIN RelaysOf(r)
        /\ RelaysOf(r)[k].role = r.relays[i].role
        /\ RelaysOf(r)[k].unit = UnitOf(r, r.relays[i])
    BY <1>2, RelayIsMapped
  <2>2. QED
    BY <1>2, <2>1 DEF Taken
<1>3. QED
  BY <1>1, <1>2

OwnPots(r, u)  == {a[1] : a \in {b \in Attached(r, "pot") : b[2].boiler = u.id}}
OwnPumps(r, u) == {a[1] : a \in {b \in Attached(r, "pump") : b[2].pump = u.id}}

LEMMA OwnAre ==
    ASSUME NEW r, NEW u, NEW k
    PROVE  /\ k \in OwnPots(r, u)
                <=> \E i \in Enabled(r.relays) : /\ k = LocalKey(r.relays[i], i)
                                                /\ r.relays[i].role = "pot"
                                                /\ r.relays[i].boiler = u.id
           /\ k \in OwnPumps(r, u)
                <=> \E i \in Enabled(r.relays) : /\ k = LocalKey(r.relays[i], i)
                                                /\ r.relays[i].role = "pump"
                                                /\ r.relays[i].pump = u.id
<1> DEFINE Pair(i)  == <<LocalKey(r.relays[i], i), r.relays[i]>>
           Of(role) == {j \in Enabled(r.relays) : r.relays[j].role = role}
<1>1. \A role : Attached(r, role) = {Pair(i) : i \in Of(role)}
  BY DEF Attached
<1>2. \A i : Pair(i)[1] = LocalKey(r.relays[i], i) /\ Pair(i)[2] = r.relays[i]
  OBVIOUS
<1>3. \A role, i : i \in Of(role) <=> i \in Enabled(r.relays) /\ r.relays[i].role = role
  OBVIOUS
<1> HIDE DEF Pair, Of
<1>4. k \in OwnPots(r, u)
        <=> \E i \in Of("pot") : Pair(i)[2].boiler = u.id /\ k = Pair(i)[1]
  BY <1>1 DEF OwnPots
<1>5. k \in OwnPumps(r, u)
        <=> \E i \in Of("pump") : Pair(i)[2].pump = u.id /\ k = Pair(i)[1]
  BY <1>1 DEF OwnPumps
<1>6. QED
  BY <1>2, <1>3, <1>4, <1>5

LEMMA DrivenAreOwn ==
    ASSUME NEW r \in Records, Usable(r)
    PROVE  /\ \A u \in r.boilers : Taken(r, "pot", u.index) = OwnPots(r, u)
           /\ \A u \in r.pumps : Taken(r, "pump", u.index) = OwnPumps(r, u)
<1>1. ASSUME NEW u \in r.boilers, NEW k
      PROVE  k \in Taken(r, "pot", u.index) <=> k \in OwnPots(r, u)
  BY TakenAre, OwnAre, UnitIs
<1>2. ASSUME NEW u \in r.pumps, NEW k
      PROVE  k \in Taken(r, "pump", u.index) <=> k \in OwnPumps(r, u)
  BY TakenAre, OwnAre, UnitIs
<1>3. QED
  BY <1>1, <1>2

(* A unit is switched by its own relay and by no other, for any records.   *)
THEOREM OwnRelayOnly == WiringSpec => []SwitchesItsOwn
<1>1. WiringOK => SwitchesItsOwn
  <2> SUFFICES ASSUME WiringOK, NEW r \in mapped, NEW m \in mapping
               PROVE  /\ \A u \in r.boilers :
                            LET own == {a[1] : a \in {b \in Attached(r, "pot") : b[2].boiler = u.id}}
                            IN  RelayFor(m, "boiler", u.index) = IF own = {} THEN {} ELSE {Min(own)}
                      /\ \A u \in r.pumps :
                            LET own == {a[1] : a \in {b \in Attached(r, "pump") : b[2].pump = u.id}}
                            IN  RelayFor(m, "pump", u.index) = IF own = {} THEN {} ELSE {Min(own)}
    BY DEF SwitchesItsOwn
  <2>1. r \in Records /\ Usable(r) /\ m.relays = RelaysOf(r)
    BY DEF WiringOK, MappingFrom
  <2>2. \A u : /\ RelayFor(m, "boiler", u.index)
                     = IF Taken(r, "pot", u.index) = {} THEN {}
                       ELSE {Min(Taken(r, "pot", u.index))}
              /\ RelayFor(m, "pump", u.index)
                     = IF Taken(r, "pump", u.index) = {} THEN {}
                       ELSE {Min(Taken(r, "pump", u.index))}
    BY <2>1 DEF RelayFor, Taken
  <2>3. /\ \A u \in r.boilers : Taken(r, "pot", u.index) = OwnPots(r, u)
        /\ \A u \in r.pumps : Taken(r, "pump", u.index) = OwnPumps(r, u)
    BY <2>1, DrivenAreOwn
  <2>4. QED
    BY <2>2, <2>3 DEF OwnPots, OwnPumps
<1>2. QED
  BY <1>1, WiringInvariant, PTL

(* ------------------------------ Programme ------------------------------ *)

(* What an edit makes of d: one entry more or less, and if it removes, the *)
(* entry at its number is the one that goes.                               *)
Fits(kind, d, edited, n) ==
    /\ OneEntry(d, edited)
    /\ kind = "unrule" => edited.rules = RemoveAt(d.rules, n)
    /\ kind = "unexception" => edited.exceptions = RemoveAt(d.exceptions, n)

(* What is in force is a document, and so is what an open wizard started   *)
(* from.  A wizard's token is not ahead of the schedule; while it is the   *)
(* schedule's, the document it was taken with is in force; and until the   *)
(* next publish the list on the screen is that of the document in force,   *)
(* but for the moment between an edit and the new list.                    *)
IsOpen == wizard.kind # "none"
WizardOK ==
    /\ wizard = [kind |-> wizard.kind, terminal |-> wizard.terminal, token |-> wizard.token,
                 base |-> wizard.base, shown |-> wizard.shown]
    /\ IsDocument(wizard.base)
    /\ wizard.token[1] \in Nat /\ wizard.token[2] \in Nat
    /\ IsOpen => /\ wizard.token[1] <= version
                 /\ wizard.token[1] = version => wizard.token[2] <= revision
                 /\ wizard.token[1] = version /\ applying.pc # "listing"
                      => wizard.shown = Parsed(document)
                 /\ wizard.token = Token => wizard.base = document

(* What is being parsed fits what is in force until the next publish; on a *)
(* terminal its token is as old as the wizard.                             *)
ApplyingOK ==
    /\ applying = [pc |-> applying.pc, edited |-> applying.edited, number |-> applying.number,
                   token |-> applying.token]
    /\ IsDocument(applying.edited)
    /\ applying.token[1] \in Nat
    /\ applying.pc # "none" => IsOpen
    /\ applying.pc = "parsing"
         => /\ applying.token[1] <= version
            /\ applying.token = Token
                 => Fits(wizard.kind, document, applying.edited, applying.number)
            /\ wizard.terminal => wizard.token = applying.token

ProgrammeOK ==
    /\ version \in Nat /\ revision \in Nat /\ IsDocument(document)
    /\ WizardOK /\ ApplyingOK

LEMMA ListIs ==
    ASSUME NEW s
    PROVE  /\ IsList(s) => /\ Len(s) \in Nat /\ DOMAIN s = 1..Len(s)
                          /\ s \in [1..Len(s) -> ToSet(s)]
           /\ \A S : s \in Seq(S) => IsList(s)
<1>1. IsList(s) => /\ Len(s) \in Nat /\ DOMAIN s = 1..Len(s)
                   /\ s \in [1..Len(s) -> ToSet(s)]
  BY DEF IsList
<1>2. ASSUME NEW S, s \in Seq(S) PROVE IsList(s)
  <2>1. Len(s) \in Nat /\ DOMAIN s = 1..Len(s) /\ s = [i \in 1..Len(s) |-> s[i]]
    BY <1>2
  <2>2. \A i \in 1..Len(s) : s[i] \in ToSet(s)
    BY <2>1 DEF ToSet
  <2>3. QED
    BY <2>1, <2>2 DEF IsList
<1>3. QED
  BY <1>1, <1>2

(* What is put at the end of a list and taken out there leaves the list.   *)
LEMMA AppendedList ==
    ASSUME NEW s, IsList(s), NEW e
    PROVE  /\ IsList(Append(s, e)) /\ Without(Append(s, e), s)
           /\ ToSet(Append(s, e)) \subseteq ToSet(s) \cup {e}
<1> DEFINE S == ToSet(s) \cup {e}
           t == Append(s, e)
<1>1. s \in Seq(S) /\ e \in S /\ Len(s) \in Nat
  <2>1. /\ Len(s) \in Nat /\ s \in [1..Len(s) -> ToSet(s)]
    BY ListIs
  <2>2. QED
    BY <2>1
<1> HIDE DEF S
<1>2. t \in Seq(S) /\ Len(t) = Len(s) + 1 /\ DOMAIN t = 1..(Len(s) + 1)
  BY <1>1
<1>3. SubSeq(t, 1, Len(s)) = s
  BY <1>1
<1>4. SubSeq(t, Len(s) + 2, Len(s) + 1) = <<>>
  BY <1>1, <1>2
<1>5. s \o <<>> = s
  BY <1>1
<1>6. RemoveAt(t, Len(s) + 1) = s
  BY <1>1, <1>2, <1>3, <1>4, <1>5 DEF RemoveAt
<1>7. IsList(t)
  BY <1>2, ListIs
<1>8. Len(s) + 1 \in DOMAIN t
  BY <1>1, <1>2
<1>9. ToSet(t) \subseteq ToSet(s) \cup {e}
  BY <1>2 DEF ToSet, S
<1>10. QED
  BY <1>6, <1>7, <1>8, <1>9 DEF Without

LEMMA RemovedList ==
    ASSUME NEW s, IsList(s), NEW n \in 1..Len(s)
    PROVE  /\ IsList(RemoveAt(s, n)) /\ Without(s, RemoveAt(s, n))
           /\ ToSet(RemoveAt(s, n)) \subseteq ToSet(s)
<1> DEFINE S == ToSet(s)
<1>1. s \in Seq(S) /\ Len(s) \in Nat /\ DOMAIN s = 1..Len(s)
  BY ListIs DEF IsList
<1> HIDE DEF S
<1>2. SubSeq(s, 1, n - 1) \in Seq(S) /\ SubSeq(s, n + 1, Len(s)) \in Seq(S)
  BY <1>1
<1>3. RemoveAt(s, n) \in Seq(S)
  BY <1>2 DEF RemoveAt
<1>4. ToSet(RemoveAt(s, n)) \subseteq S
  <2> DEFINE t == RemoveAt(s, n)
  <2>1. t \in Seq(S)
    BY <1>3
  <2> HIDE DEF t
  <2>2. ToSet(t) \subseteq S
    BY <2>1 DEF ToSet
  <2>3. QED
    BY <2>2 DEF t
<1>5. QED
  BY <1>1, <1>3, <1>4, ListIs DEF Without, S

LEMMA EditsAreDocuments ==
    ASSUME NEW d, IsDocument(d)
    PROVE  /\ \A r : /\ IsRule(r) => IsDocument(AddRule(d, r))
                    /\ Without(AddRule(d, r).rules, d.rules)
                    /\ AddRule(d, r).exceptions = d.exceptions
           /\ \A e : /\ IsDocument(AddException(d, e))
                    /\ Without(AddException(d, e).exceptions, d.exceptions)
                    /\ AddException(d, e).rules = d.rules
           /\ \A n \in 1..Len(d.rules) :
                    /\ IsDocument(RemoveRule(d, n))
                    /\ Without(d.rules, RemoveRule(d, n).rules)
                    /\ RemoveRule(d, n).rules = RemoveAt(d.rules, n)
                    /\ RemoveRule(d, n).exceptions = d.exceptions
           /\ \A n \in 1..Len(d.exceptions) :
                    /\ IsDocument(RemoveException(d, n))
                    /\ Without(d.exceptions, RemoveException(d, n).exceptions)
                    /\ RemoveException(d, n).exceptions = RemoveAt(d.exceptions, n)
                    /\ RemoveException(d, n).rules = d.rules
<1>1. /\ d = [rules |-> d.rules, exceptions |-> d.exceptions]
      /\ IsList(d.rules) /\ IsList(d.exceptions)
      /\ \A r \in ToSet(d.rules) : IsRule(r)
  BY DEF IsDocument
<1>2. \A x : /\ [d EXCEPT !.rules = x] = [rules |-> x, exceptions |-> d.exceptions]
            /\ [d EXCEPT !.exceptions = x] = [rules |-> d.rules, exceptions |-> x]
  BY <1>1
<1>3. \A x : IsList(x) => /\ (\A r \in ToSet(x) : IsRule(r))
                              => IsDocument([rules |-> x, exceptions |-> d.exceptions])
                         /\ IsDocument([rules |-> d.rules, exceptions |-> x])
  BY <1>1 DEF IsDocument
<1>4. ASSUME NEW r PROVE /\ IsRule(r) => IsDocument(AddRule(d, r))
                         /\ Without(AddRule(d, r).rules, d.rules)
                         /\ AddRule(d, r).exceptions = d.exceptions
  <2>1. AddRule(d, r) = [rules |-> Append(d.rules, r), exceptions |-> d.exceptions]
    BY <1>2 DEF AddRule
  <2>2. /\ IsList(Append(d.rules, r)) /\ Without(Append(d.rules, r), d.rules)
        /\ ToSet(Append(d.rules, r)) \subseteq ToSet(d.rules) \cup {r}
    BY <1>1, AppendedList
  <2>3. IsRule(r) => IsDocument(AddRule(d, r))
    BY <1>1, <1>3, <2>1, <2>2
  <2>4. AddRule(d, r).rules = Append(d.rules, r) /\ AddRule(d, r).exceptions = d.exceptions
    BY <2>1
  <2>5. QED
    BY <2>2, <2>3, <2>4
<1>5. ASSUME NEW e PROVE /\ IsDocument(AddException(d, e))
                         /\ Without(AddException(d, e).exceptions, d.exceptions)
                         /\ AddException(d, e).rules = d.rules
  <2> DEFINE x == [id |-> <<"local", NextId(d)>>] @@ e
  <2>1. AddException(d, e) = [d EXCEPT !.exceptions = Append(d.exceptions, x)]
    BY DEF AddException
  <2> HIDE DEF x
  <2>2. AddException(d, e) = [rules |-> d.rules, exceptions |-> Append(d.exceptions, x)]
    BY <1>2, <2>1
  <2>3. IsList(Append(d.exceptions, x)) /\ Without(Append(d.exceptions, x), d.exceptions)
    BY <1>1, AppendedList
  <2>4. IsDocument(AddException(d, e))
    BY <1>3, <2>2, <2>3
  <2>5. AddException(d, e).rules = d.rules /\ AddException(d, e).exceptions = Append(d.exceptions, x)
    BY <2>2
  <2>6. QED
    BY <2>3, <2>4, <2>5
<1>6. ASSUME NEW n \in 1..Len(d.rules)
      PROVE  /\ IsDocument(RemoveRule(d, n))
             /\ Without(d.rules, RemoveRule(d, n).rules)
             /\ RemoveRule(d, n).rules = RemoveAt(d.rules, n)
             /\ RemoveRule(d, n).exceptions = d.exceptions
  <2>1. RemoveRule(d, n) = [rules |-> RemoveAt(d.rules, n), exceptions |-> d.exceptions]
    BY <1>2 DEF RemoveRule
  <2>2. /\ IsList(RemoveAt(d.rules, n)) /\ Without(d.rules, RemoveAt(d.rules, n))
        /\ ToSet(RemoveAt(d.rules, n)) \subseteq ToSet(d.rules)
    BY <1>1, RemovedList
  <2>3. IsDocument(RemoveRule(d, n))
    BY <1>1, <1>3, <2>1, <2>2
  <2>4. RemoveRule(d, n).rules = RemoveAt(d.rules, n) /\ RemoveRule(d, n).exceptions = d.exceptions
    BY <2>1
  <2>5. QED
    BY <2>2, <2>3, <2>4
<1>7. ASSUME NEW n \in 1..Len(d.exceptions)
      PROVE  /\ IsDocument(RemoveException(d, n))
             /\ Without(d.exceptions, RemoveException(d, n).exceptions)
             /\ RemoveException(d, n).exceptions = RemoveAt(d.exceptions, n)
             /\ RemoveException(d, n).rules = d.rules
  <2>1. RemoveException(d, n) = [rules |-> d.rules, exceptions |-> RemoveAt(d.exceptions, n)]
    BY <1>2 DEF RemoveException
  <2>2. IsList(RemoveAt(d.exceptions, n)) /\ Without(d.exceptions, RemoveAt(d.exceptions, n))
    BY <1>1, RemovedList
  <2>3. IsDocument(RemoveException(d, n))
    BY <1>3, <2>1, <2>2
  <2>4. RemoveException(d, n).rules = d.rules /\ RemoveException(d, n).exceptions = RemoveAt(d.exceptions, n)
    BY <2>1
  <2>5. QED
    BY <2>2, <2>3, <2>4
<1>8. QED
  BY <1>4, <1>5, <1>6, <1>7

LEMMA ParsedIs ==
    ASSUME NEW d, IsDocument(d)
    PROVE  Parsed(d) = [rules |-> d.rules, exceptions |-> WithAction(d.exceptions)]
BY DEF Parsed, IsDocument

LEMMA BlankIs == IsDocument(Blank)
<1>1. <<>> \in Seq({})
  OBVIOUS
<1>2. IsList(<<>>)
  BY <1>1, ListIs
<1>3. ToSet(<<>>) = {}
  BY DEF ToSet
<1>4. QED
  BY <1>2, <1>3 DEF IsDocument, Blank

LEMMA ClosingKeeps ==
    ASSUME wizard' = Closed, applying' = NoEdit, version' \in Nat, revision' \in Nat,
           IsDocument(document')
    PROVE  ProgrammeOK'
<1>1. /\ wizard' = [kind |-> "none", terminal |-> FALSE, token |-> <<0, 0>>, base |-> Blank,
                    shown |-> Blank]
      /\ applying' = [pc |-> "none", edited |-> Blank, number |-> 0, token |-> <<0, 0>>]
      /\ IsDocument(Blank)
  BY BlankIs DEF Closed, NoEdit
<1>2. WizardOK' /\ ApplyingOK'
  BY <1>1 DEF WizardOK, ApplyingOK, IsOpen
<1>3. QED
  BY <1>2 DEF ProgrammeOK

LEMMA ShowingKeeps ==
    ASSUME ProgrammeOK, NEW kind, NEW terminal, kind # "none", applying.pc # "parsing",
           wizard' = Showing(kind, terminal), applying' \in {applying, NoEdit},
           UNCHANGED <<document, version, revision>>
    PROVE  ProgrammeOK'
<1>1. wizard' = [kind |-> kind, terminal |-> terminal, token |-> <<version, revision>>,
                 base |-> document, shown |-> Parsed(document)]
  BY DEF Showing, Token
<1>2. /\ version \in Nat /\ revision \in Nat /\ IsDocument(document)
      /\ IsDocument(applying.edited) /\ applying.token[1] \in Nat
      /\ applying = [pc |-> applying.pc, edited |-> applying.edited,
                     number |-> applying.number, token |-> applying.token]
  BY DEF ProgrammeOK, ApplyingOK
<1>3. WizardOK'
  BY <1>1, <1>2 DEF WizardOK, IsOpen
<1>4. ApplyingOK'
  <2>1. CASE applying' = applying
    BY <1>1, <1>2, <2>1 DEF ApplyingOK, IsOpen
  <2>2. CASE applying' = NoEdit
    BY <2>2, BlankIs DEF ApplyingOK, NoEdit
  <2>3. QED
    BY <2>1, <2>2
<1>5. QED
  BY <1>2, <1>3, <1>4 DEF ProgrammeOK

(* An edit that passes the check fits what is in force at that moment.     *)
LEMMA ApplyKeeps ==
    ASSUME ProgrammeOK, IsOpen, NEW edited, NEW number, NEW token,
           ApplyLocalEdit(edited, number, token), IsDocument(edited),
           token = Token => Fits(wizard.kind, document, edited, number),
           wizard.terminal => token = wizard.token
    PROVE  ProgrammeOK'
<1>1. /\ version \in Nat /\ revision \in Nat /\ IsDocument(document)
      /\ UNCHANGED <<document, version, revision>>
  BY DEF ProgrammeOK, ApplyLocalEdit
<1>2. CASE token = Token /\ applying' = Parsing(edited, number) /\ UNCHANGED wizard
  <2>1. applying' = [pc |-> "parsing", edited |-> edited, number |-> number,
                     token |-> <<version, revision>>]
    BY <1>2 DEF Parsing, Token
  <2>2. applying.pc = "none"
    BY DEF ApplyLocalEdit, NoneApplied
  <2>3. WizardOK'
    BY <1>1, <1>2, <2>1, <2>2 DEF ProgrammeOK, WizardOK, IsOpen, Token
  <2>4. Fits(wizard.kind, document, edited, number) /\ Token = <<version, revision>>
    BY <1>2 DEF Token
  <2>5. ApplyingOK'
    BY <1>1, <1>2, <2>1, <2>4 DEF ApplyingOK, IsOpen, Token
  <2>6. QED
    BY <1>1, <2>3, <2>5 DEF ProgrammeOK
<1>3. CASE token # Token /\ wizard' = Closed /\ UNCHANGED applying
  <2>1. /\ wizard' = [kind |-> "none", terminal |-> FALSE, token |-> <<0, 0>>, base |-> Blank,
                      shown |-> Blank]
        /\ IsDocument(Blank) /\ applying.pc = "none"
    BY <1>3, BlankIs DEF Closed, ApplyLocalEdit, NoneApplied
  <2>2. WizardOK' /\ ApplyingOK'
    BY <1>3, <2>1 DEF ProgrammeOK, WizardOK, ApplyingOK, IsOpen
  <2>3. QED
    BY <1>1, <2>2 DEF ProgrammeOK
<1>4. QED
  BY <1>2, <1>3 DEF ApplyLocalEdit

(* A wizard that edits the document it started from does so under the      *)
(* token it took then.                                                     *)
LEMMA AppliedToBase ==
    ASSUME ProgrammeOK, IsOpen, NEW edited, NEW number,
           ApplyLocalEdit(edited, number, wizard.token), IsDocument(edited),
           Fits(wizard.kind, wizard.base, edited, number)
    PROVE  ProgrammeOK'
<1>1. wizard.token = Token => Fits(wizard.kind, document, edited, number)
  BY DEF ProgrammeOK, WizardOK
<1>2. QED
  BY <1>1, ApplyKeeps

LEMMA AssignKeeps ==
    ASSUME ProgrammeOK, Assign
    PROVE  ProgrammeOK'
<1>1. /\ document' = applying.edited /\ revision' = revision + 1 /\ version' = version
      /\ version \in Nat /\ revision \in Nat /\ IsDocument(applying.edited)
      /\ applying.pc = "parsing" /\ IsOpen /\ WizardOK /\ ApplyingOK
  BY DEF Assign, ProgrammeOK, ApplyingOK
<1>2. CASE wizard' = Closed /\ applying' = NoEdit
  BY <1>1, <1>2, ClosingKeeps
<1>3. CASE applying' = [applying EXCEPT !.pc = "listing"] /\ UNCHANGED wizard
  <2>1. applying' = [pc |-> "listing", edited |-> applying.edited, number |-> applying.number,
                     token |-> applying.token]
    BY <1>1, <1>3 DEF ApplyingOK
  <2>2. ApplyingOK'
    BY <1>1, <1>3, <2>1 DEF ApplyingOK, IsOpen
  <2>3. /\ wizard.token[1] <= version /\ wizard.token[2] \in Nat
        /\ wizard.token[1] = version => wizard.token[2] <= revision
    BY <1>1 DEF WizardOK
  <2>4. wizard.token # <<version, revision + 1>>
    BY <1>1, <2>3
  <2>5. WizardOK'
    BY <1>1, <1>3, <2>1, <2>3, <2>4 DEF WizardOK, IsOpen, Token
  <2>6. QED
    BY <1>1, <2>2, <2>5 DEF ProgrammeOK
<1>4. QED
  BY <1>2, <1>3 DEF Assign

LEMMA RelistKeeps ==
    ASSUME ProgrammeOK, Relist
    PROVE  ProgrammeOK'
<1>1. /\ applying.pc = "listing" /\ applying' = NoEdit /\ UNCHANGED <<document, version, revision>>
      /\ wizard' = Closed \/ wizard' = Showing(wizard.kind, wizard.terminal)
  BY DEF Relist
<1>2. /\ version \in Nat /\ revision \in Nat /\ IsDocument(document) /\ wizard.kind # "none"
  BY <1>1 DEF ProgrammeOK, ApplyingOK, IsOpen
<1>3. QED
  BY <1>1, <1>2, ClosingKeeps, ShowingKeeps

LEMMA PublishKeeps ==
    ASSUME ProgrammeOK, Publish
    PROVE  ProgrammeOK'
<1>1. /\ document' \in Publishable /\ version' = version + 1 /\ revision' = 0
      /\ UNCHANGED <<wizard, applying>>
  BY DEF Publish
<1>2. IsDocument(document')
  BY <1>1, ProgrammeAssumption
<1>3. /\ IsOpen => wizard.token[1] <= version
      /\ wizard.token[1] \in Nat /\ version \in Nat /\ applying.token[1] \in Nat
      /\ applying.pc = "parsing" => applying.token[1] <= version
  BY DEF ProgrammeOK, WizardOK, ApplyingOK
<1>4. /\ IsOpen => wizard.token[1] <= version' /\ wizard.token[1] # version'
      /\ applying.pc = "parsing"
           => applying.token[1] <= version' /\ applying.token[1] # version'
  BY <1>1, <1>3
<1>5. /\ wizard.token = Token' => wizard.token[1] = version'
      /\ applying.token = Token' => applying.token[1] = version'
  BY DEF Token
<1>6. WizardOK'
  BY <1>1, <1>4, <1>5 DEF ProgrammeOK, WizardOK, IsOpen
<1>7. ApplyingOK'
  BY <1>1, <1>4, <1>5 DEF ProgrammeOK, ApplyingOK, IsOpen
<1>8. QED
  BY <1>1, <1>2, <1>3, <1>6, <1>7 DEF ProgrammeOK

LEMMA ProgrammeStep ==
    ASSUME ProgrammeOK, [ProgrammeNext]_programmeVars
    PROVE  ProgrammeOK'
<1> DEFINE base == wizard.base
<1>1. IsDocument(base) /\ IsDocument(document)
  BY DEF ProgrammeOK, WizardOK
<1>2. CASE Publish
  BY <1>2, PublishKeeps
<1>3. CASE Cancel
  <2>1. /\ wizard' = Closed /\ UNCHANGED <<document, version, revision, applying>>
        /\ applying.pc = "none"
    BY <1>3 DEF Cancel, NoneApplied
  <2>2. /\ wizard' = [kind |-> "none", terminal |-> FALSE, token |-> <<0, 0>>, base |-> Blank,
                      shown |-> Blank]
        /\ IsDocument(Blank)
    BY <2>1, BlankIs DEF Closed
  <2>3. WizardOK' /\ ApplyingOK'
    BY <2>1, <2>2 DEF ProgrammeOK, WizardOK, ApplyingOK, IsOpen
  <2>4. QED
    BY <2>1, <2>3 DEF ProgrammeOK
<1>4. CASE \E kind \in Kinds : OpenOnTerminal(kind) \/ OpenOnPanel(kind)
  <2>1. PICK kind \in Kinds : Open(kind, TRUE) \/ Open(kind, FALSE)
    BY <1>4 DEF OpenOnTerminal, OpenOnPanel
  <2>2. /\ kind # "none" /\ applying.pc = "none"
        /\ wizard' = Showing(kind, TRUE) \/ wizard' = Showing(kind, FALSE)
        /\ UNCHANGED <<document, version, revision, applying>>
    BY <2>1 DEF Open, Kinds, ProgrammeOK, ApplyingOK, IsOpen
  <2>3. QED
    BY <2>2, ShowingKeeps
<1>5. CASE TypeRule \/ ChooseRule
  <2>1. PICK r : IsRule(r) /\ ApplyLocalEdit(AddRule(base, r), 0, wizard.token)
    BY <1>5, ProgrammeAssumption DEF TypeRule, ChooseRule
  <2>2. wizard.kind = "rule"
    BY <1>5 DEF TypeRule, ChooseRule
  <2>3. IsDocument(AddRule(base, r)) /\ Fits(wizard.kind, base, AddRule(base, r), 0)
    BY <1>1, <2>1, <2>2, EditsAreDocuments DEF OneEntry, Fits
  <2>4. QED
    BY <2>1, <2>2, <2>3, AppliedToBase DEF IsOpen
<1>6. CASE TypeException \/ ChooseException
  <2>1. PICK e : ApplyLocalEdit(AddException(base, e), 0, wizard.token)
    BY <1>6 DEF TypeException, ChooseException
  <2>2. wizard.kind = "exception"
    BY <1>6 DEF TypeException, ChooseException
  <2>3. IsDocument(AddException(base, e)) /\ Fits(wizard.kind, base, AddException(base, e), 0)
    BY <1>1, <2>2, EditsAreDocuments DEF OneEntry, Fits
  <2>4. QED
    BY <2>1, <2>2, <2>3, AppliedToBase DEF IsOpen
<1>7. ASSUME NEW n, RemoveRuleByNumber(n) PROVE ProgrammeOK'
  <2>1. /\ wizard.kind = "unrule" /\ n \in 1..Len(base.rules)
        /\ ApplyLocalEdit(RemoveRule(base, n), n, wizard.token)
    BY <1>7 DEF RemoveRuleByNumber
  <2>2. IsDocument(RemoveRule(base, n)) /\ Fits(wizard.kind, base, RemoveRule(base, n), n)
    BY <1>1, <2>1, EditsAreDocuments DEF OneEntry, Fits
  <2>3. QED
    BY <2>1, <2>2, AppliedToBase DEF IsOpen
<1>8. ASSUME NEW n, RemoveExceptionByNumber(n) PROVE ProgrammeOK'
  <2>1. /\ wizard.kind = "unexception" /\ n \in 1..Len(base.exceptions)
        /\ ApplyLocalEdit(RemoveException(base, n), n, wizard.token)
    BY <1>8 DEF RemoveExceptionByNumber
  <2>2. /\ IsDocument(RemoveException(base, n))
        /\ Fits(wizard.kind, base, RemoveException(base, n), n)
    BY <1>1, <2>1, EditsAreDocuments DEF OneEntry, Fits
  <2>3. QED
    BY <2>1, <2>2, AppliedToBase DEF IsOpen
<1>9. ASSUME NEW n, ConfirmRuleRemoval(n) PROVE ProgrammeOK'
  <2>1. /\ wizard.kind = "unrule" /\ ~wizard.terminal
        /\ n \in 1..Len(wizard.shown.rules) /\ n <= Len(document.rules)
        /\ ApplyLocalEdit(RemoveRule(document, n), n, Token)
    BY <1>9 DEF ConfirmRuleRemoval
  <2>2. Len(document.rules) \in Nat
    BY <1>1, ListIs DEF IsDocument
  <2>3. n \in 1..Len(document.rules)
    BY <2>1, <2>2
  <2>4. /\ IsDocument(RemoveRule(document, n))
        /\ Fits(wizard.kind, document, RemoveRule(document, n), n)
    BY <1>1, <2>1, <2>3, EditsAreDocuments DEF OneEntry, Fits
  <2>5. QED
    BY <2>1, <2>4, ApplyKeeps DEF IsOpen
<1>10. ASSUME NEW n, ConfirmExceptionRemoval(n) PROVE ProgrammeOK'
  <2>1. /\ wizard.kind = "unexception" /\ ~wizard.terminal
        /\ n \in 1..Len(wizard.shown.exceptions) /\ n <= Len(document.exceptions)
        /\ ApplyLocalEdit(RemoveException(document, n), n, Token)
    BY <1>10 DEF ConfirmExceptionRemoval
  <2>2. Len(document.exceptions) \in Nat
    BY <1>1, ListIs DEF IsDocument
  <2>3. n \in 1..Len(document.exceptions)
    BY <2>1, <2>2
  <2>4. /\ IsDocument(RemoveException(document, n))
        /\ Fits(wizard.kind, document, RemoveException(document, n), n)
    BY <1>1, <2>1, <2>3, EditsAreDocuments DEF OneEntry, Fits
  <2>5. QED
    BY <2>1, <2>4, ApplyKeeps DEF IsOpen
<1>11. CASE UNCHANGED programmeVars
  BY <1>11 DEF programmeVars, ProgrammeOK, WizardOK, ApplyingOK, IsOpen, Token
<1>12. CASE Assign \/ Relist
  BY <1>12, AssignKeeps, RelistKeeps
<1>13. QED
  BY <1>2, <1>3, <1>4, <1>5, <1>6, <1>7, <1>8, <1>9, <1>10, <1>11, <1>12 DEF ProgrammeNext

LEMMA ProgrammeInvariant == ProgrammeSpec => []ProgrammeOK
<1>1. ProgrammeInit => ProgrammeOK
  <2> SUFFICES ASSUME ProgrammeInit PROVE ProgrammeOK
    OBVIOUS
  <2>1. /\ document = Blank /\ version = 0 /\ revision = 0
        /\ wizard = [kind |-> "none", terminal |-> FALSE, token |-> <<0, 0>>, base |-> Blank,
                     shown |-> Blank]
        /\ applying = [pc |-> "none", edited |-> Blank, number |-> 0, token |-> <<0, 0>>]
    BY DEF ProgrammeInit, Closed, NoEdit
  <2>2. WizardOK /\ ApplyingOK
    BY <2>1, BlankIs DEF WizardOK, ApplyingOK, IsOpen
  <2>3. QED
    BY <2>1, <2>2, BlankIs DEF ProgrammeOK
<1>2. ProgrammeOK /\ [ProgrammeNext]_programmeVars => ProgrammeOK'
  BY ProgrammeStep
<1>3. QED
  BY <1>1, <1>2, PTL DEF ProgrammeSpec

(* An edit takes effect when its parsed document is assigned and at no     *)
(* other step.                                                             *)
LEMMA TakesEffect ==
    ASSUME [ProgrammeNext]_programmeVars, edits' # edits
    PROVE  applying.pc = "parsing" /\ document' = applying.edited
BY DEF ProgrammeNext, programmeVars, Publish, Cancel, Assign, Relist, OpenOnTerminal, OpenOnPanel,
       Open, TypeRule, ChooseRule, TypeException, ChooseException, RemoveRuleByNumber,
       RemoveExceptionByNumber, ConfirmRuleRemoval, ConfirmExceptionRemoval, ApplyLocalEdit

(* An edit adds or takes out one entry of what is in force, for any        *)
(* documents, rules and exceptions, whatever was published while its       *)
(* wizard was open, if nothing was while it was parsed.                    *)
THEOREM OneEntryAtATime == ProgrammeSpec => EditIsOneStep
<1>1. ProgrammeOK /\ [ProgrammeNext]_programmeVars
        => [edits' # edits /\ applying.token = Token => OneEntry(document, document')]_programmeVars
  BY TakesEffect DEF ProgrammeOK, ApplyingOK, Fits
<1>2. QED
  BY <1>1, ProgrammeInvariant, PTL DEF ProgrammeSpec, EditIsOneStep

LEMMA HasLeast ==
    ASSUME NEW S \in SUBSET Nat, S # {}
    PROVE  \E x \in S : \A y \in S : x <= y
<1> DEFINE Less == {p \in Nat \X Nat : p[1] < p[2]}
<1>1. Less = OpToRel(<, Nat)
  BY DEF OpToRel
<1>2. IsWellFoundedOn(Less, Nat)
  BY <1>1, NatLessThanWellFounded
<1>3. PICK x \in S : \A y \in S : <<y, x>> \notin Less
  BY <1>2, WFMin
<1>4. \A y \in S : y < x => <<y, x>> \in Less
  OBVIOUS
<1> HIDE DEF Less
<1>5. \A y \in S : ~ (y < x)
  BY <1>3, <1>4
<1>6. QED
  BY <1>5

(* The first n entries of a list, one after another.                       *)
LEMMA FirstOnes ==
    ASSUME NEW S, NEW s \in Seq(S)
    PROVE  /\ SubSeq(s, 1, 0) = <<>> /\ SubSeq(s, 1, Len(s)) = s
           /\ \A n \in 1..Len(s) : SubSeq(s, 1, n) = Append(SubSeq(s, 1, n - 1), s[n])
<1>1. SubSeq(s, 1, 0) = <<>> /\ SubSeq(s, 1, Len(s)) = s
  OBVIOUS
<1>2. ASSUME NEW n \in 1..Len(s)
      PROVE  SubSeq(s, 1, n) = Append(SubSeq(s, 1, n - 1), s[n])
  <2> DEFINE a == SubSeq(s, 1, n)
             b == Append(SubSeq(s, 1, n - 1), s[n])
  <2>1. a \in Seq(S) /\ Len(a) = n /\ \A i \in 1..n : a[i] = s[i]
    OBVIOUS
  <2>2. /\ SubSeq(s, 1, n - 1) \in Seq(S) /\ Len(SubSeq(s, 1, n - 1)) = n - 1
        /\ s[n] \in S
        /\ \A i \in 1..(n - 1) : SubSeq(s, 1, n - 1)[i] = s[i]
    OBVIOUS
  <2>3. b \in Seq(S) /\ Len(b) = n /\ \A i \in 1..n : b[i] = s[i]
    BY <2>2
  <2> HIDE DEF a, b
  <2>4. a = b
    BY <2>1, <2>3
  <2>5. QED
    BY <2>4 DEF a, b
<1>3. QED
  BY <1>1, <1>2

(* Where every exception says what to do, every one is listed.             *)
LEMMA AllAreListed ==
    ASSUME NEW S, NEW s \in Seq(S), \A e \in ToSet(s) : HasAction(e)
    PROVE  WithAction(s) = s
<1> DEFINE F(f) == [n \in 0..Len(s) |->
                      IF n = 0 THEN <<>>
                      ELSE IF HasAction(s[n]) THEN Append(f[n - 1], s[n]) ELSE f[n - 1]]
           first == CHOOSE f : f = F(f)
           G == [n \in 0..Len(s) |-> SubSeq(s, 1, n)]
<1> HIDE DEF F, G, first
<1>1. Len(s) \in Nat /\ DOMAIN s = 1..Len(s)
  OBVIOUS
<1>2. \A n \in 1..Len(s) : HasAction(s[n])
  BY <1>1 DEF ToSet
<1> USE DEF F, G
<1>3. G = F(G)
  <2>1. \A n \in 0..Len(s) : G[n] = F(G)[n]
    <3> TAKE n \in 0..Len(s)
    <3>1. CASE n = 0
      BY <1>1, <3>1, FirstOnes
    <3>2. CASE n # 0
      <4>1. n \in 1..Len(s) /\ n - 1 \in 0..Len(s)
        BY <1>1, <3>2
      <4>2. G[n] = Append(G[n - 1], s[n])
        BY <4>1, FirstOnes
      <4> HIDE DEF G
      <4>3. QED
        BY <1>2, <3>2, <4>1, <4>2
    <3>3. QED
      BY <3>1, <3>2
  <2>2. QED
    BY <2>1
<1>4. first = F(first)
  BY <1>3 DEF first
<1>5. WithAction(s) = first[Len(s)]
  BY DEF WithAction, first
<1>6. first[0] = <<>> /\ \A n \in 1..Len(s) : first[n] = Append(first[n - 1], s[n])
  <2>1. \A n \in 0..Len(s) :
            first[n] = IF n = 0 THEN <<>>
                       ELSE IF HasAction(s[n]) THEN Append(first[n - 1], s[n]) ELSE first[n - 1]
    BY <1>4
  <2> HIDE DEF F
  <2>2. first[0] = <<>>
    BY <1>1, <2>1
  <2>3. ASSUME NEW n \in 1..Len(s) PROVE first[n] = Append(first[n - 1], s[n])
    <3>1. n \in 0..Len(s) /\ n # 0
      BY <1>1
    <3>2. QED
      BY <1>2, <2>1, <3>1
  <2>4. QED
    BY <2>2, <2>3
<1> HIDE DEF F, G
<1>7. \A n \in 0..Len(s) : first[n] = SubSeq(s, 1, n)
  <2> DEFINE bad == {n \in 0..Len(s) : first[n] # SubSeq(s, 1, n)}
  <2>1. SUFFICES ASSUME bad # {} PROVE FALSE
    OBVIOUS
  <2>2. bad \in SUBSET Nat
    BY <1>1
  <2>3. PICK n \in bad : \A m \in bad : n <= m
    BY <2>1, <2>2, HasLeast
  <2>4. n # 0
    BY <1>6, FirstOnes
  <2>5. n \in 1..Len(s) /\ n - 1 \in 0..Len(s) /\ ~ (n <= n - 1)
    BY <1>1, <2>4
  <2>6. n - 1 \notin bad
    BY <2>3, <2>5
  <2>7. first[n - 1] = SubSeq(s, 1, n - 1)
    BY <2>5, <2>6
  <2>8. first[n] = SubSeq(s, 1, n)
    <3>1. first[n] = Append(first[n - 1], s[n])
      BY <1>6, <2>5
    <3>2. SubSeq(s, 1, n) = Append(SubSeq(s, 1, n - 1), s[n])
      BY <2>5, FirstOnes
    <3>3. QED
      BY <2>7, <3>1, <3>2
  <2>9. QED
    BY <2>8
<1>8. QED
  BY <1>1, <1>5, <1>7, FirstOnes

LEMMA ShownInForce ==
    ASSUME ProgrammeOK, IsOpen, Actions(document), wizard.token[1] = version,
           applying.pc # "listing"
    PROVE  wizard.shown = document
<1>1. wizard.shown = Parsed(document) /\ IsDocument(document)
  BY DEF ProgrammeOK, WizardOK
<1>2. document.exceptions \in Seq(ToSet(document.exceptions))
  BY <1>1 DEF IsDocument, IsList
<1>3. WithAction(document.exceptions) = document.exceptions
  BY <1>2, AllAreListed DEF Actions
<1>4. QED
  BY <1>1, <1>3, ParsedIs DEF IsDocument

(* What a removal takes out is what stood at that number before the        *)
(* operator, for any documents: on a terminal unless something was         *)
(* published while the edit was parsed, on the panel unless it was since   *)
(* the list was built.                                                     *)
THEOREM TakesOutWhatWasShown == ProgrammeSpec => RemovesWhatWasShown
<1> DEFINE n == applying.number
           A == /\ edits' # edits /\ Actions(document) /\ applying.token = Token
                /\ wizard.terminal \/ wizard.token[1] = version
                => /\ wizard.kind = "unrule"
                        => /\ document.rules[n] = wizard.shown.rules[n]
                           /\ document'.rules = RemoveAt(document.rules, n)
                   /\ wizard.kind = "unexception"
                        => /\ document.exceptions[n] = wizard.shown.exceptions[n]
                           /\ document'.exceptions = RemoveAt(document.exceptions, n)
<1>1. ASSUME ProgrammeOK, [ProgrammeNext]_programmeVars, edits' # edits, Actions(document),
             applying.token = Token, wizard.terminal \/ wizard.token[1] = version
      PROVE  /\ wizard.shown = document
             /\ Fits(wizard.kind, document, document', n)
  <2>1. applying.pc = "parsing" /\ document' = applying.edited
    BY <1>1, TakesEffect
  <2>2. /\ IsOpen /\ Fits(wizard.kind, document, document', n)
        /\ wizard.terminal => wizard.token = applying.token
    BY <1>1, <2>1 DEF ProgrammeOK, ApplyingOK
  <2>3. wizard.token[1] = version
    BY <1>1, <2>2 DEF Token
  <2>4. wizard.shown = document
    BY <1>1, <2>1, <2>2, <2>3, ShownInForce
  <2>5. QED
    BY <2>2, <2>4
<1>2. ProgrammeOK /\ [ProgrammeNext]_programmeVars => [A]_programmeVars
  BY <1>1 DEF Fits
<1> HIDE DEF A
<1>3. ProgrammeSpec => [][A]_programmeVars
  BY <1>2, ProgrammeInvariant, PTL DEF ProgrammeSpec
<1>4. QED
  BY <1>3 DEF RemovesWhatWasShown, A

(* The exceptions that say what to do are a list of those there are.       *)
LEMMA ListedExceptions ==
    ASSUME NEW S, NEW s \in Seq(S)
    PROVE  WithAction(s) \in Seq(S)
<1> DEFINE Given(t, n) == IF HasAction(s[n]) THEN Append(t, s[n]) ELSE t
           F(f, m) == [n \in 0..m |-> IF n = 0 THEN <<>> ELSE Given(f[n - 1], n)]
           Bad == {m \in Nat : ~ \E f : f = F(f, m)}
           first == CHOOSE f : f = F(f, Len(s))
<1>1. Len(s) \in Nat /\ DOMAIN s = 1..Len(s) /\ \A n \in 1..Len(s) : s[n] \in S
  OBVIOUS
<1>2. WithAction(s) = first[Len(s)]
  BY DEF WithAction
<1>3. \A t \in Seq(S), n \in 1..Len(s) : Given(t, n) \in Seq(S)
  BY <1>1
<1> HIDE DEF Given, first
<1>4. Bad = {}
  <2> SUFFICES ASSUME Bad # {} PROVE FALSE
    OBVIOUS
  <2>1. PICK m \in Bad : \A k \in Bad : m <= k
    BY HasLeast
  <2>2. m \in Nat /\ ~ \E f : f = F(f, m)
    BY <2>1
  <2>3. CASE m = 0
    <3> DEFINE g == [n \in 0..m |-> <<>>]
    <3>1. g = F(g, m)
      BY <2>3
    <3>2. QED
      BY <2>2, <3>1
  <2>4. CASE m # 0
    <3> HIDE DEF Bad
    <3>1. m - 1 \in Nat /\ m - 1 \notin Bad
      BY <2>1, <2>2, <2>4
    <3>2. PICK f : f = F(f, m - 1)
      BY <3>1 DEF Bad
    <3> DEFINE g == [n \in 0..m |-> IF n = 0 THEN <<>> ELSE Given(f[n - 1], n)]
    <3>3. \A n \in 0..(m - 1) : g[n] = f[n]
      <4> TAKE n \in 0..(m - 1)
      <4>1. f[n] = IF n = 0 THEN <<>> ELSE Given(f[n - 1], n)
        BY <3>2
      <4>2. n \in 0..m
        BY <2>2
      <4>3. QED
        BY <4>1, <4>2
    <3>4. \A n \in 0..m : g[n] = F(g, m)[n]
      <4> TAKE n \in 0..m
      <4>1. CASE n = 0
        BY <4>1
      <4>2. CASE n # 0
        <5>1. n - 1 \in 0..(m - 1)
          BY <2>2, <4>2
        <5>2. g[n - 1] = f[n - 1]
          BY <3>3, <5>1
        <5>3. g[n] = Given(f[n - 1], n)
          BY <4>2
        <5>4. F(g, m)[n] = Given(g[n - 1], n)
          BY <4>2
        <5>5. QED
          BY <5>2, <5>3, <5>4
      <4>3. QED
        BY <4>1, <4>2
    <3>5. g = F(g, m)
      BY <3>4
    <3>6. QED
      BY <2>2, <3>5
  <2>5. QED
    BY <2>3, <2>4
<1>5. first = F(first, Len(s))
  BY <1>1, <1>4 DEF first
<1>6. first[0] = <<>> /\ \A n \in 1..Len(s) : first[n] = Given(first[n - 1], n)
  <2>1. \A n \in 0..Len(s) : first[n] = IF n = 0 THEN <<>> ELSE Given(first[n - 1], n)
    BY <1>5
  <2> HIDE DEF F
  <2>2. first[0] = <<>>
    BY <1>1, <2>1
  <2>3. ASSUME NEW n \in 1..Len(s) PROVE first[n] = Given(first[n - 1], n)
    <3>1. n \in 0..Len(s) /\ n # 0
      BY <1>1
    <3>2. QED
      BY <2>1, <3>1
  <2>4. QED
    BY <2>2, <2>3
<1> HIDE DEF F, Bad
<1>7. \A n \in 0..Len(s) : first[n] \in Seq(S)
  <2> DEFINE Ill == {n \in 0..Len(s) : first[n] \notin Seq(S)}
  <2> SUFFICES ASSUME Ill # {} PROVE FALSE
    OBVIOUS
  <2>1. Ill \in SUBSET Nat
    BY <1>1
  <2>2. PICK n \in Ill : \A k \in Ill : n <= k
    BY <2>1, HasLeast
  <2>3. n \in 0..Len(s) /\ first[n] \notin Seq(S)
    OBVIOUS
  <2>4. n # 0
    <3>1. <<>> \in Seq(S)
      OBVIOUS
    <3>2. QED
      BY <1>6, <2>3, <3>1
  <2>5. n \in 1..Len(s) /\ n - 1 \in 0..Len(s) /\ ~ (n <= n - 1)
    BY <1>1, <2>3, <2>4
  <2>6. n - 1 \notin Ill
    BY <2>2, <2>5
  <2>7. first[n - 1] \in Seq(S)
    BY <2>5, <2>6
  <2>8. QED
    BY <1>3, <1>6, <2>3, <2>5, <2>7
<1>8. QED
  BY <1>1, <1>2, <1>7

(* The last to say something of a unit is the greatest of those that do.   *)
Speaking(said, u, n) == {i \in 1..n : u \in said[i].units}
After(states, said, u, n) ==
    IF Speaking(said, u, n) = {} THEN states[u] ELSE said[Max(Speaking(said, u, n))].on

LEMMA NobodySpeaks ==
    ASSUME NEW states, NEW said, NEW u
    PROVE  After(states, said, u, 0) = states[u]
BY DEF After, Speaking

LEMMA NewestSpeaks ==
    ASSUME NEW states, NEW said, NEW u, NEW n \in Nat \ {0}
    PROVE  /\ u \in said[n].units => After(states, said, u, n) = said[n].on
           /\ u \notin said[n].units
                => After(states, said, u, n) = After(states, said, u, n - 1)
<1>1. 1..n = (1..(n - 1)) \cup {n}
  OBVIOUS
<1>2. CASE u \in said[n].units
  <2> DEFINE T == Speaking(said, u, n)
  <2>1. n \in T /\ \A i \in T : i \in Nat /\ n >= i
    BY <1>2 DEF Speaking
  <2> HIDE DEF T
  <2>2. Max(T) = n
    <3>1. \E x \in T : \A y \in T : x >= y
      BY <2>1
    <3>2. Max(T) \in T /\ \A y \in T : Max(T) >= y
      BY <3>1 DEF Max
    <3>3. ASSUME NEW x \in T, \A y \in T : x >= y PROVE x = n
      <4>1. x >= n /\ n >= x /\ x \in Nat
        BY <2>1, <3>3
      <4>2. QED
        BY <4>1
    <3>4. QED
      BY <3>2, <3>3
  <2>3. QED
    BY <1>2, <2>1, <2>2 DEF After, T
<1>3. CASE u \notin said[n].units
  <2>1. Speaking(said, u, n) = Speaking(said, u, n - 1)
    BY <1>1, <1>3 DEF Speaking
  <2>2. QED
    BY <1>3, <2>1 DEF After
<1>4. QED
  BY <1>2, <1>3

(* Saying one thing over another comes to what was said last.              *)
LEMMA LastSpeaks ==
    ASSUME NEW states, states = [u \in DOMAIN states |-> states[u]],
           NEW said, Len(said) \in Nat
    PROVE  Over(states, said) = [u \in DOMAIN states |-> After(states, said, u, Len(said))]
<1> DEFINE N == Len(said)
           F(f) == [n \in 0..N |-> IF n = 0 THEN states ELSE Say(f[n - 1], said[n].on, said[n].units)]
           after == CHOOSE f : f = F(f)
           Then(n) == [u \in DOMAIN states |-> After(states, said, u, n)]
           G == [n \in 0..N |-> Then(n)]
<1>1. Over(states, said) = after[N]
  BY DEF Over
<1> HIDE DEF N, after, G
<1>2. N \in Nat
  BY DEF N
<1>3. Then(0) = states
  BY NobodySpeaks
<1>4. ASSUME NEW n \in 1..N
      PROVE  Then(n) = Say(Then(n - 1), said[n].on, said[n].units)
  <2>1. \A u : /\ u \in said[n].units => After(states, said, u, n) = said[n].on
               /\ u \notin said[n].units
                    => After(states, said, u, n) = After(states, said, u, n - 1)
    <3> TAKE u
    <3>1. n \in Nat \ {0}
      BY <1>2
    <3>2. u \in said[n].units => After(states, said, u, n) = said[n].on
      BY <3>1, NewestSpeaks
    <3>3. u \notin said[n].units
             => After(states, said, u, n) = After(states, said, u, n - 1)
      BY <3>1, NewestSpeaks
    <3>4. QED
      BY <3>2, <3>3
  <2>2. QED
    BY <2>1 DEF Say
<1> HIDE DEF Then
<1>5. G = F(G)
  <2>1. \A n \in 0..N : G[n] = F(G)[n]
    <3> TAKE n \in 0..N
    <3>1. G[n] = Then(n)
      BY DEF G
    <3>2. CASE n = 0
      BY <1>3, <3>1, <3>2
    <3>3. CASE n # 0
      <4>1. n \in 1..N /\ n - 1 \in 0..N
        BY <1>2, <3>3
      <4>2. G[n - 1] = Then(n - 1)
        BY <4>1 DEF G
      <4>3. QED
        BY <1>4, <3>1, <3>3, <4>1, <4>2
    <3>4. QED
      BY <3>2, <3>3
  <2>2. G = [n \in 0..N |-> G[n]]
    BY DEF G
  <2>3. QED
    BY <2>1, <2>2
<1>6. after = F(after)
  BY <1>5 DEF after
<1>7. after[0] = states /\ \A n \in 1..N : after[n] = Say(after[n - 1], said[n].on, said[n].units)
  <2>1. \A n \in 0..N : after[n] = IF n = 0 THEN states ELSE Say(after[n - 1], said[n].on, said[n].units)
    BY <1>6
  <2> HIDE DEF F
  <2>2. after[0] = states
    BY <1>2, <2>1
  <2>3. ASSUME NEW n \in 1..N PROVE after[n] = Say(after[n - 1], said[n].on, said[n].units)
    <3>1. n \in 0..N /\ n # 0
      BY <1>2
    <3>2. QED
      BY <2>1, <3>1
  <2>4. QED
    BY <2>2, <2>3
<1> HIDE DEF F
<1>8. \A n \in 0..N : after[n] = Then(n)
  <2> DEFINE Bad == {n \in 0..N : after[n] # Then(n)}
  <2> SUFFICES ASSUME Bad # {} PROVE FALSE
    OBVIOUS
  <2>1. Bad \in SUBSET Nat
    BY <1>2
  <2>2. PICK n \in Bad : \A k \in Bad : n <= k
    BY <2>1, HasLeast
  <2>3. n \in 0..N /\ after[n] # Then(n) /\ n # 0
    BY <1>3, <1>7
  <2>4. n \in 1..N /\ n - 1 \in 0..N /\ ~ (n <= n - 1)
    BY <1>2, <2>3
  <2>5. n - 1 \notin Bad
    BY <2>2, <2>4
  <2>6. after[n - 1] = Then(n - 1)
    BY <2>4, <2>5
  <2>7. QED
    BY <1>4, <1>7, <2>3, <2>4, <2>6
<1>9. after[N] = Then(N)
  BY <1>2, <1>8
<1>10. QED
  BY <1>1, <1>9 DEF N, Then

(* The day after a week, and the day before, within two weeks.             *)
LEMMA Weekday ==
    ASSUME NEW w \in Nat, w > 0, NEW d \in 0..(2 * w - 1)
    PROVE  /\ d % w = (IF d < w THEN d ELSE d - w)
           /\ (d + w) % w = d % w
           /\ (d - 1 + w) % w = ((d % w) + w - 1) % w
<1>1. ASSUME NEW a \in 0..(w - 1), NEW q \in Nat PROVE (q * w + a) % w = a
  BY <1>1
<1>2. QED
  BY <1>1

(* A window is of the day it starts on: today's, or yesterday's tail.      *)
LEMMA Hours ==
    ASSUME NEW s \in Nat, NEW d \in Nat, NEW t \in 0..(s - 1),
           NEW from \in 0..(s - 1), NEW to \in 0..(s - 1), NEW date \in Int
    PROVE  /\ from <= to =>
                 ((d * s + t \in (date * s + from)..(date * s + to - 1))
                     <=> (date = d /\ from <= t /\ t < to))
           /\ to < from =>
                 ((d * s + t \in (date * s + from)..(date * s + to + s - 1))
                     <=> ((date = d /\ t >= from) \/ (date = d - 1 /\ t < to)))
<1> DEFINE at == d * s
           start == date * s
<1>1. at \in Int /\ start \in Int
  OBVIOUS
<1>2. date = d => start = at
  OBVIOUS
<1>3. date = d - 1 => start = at - s
  OBVIOUS
<1>4. date < d - 1 => start + s + s <= at
  <2> SUFFICES ASSUME date < d - 1 PROVE start + s + s <= at
    OBVIOUS
  <2>1. PICK k \in Nat : d = date + 2 + k
    <3>1. d - date - 2 \in Nat /\ d = date + 2 + (d - date - 2)
      OBVIOUS
    <3>2. QED
      BY <3>1
  <2>2. d * s = date * s + 2 * s + k * s /\ k * s >= 0
    BY <2>1
  <2>3. QED
    BY <2>2
<1>5. date > d => start >= at + s
  <2> SUFFICES ASSUME date > d PROVE start >= at + s
    OBVIOUS
  <2>1. PICK k \in Nat : date = d + 1 + k
    <3>1. date - d - 1 \in Nat /\ date = d + 1 + (date - d - 1)
      OBVIOUS
    <3>2. QED
      BY <3>1
  <2>2. date * s = d * s + s + k * s /\ k * s >= 0
    BY <2>1
  <2>3. QED
    BY <2>2
<1>6. date = d \/ date = d - 1 \/ date < d - 1 \/ date > d
  OBVIOUS
<1> HIDE DEF at, start
<1>7. \A last \in Int : (at + t \in (start + from)..last)
                           <=> (start + from <= at + t /\ at + t <= last)
  BY <1>1
<1>8. from <= to => ((at + t \in (start + from)..(start + to - 1))
                        <=> (date = d /\ from <= t /\ t < to))
  BY <1>1, <1>2, <1>3, <1>4, <1>5, <1>6, <1>7
<1>9. to < from => ((at + t \in (start + from)..(start + to + s - 1))
                        <=> ((date = d /\ t >= from) \/ (date = d - 1 /\ t < to)))
  BY <1>1, <1>2, <1>3, <1>4, <1>5, <1>6, <1>7
<1>10. QED
  BY <1>8, <1>9 DEF at, start

(* What the code tests is whether the moment is in one of the windows.     *)
LEMMA RuleWindow ==
    ASSUME NEW r, IsRule(r), NEW m \in Moments
    PROVE  RuleMatches(r, m) <=> RuleCovers(r, m)
<1> DEFINE d == m.date
           t == m.slot
           From(date) == date * Slots + r.start
           To(date)   == date * Slots + r.end + (IF r.end < r.start THEN Slots ELSE 0)
<1>1. /\ Week \in Nat /\ Week > 0 /\ Slots \in Nat
      /\ d \in 0..(2 * Week - 1) /\ t \in 0..(Slots - 1) /\ d \in Nat
      /\ r.start \in 0..(Slots - 1) /\ r.end \in 0..(Slots - 1)
  BY ProgrammeAssumption DEF IsRule, Moments
<1>2. /\ (d + Week) % Week = d % Week
      /\ (d - 1 + Week) % Week = ((d % Week) + Week - 1) % Week
  BY <1>1, Weekday
<1>3. RuleCovers(r, m) <=> \E date \in -1..(2 * Week - 1) :
                              /\ (date + Week) % Week \in r.days
                              /\ d * Slots + t \in From(date)..(To(date) - 1)
  BY DEF RuleCovers, Hour
<1> HIDE DEF d, t
<1>4. CASE r.start <= r.end
  <2>1. ASSUME NEW date \in -1..(2 * Week - 1)
        PROVE  (d * Slots + t \in From(date)..(To(date) - 1))
                   <=> (date = d /\ r.start <= t /\ t < r.end)
    <3>1. To(date) - 1 = date * Slots + r.end - 1
      BY <1>1, <1>4
    <3> DEFINE a == r.start
               b == r.end
    <3> HIDE DEF a, b
    <3>2. a \in 0..(Slots - 1) /\ b \in 0..(Slots - 1) /\ a <= b /\ date \in Int
      BY <1>1, <1>4 DEF a, b
    <3>3. (d * Slots + t \in (date * Slots + a)..(date * Slots + b - 1))
                   <=> (date = d /\ a <= t /\ t < b)
      BY <1>1, <3>2, Hours
    <3>4. QED
      BY <3>1, <3>3 DEF a, b
  <2> HIDE DEF From, To
  <2>2. RuleCovers(r, m) <=> /\ (d + Week) % Week \in r.days
                             /\ r.start <= t /\ t < r.end
    BY <1>1, <1>3, <2>1
  <2>3. QED
    BY <1>2, <1>4, <2>2 DEF RuleMatches, d, t
<1>5. CASE ~(r.start <= r.end)
  <2>1. ASSUME NEW date \in -1..(2 * Week - 1)
        PROVE  (d * Slots + t \in From(date)..(To(date) - 1))
                   <=> ((date = d /\ t >= r.start) \/ (date = d - 1 /\ t < r.end))
    <3>1. To(date) - 1 = date * Slots + r.end + Slots - 1
      BY <1>1, <1>5
    <3> DEFINE a == r.start
               b == r.end
    <3> HIDE DEF a, b
    <3>2. a \in 0..(Slots - 1) /\ b \in 0..(Slots - 1) /\ b < a /\ date \in Int
      BY <1>1, <1>5 DEF a, b
    <3>3. (d * Slots + t \in (date * Slots + a)..(date * Slots + b + Slots - 1))
                   <=> ((date = d /\ t >= a) \/ (date = d - 1 /\ t < b))
      BY <1>1, <3>2, Hours
    <3>4. QED
      BY <3>1, <3>3 DEF a, b
  <2> HIDE DEF From, To
  <2>2. RuleCovers(r, m) <=> \/ (d + Week) % Week \in r.days /\ t >= r.start
                             \/ (d - 1 + Week) % Week \in r.days /\ t < r.end
    <3>1. d \in -1..(2 * Week - 1) /\ d - 1 \in -1..(2 * Week - 1)
      BY <1>1
    <3>2. ASSUME RuleCovers(r, m)
          PROVE  \/ (d + Week) % Week \in r.days /\ t >= r.start
                 \/ (d - 1 + Week) % Week \in r.days /\ t < r.end
      BY <1>3, <2>1, <3>2
    <3>3. ASSUME (d + Week) % Week \in r.days, t >= r.start PROVE RuleCovers(r, m)
      BY <1>3, <2>1, <3>1, <3>3
    <3>4. ASSUME (d - 1 + Week) % Week \in r.days, t < r.end PROVE RuleCovers(r, m)
      BY <1>3, <2>1, <3>1, <3>4
    <3>5. QED
      BY <3>2, <3>3, <3>4
  <2>3. QED
    BY <1>2, <1>5, <2>2 DEF RuleMatches, d, t
<1>6. QED
  BY <1>4, <1>5

LEMMA HasGreatest ==
    ASSUME NEW n \in Nat, NEW S \in SUBSET (1..n), S # {}
    PROVE  \E x \in S : \A y \in S : x >= y
<1> DEFINE T == {n - x : x \in S}
<1>1. T \in SUBSET Nat /\ T # {}
  <2>1. \A x \in S : n - x \in Nat
    OBVIOUS
  <2>2. QED
    BY <2>1
<1> HIDE DEF T
<1>2. PICK z \in T : \A y \in T : z <= y
  BY <1>1, HasLeast
<1> USE DEF T
<1>3. PICK x \in S : z = n - x
  BY <1>2
<1>4. ASSUME NEW y \in S PROVE x >= y
  <2>1. n - y \in T
    OBVIOUS
  <2>2. n - x <= n - y
    BY <1>2, <1>3, <2>1
  <2>3. QED
    BY <2>2
<1>5. QED
  BY <1>4

(* Rules first, exceptions over them: the last of either is the greatest   *)
(* number among those that cover the moment.                               *)
LEMMA WhatIsWanted ==
    ASSUME ProgrammeOK PROVE WantedIsLastSaid
<1>1. /\ IsDocument(document)
  BY DEF ProgrammeOK
<1> DEFINE s == Parsed(document)
           rules == document.rules
           dated == WithAction(document.exceptions)
<1>2. s.rules = rules /\ s.exceptions = dated
  BY <1>1, ParsedIs
<1>3. /\ Len(rules) \in Nat /\ DOMAIN rules = 1..Len(rules)
      /\ \A i \in DOMAIN rules : IsRule(rules[i]) /\ rules[i] \in ToSet(rules)
  <2>1. /\ Len(rules) \in Nat /\ DOMAIN rules = 1..Len(rules)
    BY <1>1, ListIs DEF IsDocument
  <2>2. \A i \in DOMAIN rules : rules[i] \in ToSet(rules)
    BY DEF ToSet
  <2>3. QED
    BY <1>1, <2>1, <2>2 DEF IsDocument
<1>4. /\ Len(dated) \in Nat /\ DOMAIN dated = 1..Len(dated)
      /\ \A i \in DOMAIN dated : dated[i] \in ToSet(dated)
  <2>1. dated \in Seq(ToSet(document.exceptions))
    BY <1>1, ListedExceptions DEF IsDocument, IsList
  <2>2. Len(dated) \in Nat /\ DOMAIN dated = 1..Len(dated)
    BY <2>1
  <2>3. QED
    BY <2>2 DEF ToSet
<1> SUFFICES ASSUME NEW m \in Moments, NEW u \in Units
             PROVE  LET byDate == Said(s.exceptions, ExceptionMatches, u, m)
                        byWeek == Said(s.rules, RuleCovers, u, m)
                        wanted == u \in DOMAIN Desired(s, m) /\ Desired(s, m)[u]
                    IN  wanted = IF byDate # {} THEN s.exceptions[Max(byDate)].action = "heat_on"
                                 ELSE byWeek # {} /\ s.rules[Max(byWeek)].on
  BY DEF WantedIsLastSaid
<1> DEFINE byDate == {i \in DOMAIN dated : u \in dated[i].units /\ ExceptionMatches(dated[i], m)}
           byWeek == {i \in DOMAIN rules : u \in rules[i].units /\ RuleCovers(rules[i], m)}
           Targets == TargetsOf(s)
           off == [v \in Targets |-> FALSE]
           W == Weekly(rules, m)
           D == Dated(dated, m)
<1>5. \A i \in DOMAIN rules : RuleMatches(rules[i], m) <=> RuleCovers(rules[i], m)
  BY <1>3, RuleWindow
<1>6. /\ Len(W) = Len(rules)
      /\ Speaking(W, u, Len(rules)) = byWeek
      /\ \A i \in byWeek : W[i].on = rules[i].on
  BY <1>3, <1>5 DEF Speaking, Weekly
<1>7. /\ Len(D) = Len(dated)
      /\ Speaking(D, u, Len(dated)) = byDate
      /\ \A i \in byDate : D[i].on = (dated[i].action = "heat_on")
  BY <1>4 DEF Speaking, Dated
<1> HIDE DEF W, D
<1>8. Over(off, W) = [v \in Targets |-> After(off, W, v, Len(rules))]
  <2>1. DOMAIN off = Targets /\ off = [v \in DOMAIN off |-> off[v]]
    OBVIOUS
  <2> HIDE DEF off
  <2>2. Over(off, W) = [v \in DOMAIN off |-> After(off, W, v, Len(W))]
    BY <1>3, <1>6, <2>1, LastSpeaks
  <2>3. QED
    BY <1>6, <2>1, <2>2
<1>9. Desired(s, m) = [v \in Targets |-> After(Over(off, W), D, v, Len(dated))]
  <2>1. Desired(s, m) = Over(Over(off, W), D)
    BY <1>2 DEF Desired, W, D
  <2> DEFINE o == Over(off, W)
  <2>2. o = [v \in DOMAIN o |-> o[v]] /\ DOMAIN o = Targets
    BY <1>8
  <2> HIDE DEF o
  <2>3. Over(o, D) = [v \in DOMAIN o |-> After(o, D, v, Len(D))]
    BY <1>4, <1>7, <2>2, LastSpeaks
  <2>4. QED
    BY <1>7, <2>1, <2>2, <2>3 DEF o
<1>10. /\ \A i \in byWeek : u \in Targets /\ rules[i].on \in BOOLEAN
       /\ \A i \in byDate : u \in Targets
  BY <1>2, <1>3, <1>4 DEF TargetsOf, IsRule
<1>11. /\ byWeek # {} => Max(byWeek) \in byWeek
       /\ byDate # {} => Max(byDate) \in byDate
  <2>1. ASSUME NEW n \in Nat, NEW S \in SUBSET (1..n), S # {} PROVE Max(S) \in S
    BY <2>1, HasGreatest DEF Max
  <2>2. byWeek \in SUBSET (1..Len(rules)) /\ byDate \in SUBSET (1..Len(dated))
    BY <1>3, <1>4
  <2> HIDE DEF byWeek, byDate
  <2>3. QED
    BY <1>3, <1>4, <2>1, <2>2
<1>12. u \notin Targets => byDate = {} /\ byWeek = {}
  BY <1>10
<1> DEFINE wanted == u \in DOMAIN Desired(s, m) /\ Desired(s, m)[u]
           told == IF byDate # {} THEN dated[Max(byDate)].action = "heat_on"
                   ELSE byWeek # {} /\ rules[Max(byWeek)].on
<1>13. ASSUME u \notin Targets PROVE wanted = told
  <2>1. u \notin DOMAIN Desired(s, m)
    BY <1>9, <1>13
  <2>2. byDate = {} /\ byWeek = {}
    BY <1>12, <1>13
  <2>3. QED
    BY <2>1, <2>2
<1>14. ASSUME u \in Targets PROVE wanted = told
  <2>1. u \in DOMAIN Desired(s, m) /\ Desired(s, m)[u] = After(Over(off, W), D, u, Len(dated))
    BY <1>9, <1>14
  <2>2. Over(off, W)[u] = After(off, W, u, Len(rules)) /\ off[u] = FALSE
    BY <1>8, <1>14
  <2>3. CASE byDate # {}
    <3>1. Max(byDate) \in byDate
      BY <1>11, <2>3
    <3>2. Desired(s, m)[u] = D[Max(byDate)].on
      BY <1>7, <2>1, <2>3 DEF After
    <3> DEFINE a == dated[Max(byDate)].action = "heat_on"
    <3>3. D[Max(byDate)].on = a
      BY <1>7, <3>1
    <3>4. told = a
      BY <2>3
    <3> HIDE DEF told, a
    <3>5. wanted = a
      BY <2>1, <3>2, <3>3 DEF a
    <3>6. QED
      BY <3>4, <3>5
  <2>4. CASE byDate = {} /\ byWeek # {}
    <3>1. Max(byWeek) \in byWeek
      BY <1>11, <2>4
    <3>2. Desired(s, m)[u] = W[Max(byWeek)].on
      BY <1>6, <1>7, <2>1, <2>2, <2>4 DEF After
    <3>3. QED
      BY <1>6, <1>10, <2>1, <2>4, <3>1, <3>2
  <2>5. CASE byDate = {} /\ byWeek = {}
    <3>1. Desired(s, m)[u] = FALSE
      BY <1>6, <1>7, <2>1, <2>2, <2>5 DEF After
    <3>2. QED
      BY <2>1, <2>5, <3>1
  <2>6. QED
    BY <2>3, <2>4, <2>5
<1>15. QED
  BY <1>2, <1>13, <1>14 DEF Said

(* What the device wants of a unit is what was last said of it, for any    *)
(* week, any day and any document the server or an operator can make.      *)
THEOREM LastSaidIsWanted == ProgrammeSpec => []WantedIsLastSaid
<1>1. ProgrammeOK => WantedIsLastSaid
  BY WhatIsWanted
<1>2. QED
  BY <1>1, ProgrammeInvariant, PTL
=============================================================================
