------------------------------ MODULE MCAgent ------------------------------
(***************************************************************************)
(* Parts of the agent that meet only through what the others take as       *)
(* given: the two latches, the programme and its editors, the session with *)
(* its commands, signing in, the wiring, the 1-Wire bus and a document's   *)
(* file.  A run follows one of them.                                       *)
(***************************************************************************)
EXTENDS LimitLatch, FreezeLatch, MCProgramme, Session, SignIn, MCWiring, JsonFile, Watcher

CONSTANTS p1, p2, w     \* water probes, a writer

VARIABLE part

(* ------------------------------- latches ------------------------------- *)
TenSeven == [max |-> {10}, min |-> {7}, room |-> {3}]
RoomOnly == [max |-> {}, min |-> {}, room |-> {3}]
AllLimits == {TenSeven, RoomOnly}
OneOrMore == {{"body"}, {"outlet", "inlet"}}

(* ------------------------------- commands ------------------------------ *)
FourAsks(c) == CASE c = 1 -> "switch" [] c = 2 -> "restart" [] c = 3 -> "set" [] OTHER -> "switch"

-----------------------------------------------------------------------------
agentVars == <<limitVars, freezeVars, programmeVars, sessionVars, signInVars, wiringVars, jsonVars,
               watcherVars>>

AgentInit ==
    /\ part \in {"limit", "freeze", "programme", "session", "sign in", "wiring", "file",
                "watcher"}
    /\ LimitInit /\ FreezeInit /\ ProgrammeInit /\ SessionInit /\ SignInInit
    /\ WiringInit /\ JsonInit /\ WatcherInit
    /\ part # "limit" => probes = {"body"}
    /\ part # "sign in" => kept = None
    /\ part # "wiring" => server = RecordOf(<<>>, ThreeRelays)

FollowLimit ==
    /\ part = "limit" /\ LimitNext
    /\ UNCHANGED <<part, freezeVars, programmeVars, sessionVars, signInVars,
                   wiringVars, jsonVars, watcherVars>>
FollowFreeze ==
    /\ part = "freeze" /\ FreezeNext
    /\ UNCHANGED <<part, limitVars, programmeVars, sessionVars, signInVars,
                   wiringVars, jsonVars, watcherVars>>
FollowProgramme ==
    /\ part = "programme" /\ ProgrammeNext
    /\ UNCHANGED <<part, limitVars, freezeVars, sessionVars, signInVars,
                   wiringVars, jsonVars, watcherVars>>
FollowSession ==
    /\ part = "session" /\ SessionNext
    /\ UNCHANGED <<part, limitVars, freezeVars, programmeVars, signInVars,
                   wiringVars, jsonVars, watcherVars>>
FollowSignIn ==
    /\ part = "sign in" /\ SignInNext
    /\ UNCHANGED <<part, limitVars, freezeVars, programmeVars, sessionVars,
                   wiringVars, jsonVars, watcherVars>>
FollowWiring ==
    /\ part = "wiring" /\ WiringNext
    /\ UNCHANGED <<part, limitVars, freezeVars, programmeVars, sessionVars,
                   signInVars, jsonVars, watcherVars>>
FollowFile ==
    /\ part = "file" /\ JsonNext
    /\ UNCHANGED <<part, limitVars, freezeVars, programmeVars, sessionVars,
                   signInVars, wiringVars, watcherVars>>
FollowWatcher ==
    /\ part = "watcher" /\ WatcherNext
    /\ UNCHANGED <<part, limitVars, freezeVars, programmeVars, sessionVars,
                   signInVars, wiringVars, jsonVars>>

AgentNext ==
    \/ FollowLimit \/ FollowFreeze \/ FollowProgramme \/ FollowSession
    \/ FollowSignIn \/ FollowWiring \/ FollowFile \/ FollowWatcher

(* The read cycles, the session's task and the cloud, the two tasks that   *)
(* sign in and the record loop go on; a server asked again and again       *)
(* answers, and a disk is not full for ever.                               *)
AgentSpec ==
    /\ AgentInit
    /\ [][AgentNext]_<<part, agentVars>>
    /\ WF_freezeVars(part = "freeze" /\ FreezeCycle)
    /\ WF_sessionVars(part = "session" /\ SessionStep)
    /\ WF_sessionVars(part = "session" /\ AnswerHello)
    /\ WF_sessionVars(part = "session" /\ HearDevice)
    /\ WF_signInVars(part = "sign in" /\ AuthStep)
    /\ WF_signInVars(part = "sign in" /\ DialogStep)
    /\ SF_signInVars(part = "sign in" /\ Answer)
    /\ WF_wiringVars(part = "wiring" /\ RecordStep)
    /\ SF_wiringVars(part = "wiring" /\ SaveRecord)
=============================================================================
