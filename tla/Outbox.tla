------------------------------- MODULE Outbox -------------------------------
(***************************************************************************)
(* How the server learns the state of the relays: telemetry_client.py, the *)
(* outbox in data_logger.py, and the three that use them - the sensor task *)
(* (a post per read cycle), the state publisher (a post per change) and    *)
(* the listener's reconciliation (a drain of the backlog per session).     *)
(*                                                                         *)
(* What an envelope says of the relays is one number: the moment of the    *)
(* last change that was announced when they were read.  An action is the   *)
(* code between two suspensions; a store operation is part of the action   *)
(* that starts it.                                                         *)
(***************************************************************************)
EXTENDS Naturals, SequencesExt

CONSTANTS
    MaxPending,   \* OUTBOX_MAX_PENDING
    MaxAttempts,  \* OUTBOX_MAX_ATTEMPTS
    FlushBatch,   \* FLUSH_BATCH
    MaxMoment     \* bound: the changes of state

ASSUME OutboxAssumption ==
    /\ MaxPending \in Nat \ {0}
    /\ MaxAttempts \in Nat \ {0, 1}
    /\ FlushBatch \in Nat \ {0, 1}
    /\ MaxMoment \in Nat \ {0}

Posters == {"sensor", "publisher"}
Tasks   == Posters \cup {"ws"}

VARIABLES
    moment,    \* of the last announced change
    changed,   \* the event state_changed
    posted,    \* _last_telemetry_at is set
    session,   \* the event authenticated
    up,        \* whether the server can be reached and answers
    outbox,    \* the rows the flush will send: unsynced, attempts below the cap
    aside,     \* how many unsynced rows were given up; they are the oldest
    pc,        \* where each task is
    env,       \* the envelope each poster built
    lock,      \* _send_lock: its holder, then those who wait for it
    wire,      \* the holder's request: none, out, or in (the server took it)
    batch,     \* rows of the holder's flush still to send
    short,     \* the flush read fewer rows than its limit
    moved,     \* the flush delivered something
    orphans,   \* requests whose coroutine was cancelled
    server,    \* what the server shows
    captured   \* history: the newest moment in an envelope

device == <<moment, changed, posted, session, up>>
rows   == <<outbox, aside>>
flush  == <<batch, short, moved>>
world  == <<orphans, server, captured>>
vars   == <<device, rows, pc, env, lock, wire, flush, world>>

Goto(p, l) == pc' = [pc EXCEPT ![p] = l]
Holds(p)   == lock # <<>> /\ Head(lock) = p

-----------------------------------------------------------------------------
(* The device. *)

Change ==
    /\ moment < MaxMoment
    /\ moment' = moment + 1
    /\ changed' = TRUE
    /\ UNCHANGED <<posted, session, up, rows, pc, env, lock, wire, flush, world>>

LinkChanges ==
    /\ up' = ~up
    /\ UNCHANGED <<moment, changed, posted, session, rows, pc, env, lock, wire,
                   flush, world>>

Login ==
    /\ up
    /\ ~session
    /\ session' = TRUE
    /\ UNCHANGED <<moment, changed, posted, up, rows, pc, env, lock, wire,
                   flush, world>>

(* The publisher wakes, debounces, clears the event, pushes device.state   *)
(* and waits for a session and for its floor of five seconds.              *)
PublisherWakes ==
    /\ pc["publisher"] = "idle"
    /\ changed
    /\ changed' = FALSE
    /\ Goto("publisher", "pushing")
    /\ UNCHANGED <<moment, posted, session, up, rows, env, lock, wire, flush,
                   world>>

PublisherPosts ==
    /\ pc["publisher"] = "pushing"
    /\ session
    /\ Goto("publisher", "building")
    /\ UNCHANGED <<device, rows, env, lock, wire, flush, world>>

(* A read cycle finds telemetry due.                                       *)
CycleDue ==
    /\ pc["sensor"] = "idle"
    /\ session
    /\ posted' = TRUE
    /\ Goto("sensor", "building")
    /\ UNCHANGED <<moment, changed, session, up, rows, env, lock, wire, flush,
                   world>>

(* The metrics are there: the relays are read and the lock is asked for    *)
(* without a suspension in between.                                        *)
Capture(p) ==
    /\ pc[p] = "building"
    /\ env' = [env EXCEPT ![p] = moment]
    /\ captured' = moment
    /\ lock' = Append(lock, p)
    /\ Goto(p, "queued")
    /\ UNCHANGED <<device, rows, wire, flush, orphans, server>>

(* A session has opened; its reconciliation reaches the backlog.           *)
Hello ==
    /\ pc["ws"] = "idle"
    /\ session
    /\ up
    /\ lock' = Append(lock, "ws")
    /\ Goto("ws", "queued")
    /\ UNCHANGED <<device, rows, env, wire, flush, world>>

-----------------------------------------------------------------------------
(* With the lock: flush_outbox. *)

StartFlush(p) ==
    LET read == IF Len(outbox) < FlushBatch THEN Len(outbox) ELSE FlushBatch IN
    /\ batch' = read
    /\ short' = (read < FlushBatch)
    /\ moved' = FALSE
    /\ Goto(p, IF read = 0 THEN "flushed" ELSE "resending")
    /\ wire' = IF read = 0 THEN "none" ELSE "out"
    /\ UNCHANGED <<device, rows, env, lock, world>>

Flush(p) ==
    /\ Holds(p)
    /\ pc[p] = "queued"
    /\ StartFlush(p)

(* The budget of a drain is not used up.                                   *)
FlushAgain ==
    /\ pc["ws"] = "blocked"
    /\ moved
    /\ StartFlush("ws")

Carried(p) == IF pc[p] = "resending" THEN Head(outbox).env ELSE env[p]

Accept(p) ==
    /\ Holds(p)
    /\ wire = "out"
    /\ wire' = "in"
    /\ server' = Carried(p)
    /\ UNCHANGED <<device, rows, pc, env, lock, flush, orphans, captured>>

(* Slip: a full batch is taken for the whole queue.                      *)
DrainedByBatch == TRUE
Drained == short

(* Slip: the delivered row is not marked.                                *)
ResentUnmarked(p) ==
    /\ pc[p] = "resending"
    /\ wire = "in"
    /\ up
    /\ batch' = batch - 1
    /\ moved' = TRUE
    /\ wire' = "none"
    /\ Goto(p, IF Drained THEN "flushed" ELSE "blocked")
    /\ UNCHANGED <<device, rows, env, lock, short, world>>

Resent(p) ==
    /\ pc[p] = "resending"
    /\ wire = "in"
    /\ up
    /\ outbox' = Tail(outbox)
    /\ batch' = batch - 1
    /\ moved' = TRUE
    /\ \/ /\ batch > 1
          /\ wire' = "out"
          /\ UNCHANGED pc
       \/ /\ batch = 1
          /\ wire' = "none"
          /\ Goto(p, IF Drained THEN "flushed" ELSE "blocked")
    /\ UNCHANGED <<device, aside, env, lock, short, world>>

ResendFails(p) ==
    /\ pc[p] = "resending"
    /\ wire # "none"
    /\ ~up
    /\ LET tries == Head(outbox).attempts + 1 IN
       \/ /\ tries < MaxAttempts
          /\ outbox' = [outbox EXCEPT ![1].attempts = tries]
          /\ UNCHANGED aside
       \/ /\ tries >= MaxAttempts
          /\ outbox' = Tail(outbox)
          /\ aside' = aside + 1
    /\ wire' = "none"
    /\ batch' = 0
    /\ Goto(p, "blocked")
    /\ UNCHANGED <<device, env, lock, short, moved, world>>

-----------------------------------------------------------------------------
(* post_telemetry after its flush. *)

Leave(p) ==
    /\ Goto(p, "idle")
    /\ env' = [env EXCEPT ![p] = 0]
    /\ lock' = Tail(lock)
    /\ wire' = "none"
    /\ batch' = 0
    /\ short' = FALSE
    /\ moved' = FALSE

Post(p) ==
    /\ pc[p] = "flushed"
    /\ Goto(p, "posting")
    /\ wire' = "out"
    /\ UNCHANGED <<device, rows, env, lock, flush, world>>

(* Slip: the publisher clears the event after its post.                  *)
PostedThenCleared(p) ==
    /\ pc[p] = "posting"
    /\ wire = "in"
    /\ up
    /\ Leave(p)
    /\ posted' = TRUE
    /\ changed' = FALSE
    /\ UNCHANGED <<moment, session, up, rows, world>>

Posted(p) ==
    /\ pc[p] = "posting"
    /\ wire = "in"
    /\ up
    /\ Leave(p)
    /\ posted' = TRUE
    /\ UNCHANGED <<moment, changed, session, up, rows, world>>

PostFails(p) ==
    /\ pc[p] = "posting"
    /\ wire # "none"
    /\ ~up
    /\ wire' = "none"
    /\ Goto(p, "blocked")
    /\ UNCHANGED <<device, rows, env, lock, flush, world>>

(* The queue over its cap loses its oldest rows, those given up first.     *)
(* Slip: the rows given up are not counted.                              *)
OverflowOfPending == IF Len(outbox) + 1 > MaxPending THEN 1 ELSE 0
Overflow == IF aside + Len(outbox) + 1 > MaxPending
            THEN aside + Len(outbox) + 1 - MaxPending ELSE 0

Enqueue(p) ==
    LET row  == [env |-> env[p], attempts |-> 1]
        kept == IF Overflow > aside THEN Overflow - aside ELSE 0
    IN
    /\ pc[p] = "blocked"
    /\ outbox' = SubSeq(Append(outbox, row), kept + 1, Len(outbox) + 1)
    /\ aside' = IF Overflow > aside THEN 0 ELSE aside - Overflow
    /\ Leave(p)
    /\ UNCHANGED <<device, world>>

-----------------------------------------------------------------------------
(* The rest of drain_outbox and of the reconciliation. *)

DrainEnds ==
    /\ pc["ws"] \in {"flushed", "blocked"}
    /\ lock' = Tail(lock)
    /\ batch' = 0
    /\ short' = FALSE
    /\ moved' = FALSE
    /\ Goto("ws", "asserting")
    /\ UNCHANGED <<device, rows, env, wire, world>>

AssertRelays ==
    /\ pc["ws"] = "asserting"
    /\ changed' = TRUE
    /\ Goto("ws", "idle")
    /\ UNCHANGED <<moment, posted, session, up, rows, env, lock, wire, flush,
                   world>>

(* The socket is gone and the reconciliation cancelled: its request stays  *)
(* with the worker thread, the lock does not.                              *)
SessionEnds ==
    /\ pc["ws"] # "idle"
    /\ Goto("ws", "idle")
    /\ IF Holds("ws")
       THEN /\ lock' = Tail(lock)
            /\ wire' = "none"
            /\ batch' = 0
            /\ short' = FALSE
            /\ moved' = FALSE
            /\ orphans' = IF wire = "out" THEN orphans \cup {Carried("ws")}
                          ELSE orphans
       ELSE /\ \/ /\ pc["ws"] = "asserting"
                  /\ UNCHANGED lock
               \/ \E i \in 1 .. Len(lock) :
                     /\ lock[i] = "ws"
                     /\ lock' = RemoveAt(lock, i)
            /\ UNCHANGED <<wire, flush, orphans>>
    /\ UNCHANGED <<device, rows, env, server, captured>>

OrphanEnds ==
    \E o \in orphans :
        /\ orphans' = orphans \ {o}
        /\ server' \in {o, server}
        /\ UNCHANGED <<device, rows, pc, env, lock, wire, flush, captured>>

(* A store operation raises: the poster's envelope goes with it, the       *)
(* reconciliation moves on to its next step.                               *)
StoreRaises(p) ==
    /\ Holds(p)
    /\ \/ pc[p] \in {"queued", "blocked"}
       \/ pc[p] = "resending" /\ (IF up THEN wire = "in" ELSE wire # "none")
    /\ pc' = [pc EXCEPT ![p] = IF p = "ws" THEN "asserting" ELSE "idle"]
    /\ env' = [env EXCEPT ![p] = 0]
    /\ lock' = Tail(lock)
    /\ wire' = "none"
    /\ batch' = 0
    /\ short' = FALSE
    /\ moved' = FALSE
    /\ UNCHANGED <<device, rows, world>>

(* Rows given up age out, oldest first.                                    *)
Prune ==
    /\ aside > 0
    /\ aside' \in 0 .. (aside - 1)
    /\ UNCHANGED <<device, outbox, pc, env, lock, wire, flush, world>>

(* The process dies and comes back with its relays off; the table stays.   *)
Restart ==
    /\ moment < MaxMoment
    /\ moment' = moment + 1
    /\ changed' = FALSE
    /\ posted' = FALSE
    /\ session' = FALSE
    /\ pc' = [p \in Tasks |-> "idle"]
    /\ env' = [p \in Tasks |-> 0]
    /\ lock' = <<>>
    /\ wire' = "none"
    /\ batch' = 0
    /\ short' = FALSE
    /\ moved' = FALSE
    /\ orphans' = {}
    /\ UNCHANGED <<up, rows, server, captured>>

-----------------------------------------------------------------------------
Init ==
    /\ moment = 1
    /\ changed = FALSE
    /\ posted = FALSE
    /\ session = FALSE
    /\ up \in BOOLEAN
    /\ outbox = <<>>
    /\ aside = 0
    /\ pc = [p \in Tasks |-> "idle"]
    /\ env = [p \in Tasks |-> 0]
    /\ lock = <<>>
    /\ wire = "none"
    /\ batch = 0
    /\ short = FALSE
    /\ moved = FALSE
    /\ orphans = {}
    /\ server = 0
    /\ captured = 0

Answer(p) == Resent(p) \/ ResendFails(p) \/ Posted(p) \/ PostFails(p)
Poster(p) == Capture(p) \/ Post(p) \/ Enqueue(p)
Listener  == FlushAgain \/ DrainEnds \/ AssertRelays
Outside   == \/ Change
             \/ LinkChanges
             \/ Hello
             \/ SessionEnds
             \/ OrphanEnds
             \/ Prune
             \/ Restart

Next == \/ Outside
        \/ Login
        \/ PublisherWakes
        \/ PublisherPosts
        \/ CycleDue
        \/ \E p \in Posters : Poster(p)
        \/ \E p \in Tasks : \/ Flush(p)
                            \/ Accept(p)
                            \/ Answer(p)
                            \/ StoreRaises(p)
        \/ Listener

Spec == Init /\ [][Next]_vars

(* The event loop runs what can run, a reachable server takes and answers  *)
(* a request, an unreachable one lets it time out, and the login is tried  *)
(* again.                                                                  *)
Fairness ==
    /\ WF_vars(Login)
    /\ WF_vars(PublisherWakes)
    /\ WF_vars(PublisherPosts)
    /\ WF_vars(CycleDue)
    /\ WF_vars(Listener)
    /\ \A p \in Posters : WF_vars(Poster(p))
    /\ \A p \in Tasks : /\ WF_vars(Flush(p))
                        /\ WF_vars(up /\ Accept(p))
                        /\ WF_vars(Answer(p))

FairSpec == Spec /\ Fairness

-----------------------------------------------------------------------------
(***************************************************************************)
(* What is checked.                                                        *)
(***************************************************************************)

InLock == {"queued", "resending", "flushed", "blocked", "posting"}
Labels == InLock \cup {"idle", "pushing", "building", "asserting"}

(* Every variable holds a value of its kind, and the table never holds     *)
(* more undelivered rows than its cap.                                     *)
TypeOK ==
    /\ moment \in Nat
    /\ changed \in BOOLEAN
    /\ posted \in BOOLEAN
    /\ session \in BOOLEAN
    /\ up \in BOOLEAN
    /\ outbox \in Seq([env : Nat, attempts : Nat])
    /\ aside \in Nat
    /\ aside + Len(outbox) <= MaxPending
    /\ pc \in [Tasks -> Labels]
    /\ env \in [Tasks -> Nat]
    /\ lock \in Seq(Tasks)
    /\ wire \in {"none", "out", "in"}
    /\ batch \in Nat
    /\ short \in BOOLEAN
    /\ moved \in BOOLEAN
    /\ orphans \subseteq Nat
    /\ server \in Nat
    /\ captured \in Nat

(* The server's view of the relays goes back in time only by a request     *)
(* whose coroutine was cancelled: neither the backlog, nor an answer that  *)
(* is lost, nor a crash between a delivery and its mark makes an older     *)
(* envelope follow a newer one (telemetry_client.py:288-305).              *)
RewindsOnlyByOrphan == [][server' < server => server' \in orphans]_vars

(* No change goes unreported: since the first post after a start, every    *)
(* announced change is in an envelope, or the publisher or the sensor task *)
(* is about to capture it (state_publisher.py:76-79).                      *)
NoChangeMissed ==
    \/ captured = moment
    \/ changed
    \/ ~posted
    \/ pc["publisher"] \in {"pushing", "building"}
    \/ pc["sensor"] = "building"

(* An outage costs no envelope (telemetry_client.py:388-391): as no server *)
(* refuses one here, none is given up.                                     *)
NothingGivenUp == aside = 0

(* Once the server answers and the store works, the backlog drains and the *)
(* server shows the relays as they are, whatever sessions end meanwhile.   *)
Converges ==
    (<>[]up /\ <>[][\A p \in Tasks : ~StoreRaises(p)]_vars)
        => <>[](outbox = <<>> /\ server = moment)
=============================================================================
