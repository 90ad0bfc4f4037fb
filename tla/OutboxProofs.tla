---------------------------- MODULE OutboxProofs ----------------------------
(***************************************************************************)
(* What is proved of Outbox, for any caps, batch and number of changes:    *)
(* the server's view goes back only by a cancelled request, the table      *)
(* keeps to its cap, and no announced change is missed.                    *)
(***************************************************************************)
EXTENDS Outbox, SequenceTheorems, TLAPS

(* Each task is at most once in the lock, the tasks in it are those in     *)
(* post_telemetry or the drain, and all but the first wait.                *)
LockOK ==
    /\ \A i, j \in 1 .. Len(lock) : lock[i] = lock[j] => i = j
    /\ \A i \in 1 .. Len(lock) : pc[lock[i]] \in InLock
    /\ \A i \in 1 .. Len(lock) : i > 1 => pc[lock[i]] = "queued"
    /\ \A p \in Tasks : pc[p] \in InLock => \E i \in 1 .. Len(lock) : lock[i] = p

(* What the holder knows of the queue.                                     *)
FlushOK ==
    /\ \A p \in Tasks : pc[p] = "resending" =>
          batch \in 1 .. Len(outbox) /\ (short => batch = Len(outbox))
    /\ \A p \in Tasks : pc[p] \in {"flushed", "posting"} => outbox = <<>>
    /\ pc["ws"] # "posting"
    /\ wire # "none" => lock # <<>> /\ pc[lock[1]] \in {"resending", "posting"}

(* Envelopes are in the order they were captured in: the rows of the       *)
(* table, then the tasks with the lock or waiting for it, then the moment. *)
Waiting(p) == p \in Posters /\ pc[p] \in InLock
Low(x) ==
    /\ x <= moment
    /\ \A i \in 1 .. Len(outbox) : x <= outbox[i].env
    /\ \A p \in Posters : Waiting(p) => x <= env[p]
InOrder ==
    /\ \A i, j \in 1 .. Len(outbox) : i <= j => outbox[i].env <= outbox[j].env
    /\ \A i \in 1 .. Len(outbox) :
          /\ outbox[i].env <= moment
          /\ \A p \in Posters : Waiting(p) => outbox[i].env <= env[p]
    /\ \A p \in Posters : Waiting(p) => env[p] <= moment
    /\ \A i, j \in 1 .. Len(lock) :
          i <= j /\ lock[i] \in Posters /\ lock[j] \in Posters
          => env[lock[i]] <= env[lock[j]]
    /\ Low(server)
    /\ \A o \in orphans : Low(o)

Control == TypeOK /\ LockOK /\ FlushOK
-----------------------------------------------------------------------------
(* What may happen to the lock. *)

Row == [env : Nat, attempts : Nat]

LEMMA AtHead ==
    ASSUME TypeOK, LockOK, NEW p \in Tasks, pc[p] \in InLock, pc[p] # "queued"
    PROVE  lock # <<>> /\ lock[1] = p /\ Head(lock) = p
<1>1. PICK i \in 1 .. Len(lock) : lock[i] = p
  BY DEF LockOK
<1>2. i = 1
  BY <1>1 DEF LockOK
<1>3. lock \in Seq(Tasks)
  BY DEF TypeOK
<1> QED
  BY <1>1, <1>2, <1>3

(* The holder goes on.                                                     *)
LEMMA HolderMoves ==
    ASSUME TypeOK, LockOK, NEW p \in Tasks, NEW l \in InLock,
           lock # <<>>, lock[1] = p, Goto(p, l), UNCHANGED lock
    PROVE  LockOK'
<1>1. lock \in Seq(Tasks) /\ pc \in [Tasks -> Labels]
  BY DEF TypeOK
<1>2. \A q \in Tasks : pc'[q] = IF q = p THEN l ELSE pc[q]
  BY <1>1 DEF Goto
<1>3. \A i \in 1 .. Len(lock) : lock[i] \in Tasks /\ (lock[i] = p <=> i = 1)
  BY <1>1 DEF LockOK
<1>4. \A i \in 1 .. Len(lock) : pc'[lock[i]] \in InLock
  BY <1>2, <1>3 DEF LockOK
<1>5. \A i \in 1 .. Len(lock) : i > 1 => pc'[lock[i]] = "queued"
  BY <1>2, <1>3 DEF LockOK
<1>6. \A q \in Tasks :
        pc'[q] \in InLock => \E i \in 1 .. Len(lock) : lock[i] = q
  <2> SUFFICES ASSUME NEW q \in Tasks, pc'[q] \in InLock
               PROVE  \E i \in 1 .. Len(lock) : lock[i] = q
    OBVIOUS
  <2>1. CASE q = p
    BY <1>1, <2>1
  <2>2. CASE q # p
    BY <1>2, <2>2 DEF LockOK
  <2> QED
    BY <2>1, <2>2
<1> QED
  BY <1>4, <1>5, <1>6 DEF LockOK

(* A task outside goes on.                                                 *)
LEMMA OutsiderMoves ==
    ASSUME TypeOK, LockOK, NEW p \in Tasks, NEW l,
           pc[p] \notin InLock, l \notin InLock, Goto(p, l), UNCHANGED lock
    PROVE  LockOK'
<1>1. lock \in Seq(Tasks) /\ pc \in [Tasks -> Labels]
  BY DEF TypeOK
<1>2. \A q \in Tasks : pc'[q] = IF q = p THEN l ELSE pc[q]
  BY <1>1 DEF Goto
<1>3. \A i \in 1 .. Len(lock) : lock[i] \in Tasks /\ lock[i] # p
  BY <1>1 DEF LockOK
<1> QED
  BY <1>2, <1>3 DEF LockOK

(* A task asks for the lock.                                               *)
LEMMA TaskJoins ==
    ASSUME TypeOK, LockOK, NEW p \in Tasks, pc[p] \notin InLock,
           Goto(p, "queued"), lock' = Append(lock, p)
    PROVE  LockOK'
<1>1. lock \in Seq(Tasks) /\ pc \in [Tasks -> Labels]
  BY DEF TypeOK
<1>2. \A q \in Tasks : pc'[q] = IF q = p THEN "queued" ELSE pc[q]
  BY <1>1 DEF Goto
<1>3. /\ Len(lock') = Len(lock) + 1
      /\ Len(lock) \in Nat
      /\ lock'[Len(lock) + 1] = p
      /\ \A i \in 1 .. Len(lock) : lock'[i] = lock[i] /\ lock[i] \in Tasks
  BY <1>1
<1>4. \A i \in 1 .. Len(lock) : lock[i] # p
  BY DEF LockOK
<1>5. \A i, j \in 1 .. Len(lock') : lock'[i] = lock'[j] => i = j
  <2> SUFFICES ASSUME NEW i \in 1 .. Len(lock'), NEW j \in 1 .. Len(lock'),
                      lock'[i] = lock'[j]
               PROVE  i = j
    OBVIOUS
  <2>1. CASE i \in 1 .. Len(lock) /\ j \in 1 .. Len(lock)
    BY <1>3, <2>1 DEF LockOK
  <2>2. CASE i = Len(lock) + 1 \/ j = Len(lock) + 1
    BY <1>3, <1>4, <2>2
  <2> QED
    BY <1>3, <2>1, <2>2
<1>6. \A i \in 1 .. Len(lock') :
        pc'[lock'[i]] \in InLock /\ (i > 1 => pc'[lock'[i]] = "queued")
  <2> SUFFICES ASSUME NEW i \in 1 .. Len(lock')
               PROVE  /\ pc'[lock'[i]] \in InLock
                      /\ i > 1 => pc'[lock'[i]] = "queued"
    OBVIOUS
  <2>1. CASE i \in 1 .. Len(lock)
    BY <1>2, <1>3, <1>4, <2>1 DEF LockOK
  <2>2. CASE i = Len(lock) + 1
    BY <1>2, <1>3, <2>2 DEF InLock
  <2> QED
    BY <1>3, <2>1, <2>2
<1>7. \A q \in Tasks :
        pc'[q] \in InLock => \E i \in 1 .. Len(lock') : lock'[i] = q
  <2> SUFFICES ASSUME NEW q \in Tasks, pc'[q] \in InLock
               PROVE  \E i \in 1 .. Len(lock') : lock'[i] = q
    OBVIOUS
  <2>1. CASE q = p
    BY <1>3, <2>1
  <2>2. CASE q # p
    <3>1. PICK i \in 1 .. Len(lock) : lock[i] = q
      BY <1>2, <2>2 DEF LockOK
    <3> QED
      BY <1>3, <3>1
  <2> QED
    BY <2>1, <2>2
<1> QED
  BY <1>5, <1>6, <1>7 DEF LockOK

(* The holder leaves.                                                      *)
LEMMA HolderLeaves ==
    ASSUME TypeOK, LockOK, NEW p \in Tasks, NEW l, l \notin InLock,
           lock # <<>>, lock[1] = p, Goto(p, l), lock' = Tail(lock)
    PROVE  LockOK'
<1>1. lock \in Seq(Tasks) /\ pc \in [Tasks -> Labels]
  BY DEF TypeOK
<1>2. \A q \in Tasks : pc'[q] = IF q = p THEN l ELSE pc[q]
  BY <1>1 DEF Goto
<1>3. /\ Len(lock') = Len(lock) - 1
      /\ Len(lock) \in Nat
      /\ \A i \in 1 .. Len(lock') : lock'[i] = lock[i + 1]
      /\ \A i \in 1 .. Len(lock) : lock[i] \in Tasks
  BY <1>1
<1>4. \A i \in 1 .. Len(lock') : lock'[i] # p /\ pc[lock'[i]] = "queued"
  BY <1>3 DEF LockOK
<1>5. \A i \in 1 .. Len(lock') : pc'[lock'[i]] = "queued"
  BY <1>2, <1>3, <1>4
<1>6. \A i, j \in 1 .. Len(lock') : lock'[i] = lock'[j] => i = j
  BY <1>3 DEF LockOK
<1>7. \A q \in Tasks :
        pc'[q] \in InLock => \E i \in 1 .. Len(lock') : lock'[i] = q
  <2> SUFFICES ASSUME NEW q \in Tasks, pc'[q] \in InLock
               PROVE  \E i \in 1 .. Len(lock') : lock'[i] = q
    OBVIOUS
  <2>1. q # p /\ pc[q] \in InLock
    BY <1>2
  <2>2. PICK i \in 1 .. Len(lock) : lock[i] = q
    BY <2>1 DEF LockOK
  <2>3. i # 1 /\ i - 1 \in 1 .. Len(lock')
    BY <1>3, <2>1, <2>2
  <2> QED
    BY <1>3, <2>2, <2>3
<1> QED
  BY <1>5, <1>6, <1>7 DEF LockOK, InLock

(* A sequence without its k-th element.                                    *)
LEMMA Removal ==
    ASSUME NEW S, NEW s \in Seq(S), NEW k \in 1 .. Len(s)
    PROVE  /\ RemoveAt(s, k) \in Seq(S)
           /\ Len(RemoveAt(s, k)) = Len(s) - 1
           /\ \A i \in 1 .. Len(s) - 1 :
                 RemoveAt(s, k)[i] = IF i < k THEN s[i] ELSE s[i + 1]
<1> DEFINE a == SubSeq(s, 1, k - 1)
           b == SubSeq(s, k + 1, Len(s))
<1>1. Len(s) \in Nat
  OBVIOUS
<1>2. a \in Seq(S) /\ Len(a) = k - 1 /\ \A i \in 1 .. k - 1 : a[i] = s[i]
  BY <1>1
<1>3. /\ b \in Seq(S)
      /\ Len(b) = Len(s) - k
      /\ \A i \in 1 .. Len(s) - k : b[i] = s[k + i]
  BY <1>1
<1>4. RemoveAt(s, k) = a \o b
  BY DEF RemoveAt
<1> HIDE DEF a, b
<1>5. a \o b \in Seq(S) /\ Len(a \o b) = Len(s) - 1
  <2>1. a \o b \in Seq(S) /\ Len(a \o b) = Len(a) + Len(b)
    BY <1>2, <1>3, ConcatProperties
  <2> QED
    BY <1>1, <1>2, <1>3, <2>1
<1>6. ASSUME NEW i \in 1 .. Len(s) - 1
      PROVE  (a \o b)[i] = IF i < k THEN s[i] ELSE s[i + 1]
  <2>1. CASE i < k
    BY <1>1, <1>2, <1>3, <2>1
  <2>2. CASE ~(i < k)
    <3>1. i - (k - 1) \in 1 .. Len(s) - k
      BY <1>1, <2>2
    <3>2. (a \o b)[i] = b[i - (k - 1)]
      BY <1>1, <1>2, <1>3, <2>2, <3>1
    <3>3. b[i - (k - 1)] = s[k + (i - (k - 1))]
      BY <1>3, <3>1
    <3>4. k + (i - (k - 1)) = i + 1
      BY <1>1
    <3> QED
      BY <2>2, <3>2, <3>3, <3>4
  <2> QED
    BY <2>1, <2>2
<1> QED
  BY <1>4, <1>5, <1>6

(* A task that waits is cancelled.                                         *)
LEMMA WaiterLeaves ==
    ASSUME TypeOK, LockOK, NEW p \in Tasks, NEW l, l \notin InLock,
           NEW k \in 1 .. Len(lock), lock[k] = p, k # 1,
           Goto(p, l), lock' = RemoveAt(lock, k)
    PROVE  LockOK'
<1>1. lock \in Seq(Tasks) /\ pc \in [Tasks -> Labels]
  BY DEF TypeOK
<1>2. \A q \in Tasks : pc'[q] = IF q = p THEN l ELSE pc[q]
  BY <1>1 DEF Goto
<1>3. /\ Len(lock') = Len(lock) - 1
      /\ Len(lock) \in Nat
      /\ \A i \in 1 .. Len(lock') :
            lock'[i] = IF i < k THEN lock[i] ELSE lock[i + 1]
      /\ \A i \in 1 .. Len(lock) : lock[i] \in Tasks
  <2>1. /\ Len(lock') = Len(lock) - 1
        /\ \A i \in 1 .. Len(lock) - 1 :
              lock'[i] = IF i < k THEN lock[i] ELSE lock[i + 1]
    BY <1>1, Removal
  <2> QED
    BY <1>1, <2>1
<1>4. \A i \in 1 .. Len(lock') :
        /\ lock'[i] # p
        /\ pc[lock'[i]] \in InLock
        /\ i > 1 => pc[lock'[i]] = "queued"
  BY <1>3 DEF LockOK
<1>5. \A i \in 1 .. Len(lock') :
        pc'[lock'[i]] \in InLock /\ (i > 1 => pc'[lock'[i]] = "queued")
  BY <1>2, <1>3, <1>4
<1>6. \A i, j \in 1 .. Len(lock') : lock'[i] = lock'[j] => i = j
  <2> SUFFICES ASSUME NEW i \in 1 .. Len(lock'), NEW j \in 1 .. Len(lock'),
                      lock'[i] = lock'[j]
               PROVE  i = j
    OBVIOUS
  <2> DEFINE from(n) == IF n < k THEN n ELSE n + 1
  <2>1. \A n \in 1 .. Len(lock') :
          from(n) \in 1 .. Len(lock) /\ lock'[n] = lock[from(n)]
    <3> SUFFICES ASSUME NEW n \in 1 .. Len(lock')
                 PROVE  from(n) \in 1 .. Len(lock) /\ lock'[n] = lock[from(n)]
      OBVIOUS
    <3>1. CASE n < k
      BY <1>3, <3>1
    <3>2. CASE ~(n < k)
      BY <1>3, <3>2
    <3> QED
      BY <3>1, <3>2
  <2> HIDE DEF from
  <2>2. from(i) = from(j)
    BY <2>1 DEF LockOK
  <2> QED
    BY <1>3, <2>2 DEF from
<1>7. \A q \in Tasks :
        pc'[q] \in InLock => \E i \in 1 .. Len(lock') : lock'[i] = q
  <2> SUFFICES ASSUME NEW q \in Tasks, pc'[q] \in InLock
               PROVE  \E i \in 1 .. Len(lock') : lock'[i] = q
    OBVIOUS
  <2>1. q # p /\ pc[q] \in InLock
    BY <1>2
  <2>2. PICK i \in 1 .. Len(lock) : lock[i] = q
    BY <2>1 DEF LockOK
  <2>3. CASE i < k
    BY <1>3, <2>2, <2>3
  <2>4. CASE i > k
    <3>1. i - 1 \in 1 .. Len(lock') /\ ~(i - 1 < k)
      BY <1>3, <2>4
    <3>2. lock'[i - 1] = lock[(i - 1) + 1] /\ (i - 1) + 1 = i
      BY <1>3, <3>1
    <3> QED
      BY <2>2, <3>1, <3>2
  <2> QED
    BY <2>1, <2>2, <2>3, <2>4
<1> QED
  BY <1>5, <1>6, <1>7 DEF LockOK

-----------------------------------------------------------------------------
(* Types, lock and flush together, action by action. *)

Working == {"resending", "flushed", "blocked", "posting"}

LEMMA OnlyHolder ==
    ASSUME TypeOK, LockOK, NEW p \in Tasks, lock # <<>>, lock[1] = p
    PROVE  \A q \in Tasks : q # p => pc[q] \notin Working
BY AtHead DEF Working, InLock

LEMMA FlushStarts ==
    ASSUME Control, NEW p \in Tasks, lock # <<>>, lock[1] = p, StartFlush(p)
    PROVE  Control'
<1> USE DEF Control
<1> DEFINE read == IF Len(outbox) < FlushBatch THEN Len(outbox) ELSE FlushBatch
           l == IF read = 0 THEN "flushed" ELSE "resending"
<1>1. /\ outbox \in Seq(Row) /\ Len(outbox) \in Nat /\ read \in Nat
      /\ read <= Len(outbox) /\ (read < FlushBatch => read = Len(outbox))
      /\ (read = 0 => outbox = <<>>)
  BY OutboxAssumption DEF TypeOK, Row
<1>2. /\ batch' = read /\ short' = (read < FlushBatch) /\ moved' = FALSE
      /\ Goto(p, l) /\ wire' = (IF read = 0 THEN "none" ELSE "out")
      /\ UNCHANGED <<moment, changed, posted, session, up, outbox, aside, env,
                     lock, orphans, server, captured>>
  BY DEF StartFlush, device, rows, world
<1>3. l \in InLock /\ l \in Labels
  BY DEF InLock, Labels
<1> HIDE DEF l, read
<1>4. pc' \in [Tasks -> Labels]
      /\ \A q \in Tasks : pc'[q] = IF q = p THEN l ELSE pc[q]
  BY <1>2, <1>3 DEF TypeOK, Goto
<1>5. TypeOK'
  <2>1. batch' \in Nat /\ moved' \in BOOLEAN
    BY <1>1, <1>2
  <2>4. short' \in BOOLEAN
    BY <1>1, <1>2, OutboxAssumption
  <2>2. wire' \in {"none", "out", "in"}
    BY <1>2
  <2>3. /\ outbox' = outbox /\ aside' = aside /\ env' = env /\ lock' = lock
        /\ moment' = moment /\ changed' = changed /\ posted' = posted
        /\ session' = session /\ up' = up /\ orphans' = orphans
        /\ server' = server /\ captured' = captured
    BY <1>2
  <2> QED
    BY <1>4, <2>1, <2>2, <2>3, <2>4 DEF TypeOK
<1>6. LockOK'
  BY <1>2, <1>3, HolderMoves
<1>7. FlushOK'
  <2>1. \A q \in Tasks : q # p => pc'[q] \notin Working
    BY <1>4, OnlyHolder
  <2>2. l = "resending" => /\ batch' \in 1 .. Len(outbox')
                           /\ short' => batch' = Len(outbox')
    <3>1. short' => read = Len(outbox)
      BY <1>1, <1>2
    <3>2. l = "resending" => read # 0
      BY DEF l
    <3> QED
      BY <1>1, <1>2, <3>1, <3>2
  <2>3. l # "resending" => l = "flushed" /\ wire' = "none" /\ outbox' = <<>>
    BY <1>1, <1>2 DEF l
  <2>4. p = "ws" => pc'["ws"] # "posting"
    BY <1>4 DEF l
  <2>5. pc'["ws"] # "posting"
    BY <1>4, <2>4 DEF FlushOK, Tasks
  <2>6. pc'[lock'[1]] = l /\ lock' # <<>>
    BY <1>2, <1>4
  <2> QED
    BY <1>4, <2>1, <2>2, <2>3, <2>5, <2>6 DEF FlushOK, Working
<1> QED
  BY <1>5, <1>6, <1>7

LEMMA ResentControl ==
    ASSUME Control, NEW p \in Tasks, Resent(p) PROVE Control'
<1> USE DEF Control
<1>1. /\ lock # <<>> /\ lock[1] = p
      /\ \A q \in Tasks : q # p => pc[q] \notin Working
  BY AtHead, OnlyHolder DEF Resent, InLock
<1>2. /\ outbox \in Seq(Row) /\ Len(outbox) \in Nat
      /\ batch \in 1 .. Len(outbox)
      /\ outbox' = Tail(outbox)
      /\ batch' = batch - 1
  BY DEF Resent, FlushOK, TypeOK, Row
<1>7. short => batch = Len(outbox)
  BY DEF Resent, FlushOK
<1>8. moved' = TRUE /\ UNCHANGED <<device, aside, env, lock, short, world>>
  BY DEF Resent
<1>3. outbox' \in Seq(Row) /\ Len(outbox') = Len(outbox) - 1
  BY <1>2
<1>t. ASSUME wire' \in {"none", "out", "in"}, pc' \in [Tasks -> Labels]
      PROVE  TypeOK'
  <2>1. outbox' \in Seq([env : Nat, attempts : Nat]) /\ batch' \in Nat
    BY <1>2, <1>3 DEF Row
  <2>2. /\ aside' = aside /\ env' = env /\ lock' = lock /\ short' = short
        /\ moment' = moment /\ changed' = changed /\ posted' = posted
        /\ session' = session /\ up' = up /\ orphans' = orphans
        /\ server' = server /\ captured' = captured
    BY <1>8 DEF device, world
  <2>3. aside' + Len(outbox') <= MaxPending
    <3>1. aside \in Nat /\ aside + Len(outbox) <= MaxPending
      BY DEF TypeOK
    <3> QED
      BY <1>2, <1>3, <2>2, <3>1, OutboxAssumption
  <2> QED
    BY <1>t, <1>8, <2>1, <2>2, <2>3 DEF TypeOK
<1>4. CASE batch > 1 /\ wire' = "out" /\ UNCHANGED pc
  <2>1. TypeOK'
    BY <1>4, <1>t DEF TypeOK
  <2>2. LockOK'
    BY <1>4, <1>8 DEF LockOK
  <2>3. batch' \in 1 .. Len(outbox') /\ (short' => batch' = Len(outbox'))
    <3>1. batch' \in 1 .. Len(outbox')
      BY <1>2, <1>3, <1>4
    <3>2. batch = Len(outbox) => batch' = Len(outbox')
      BY <1>2, <1>3
    <3> QED
      BY <1>7, <1>8, <3>1, <3>2
  <2>4. \A q \in Tasks : q # p => pc'[q] \notin Working
    BY <1>1, <1>4
  <2>5. pc'[p] = "resending" /\ lock' # <<>> /\ lock'[1] = p
    BY <1>1, <1>4, <1>8 DEF Resent
  <2>6. FlushOK'
    BY <1>4, <2>3, <2>4, <2>5 DEF FlushOK, Working
  <2> QED
    BY <2>1, <2>2, <2>6
<1>5. ASSUME batch = 1, wire' = "none", NEW l \in {"flushed", "blocked"},
             Goto(p, l), l = "flushed" => short
      PROVE  Control'
  <2>1. /\ pc' \in [Tasks -> Labels]
        /\ \A q \in Tasks : pc'[q] = IF q = p THEN l ELSE pc[q]
    BY <1>5 DEF TypeOK, Goto, Labels, InLock
  <2>2. TypeOK'
    BY <1>5, <1>t, <2>1
  <2>3. LockOK'
    BY <1>1, <1>5, <1>8, HolderMoves DEF InLock
  <2>4. l = "flushed" => outbox' = <<>>
    <3>1. batch = Len(outbox) => Len(outbox') = 0
      BY <1>2, <1>3, <1>5
    <3>2. Len(outbox') = 0 => outbox' = <<>>
      BY <1>3
    <3> QED
      BY <1>5, <1>7, <3>1, <3>2, Zenon
  <2>6. pc'[p] = l /\ \A q \in Tasks : q # p => pc'[q] \notin Working
    BY <1>1, <2>1
  <2>7. "ws" \in Tasks
    BY DEF Tasks
  <2>5. FlushOK'
    BY <1>5, <2>4, <2>6, <2>7 DEF FlushOK, Working
  <2> QED
    BY <2>2, <2>3, <2>5
<1>6. \/ batch > 1 /\ wire' = "out" /\ UNCHANGED pc
      \/ \E l \in {"flushed", "blocked"} :
            batch = 1 /\ wire' = "none" /\ Goto(p, l) /\ (l = "flushed" => short)
  BY DEF Resent, Drained
<1> QED
  BY <1>4, <1>5, <1>6

LEMMA ResendFailsControl ==
    ASSUME Control, NEW p \in Tasks, ResendFails(p) PROVE Control'
<1> USE DEF Control
<1>1. /\ lock # <<>> /\ lock[1] = p
      /\ \A q \in Tasks : q # p => pc[q] \notin Working
  BY AtHead, OnlyHolder DEF ResendFails, InLock
<1>2. batch' = 0 /\ wire' = "none" /\ Goto(p, "blocked")
  BY DEF ResendFails
<1>3. /\ env' = env /\ lock' = lock /\ short' = short /\ moved' = moved
      /\ moment' = moment /\ changed' = changed /\ posted' = posted
      /\ session' = session /\ up' = up /\ orphans' = orphans
      /\ server' = server /\ captured' = captured
  BY DEF ResendFails, device, world
<1>4. outbox \in Seq(Row) /\ Len(outbox) \in Nat /\ Len(outbox) >= 1
  <2>1. outbox \in Seq(Row)
    BY DEF TypeOK, Row
  <2>2. batch \in 1 .. Len(outbox)
    BY DEF ResendFails, FlushOK
  <2> QED
    BY <2>1, <2>2
<1>5. /\ pc' \in [Tasks -> Labels]
      /\ \A q \in Tasks : pc'[q] = IF q = p THEN "blocked" ELSE pc[q]
  BY <1>2 DEF TypeOK, Goto, Labels, InLock
<1>6. outbox' \in Seq(Row) /\ aside' \in Nat /\ aside' + Len(outbox') <= MaxPending
  <2> aside \in Nat /\ aside + Len(outbox) <= MaxPending
    BY DEF TypeOK
  <2>1. CASE outbox' = Tail(outbox) /\ aside' = aside + 1
    <3>1. outbox' \in Seq(Row) /\ Len(outbox') = Len(outbox) - 1
      BY <1>4, <2>1
    <3> QED
      BY <1>4, <2>1, <3>1, OutboxAssumption
  <2>2. CASE /\ outbox' = [outbox EXCEPT ![1].attempts = Head(outbox).attempts + 1]
             /\ aside' = aside
    <3>1. Head(outbox) = outbox[1] /\ outbox[1] \in Row
      BY <1>4
    <3>2. outbox' = [outbox EXCEPT ![1] =
                       [outbox[1] EXCEPT !.attempts = outbox[1].attempts + 1]]
      BY <2>2, <3>1
    <3>3. [outbox[1] EXCEPT !.attempts = outbox[1].attempts + 1] \in Row
      BY <3>1 DEF Row
    <3>4. outbox' \in Seq(Row) /\ Len(outbox') = Len(outbox)
      BY <1>4, <3>2, <3>3
    <3> QED
      BY <2>2, <3>4
  <2> QED
    BY <2>1, <2>2 DEF ResendFails
<1>7. TypeOK'
  BY <1>2, <1>3, <1>5, <1>6 DEF TypeOK, Row
<1>8. LockOK'
  BY <1>1, <1>2, <1>3, HolderMoves DEF InLock
<1>9. FlushOK'
  BY <1>1, <1>2, <1>5 DEF FlushOK, Working, Tasks
<1> QED
  BY <1>7, <1>8, <1>9

(* The steps of a task without the lock, and of one that asks for it.      *)
LEMMA OutsiderFlush ==
    ASSUME Control, NEW p \in Tasks, NEW l \in Labels, pc[p] \notin InLock,
           l \notin Working, Goto(p, l), lock' \in {lock, Append(lock, p)},
           UNCHANGED <<outbox, wire, batch, short>>
    PROVE  FlushOK' /\ pc' \in [Tasks -> Labels] /\ lock' \in Seq(Tasks)
<1> USE DEF Control
<1>1. /\ pc' \in [Tasks -> Labels]
      /\ \A q \in Tasks : pc'[q] = IF q = p THEN l ELSE pc[q]
  BY DEF TypeOK, Goto
<1>2. lock' \in Seq(Tasks)
  <2>1. lock \in Seq(Tasks)
    BY DEF TypeOK
  <2>2. Append(lock, p) \in Seq(Tasks)
    BY <2>1
  <2> QED
    BY <2>1, <2>2
<1>3. lock # <<>> => lock' # <<>> /\ lock'[1] = lock[1] /\ lock[1] # p
  <2>1. lock \in Seq(Tasks)
    BY DEF TypeOK
  <2>2. lock # <<>> => 1 \in 1 .. Len(lock)
    BY <2>1
  <2> QED
    BY <2>1, <2>2 DEF LockOK
<1>4. wire' # "none" => lock' # <<>> /\ pc'[lock'[1]] \in {"resending", "posting"}
  <2>1. lock # <<>> => lock[1] \in Tasks
    BY DEF TypeOK
  <2> QED
    BY <1>1, <1>3, <2>1 DEF FlushOK
<1>5. \A q \in Tasks : pc'[q] \in Working => pc'[q] = pc[q]
  BY <1>1
<1>6. pc'["ws"] # "posting"
  BY <1>5 DEF FlushOK, Working, Tasks
<1> QED
  BY <1>1, <1>2, <1>4, <1>5, <1>6 DEF FlushOK, Working

(* The holder has finished.                                                *)
LEMMA HolderOut ==
    ASSUME Control, NEW p \in Tasks, NEW l \in Labels, l \notin InLock,
           lock # <<>>, lock[1] = p, Goto(p, l), lock' = Tail(lock),
           wire' = "none"
    PROVE  /\ LockOK' /\ FlushOK'
           /\ pc' \in [Tasks -> Labels] /\ lock' \in Seq(Tasks)
<1> USE DEF Control
<1>1. /\ pc' \in [Tasks -> Labels]
      /\ \A q \in Tasks : pc'[q] = IF q = p THEN l ELSE pc[q]
  BY DEF TypeOK, Goto
<1>2. lock' \in Seq(Tasks)
  <2>1. lock \in Seq(Tasks)
    BY DEF TypeOK
  <2> QED
    BY <2>1
<1>3. LockOK'
  BY HolderLeaves
<1>4. \A q \in Tasks : pc'[q] \notin Working
  BY <1>1, OnlyHolder DEF Working, InLock
<1> QED
  BY <1>1, <1>2, <1>3, <1>4 DEF FlushOK, Working, Tasks

LEMMA OutsiderControl ==
    ASSUME Control,
           PublisherWakes \/ PublisherPosts \/ CycleDue \/ AssertRelays
    PROVE  Control'
<1> USE DEF Control
<1> SUFFICES ASSUME NEW p \in Tasks, NEW l \in Labels,
                    pc[p] \notin InLock, l \notin InLock, Goto(p, l),
                    changed' \in BOOLEAN, posted' \in BOOLEAN,
                    UNCHANGED <<moment, session, up, rows, env, lock, wire,
                                flush, world>>
             PROVE  Control'
  <2>1. CASE PublisherWakes
    BY <2>1 DEF PublisherWakes, TypeOK, Tasks, Posters, Labels, InLock
  <2>2. CASE PublisherPosts
    BY <2>2 DEF PublisherPosts, device, TypeOK, Tasks, Posters, Labels, InLock
  <2>3. CASE CycleDue
    BY <2>3 DEF CycleDue, TypeOK, Tasks, Posters, Labels, InLock
  <2>4. CASE AssertRelays
    BY <2>4 DEF AssertRelays, TypeOK, Tasks, Posters, Labels, InLock
  <2> QED
    BY <2>1, <2>2, <2>3, <2>4
<1>1. LockOK'
  BY OutsiderMoves
<1>2. FlushOK' /\ pc' \in [Tasks -> Labels]
  BY OutsiderFlush DEF rows, flush, Working, InLock
<1>3. TypeOK'
  BY <1>2 DEF TypeOK, rows, flush, world
<1> QED
  BY <1>1, <1>2, <1>3

LEMMA JoinControl ==
    ASSUME Control, Hello \/ \E p \in Posters : Capture(p)
    PROVE  Control'
<1> USE DEF Control
<1> SUFFICES ASSUME NEW p \in Tasks, pc[p] \notin InLock, Goto(p, "queued"),
                    lock' = Append(lock, p),
                    env' \in [Tasks -> Nat], captured' \in Nat,
                    UNCHANGED <<device, rows, wire, flush, orphans, server>>
             PROVE  Control'
  <2>1. CASE Hello
    BY <2>1 DEF Hello, TypeOK, Tasks, InLock, world
  <2>2. ASSUME NEW p \in Posters, Capture(p) PROVE Control'
    BY <2>2 DEF Capture, TypeOK, Tasks, InLock
  <2> QED
    BY <2>1, <2>2
<1>1. LockOK'
  BY TaskJoins
<1>2. FlushOK' /\ pc' \in [Tasks -> Labels] /\ lock' \in Seq(Tasks)
  BY OutsiderFlush DEF rows, flush, Working, InLock, Labels
<1>3. TypeOK'
  BY <1>2 DEF TypeOK, device, rows, flush
<1> QED
  BY <1>1, <1>2, <1>3

LEMMA PostControl ==
    ASSUME Control, NEW p \in Posters, Post(p) PROVE Control'
<1> USE DEF Control
<1>1. p \in Tasks /\ p # "ws"
  BY DEF Tasks, Posters
<1>2. /\ lock # <<>> /\ lock[1] = p
      /\ \A q \in Tasks : q # p => pc[q] \notin Working
  BY <1>1, AtHead, OnlyHolder DEF Post, InLock
<1>3. /\ pc' \in [Tasks -> Labels]
      /\ \A q \in Tasks : pc'[q] = IF q = p THEN "posting" ELSE pc[q]
  BY <1>1 DEF Post, TypeOK, Goto, Labels, InLock
<1>4. outbox' = <<>>
  BY <1>1 DEF Post, FlushOK, rows
<1>5. LockOK'
  BY <1>1, <1>2, HolderMoves DEF Post, InLock
<1>6. FlushOK'
  <2>1. wire' = "out" /\ lock' = lock
    BY DEF Post
  <2> QED
    BY <1>1, <1>2, <1>3, <1>4, <2>1 DEF FlushOK, Working, Tasks
<1>7. TypeOK'
  BY <1>3 DEF TypeOK, Post, device, rows, flush, world
<1> QED
  BY <1>5, <1>6, <1>7

LEMMA PostFailsControl ==
    ASSUME Control, NEW p \in Tasks, PostFails(p) PROVE Control'
<1> USE DEF Control
<1>1. /\ lock # <<>> /\ lock[1] = p
      /\ \A q \in Tasks : q # p => pc[q] \notin Working
  BY AtHead, OnlyHolder DEF PostFails, InLock
<1>2. /\ pc' \in [Tasks -> Labels]
      /\ \A q \in Tasks : pc'[q] = IF q = p THEN "blocked" ELSE pc[q]
  BY DEF PostFails, TypeOK, Goto, Labels, InLock
<1>3. LockOK'
  BY <1>1, HolderMoves DEF PostFails, InLock
<1>4. FlushOK'
  <2>1. wire' = "none"
    BY DEF PostFails
  <2> QED
    BY <1>1, <1>2, <2>1 DEF FlushOK, Working, Tasks
<1>5. TypeOK'
  BY <1>2 DEF TypeOK, PostFails, device, rows, flush, world
<1> QED
  BY <1>3, <1>4, <1>5

(* The steps with which a task gives the lock back, but for Enqueue.       *)
LEMMA LeaveControl ==
    ASSUME Control,
           NEW p \in Tasks, Posted(p) \/ StoreRaises(p) \/ (p = "ws" /\ DrainEnds)
    PROVE  Control'
<1> USE DEF Control
<1> SUFFICES ASSUME NEW l \in Labels, l \notin InLock, lock # <<>>, lock[1] = p,
                    Goto(p, l), lock' = Tail(lock), wire' = "none",
                    env' \in [Tasks -> Nat], posted' \in BOOLEAN,
                    batch' = 0, short' = FALSE, moved' = FALSE,
                    UNCHANGED <<moment, changed, session, up, rows, world>>
             PROVE  Control'
  <2>1. CASE Posted(p)
    <3>1. lock # <<>> /\ lock[1] = p
      BY <2>1, AtHead DEF Posted, InLock
    <3>2. posted' \in BOOLEAN
      BY <2>1 DEF Posted
    <3>3. env' \in [Tasks -> Nat]
      BY <2>1 DEF Posted, Leave, TypeOK
    <3>4. "idle" \in Labels /\ "idle" \notin InLock
      BY DEF Labels, InLock
    <3> QED
      BY <2>1, <3>1, <3>2, <3>3, <3>4 DEF Posted, Leave
  <2>2. CASE StoreRaises(p)
    <3>1. lock # <<>> /\ lock[1] = p
      BY <2>2 DEF StoreRaises, Holds, TypeOK
    <3>2. env' \in [Tasks -> Nat] /\ posted' \in BOOLEAN
      BY <2>2 DEF StoreRaises, TypeOK, device
    <3>3. \E l \in {"asserting", "idle"} : Goto(p, l)
      BY <2>2 DEF StoreRaises, Goto
    <3>4. {"asserting", "idle"} \subseteq Labels \ InLock
      BY DEF Labels, InLock
    <3> QED
      BY <2>2, <3>1, <3>2, <3>3, <3>4 DEF StoreRaises, device
  <2>3. CASE p = "ws" /\ DrainEnds
    <3>1. lock # <<>> /\ lock[1] = p
      BY <2>3, AtHead DEF DrainEnds, InLock
    <3>2. env' \in [Tasks -> Nat] /\ posted' \in BOOLEAN
      BY <2>3 DEF DrainEnds, TypeOK, device
    <3>3. "asserting" \in Labels /\ "asserting" \notin InLock
      BY DEF Labels, InLock
    <3>4. wire' = "none"
      BY <2>3, <3>1 DEF DrainEnds, FlushOK, TypeOK
    <3> QED
      BY <2>3, <3>1, <3>2, <3>3, <3>4 DEF DrainEnds, device
  <2> QED
    BY <2>1, <2>2, <2>3
<1>1. LockOK' /\ FlushOK' /\ pc' \in [Tasks -> Labels] /\ lock' \in Seq(Tasks)
  BY HolderOut
<1>2. TypeOK'
  BY <1>1 DEF TypeOK, rows, world
<1> QED
  BY <1>1, <1>2

LEMMA EnqueueControl ==
    ASSUME Control, NEW p \in Tasks, Enqueue(p) PROVE Control'
<1> USE DEF Control
<1> DEFINE row  == [env |-> env[p], attempts |-> 1]
           kept == IF Overflow > aside THEN Overflow - aside ELSE 0
           long == Append(outbox, row)
<1>1. lock # <<>> /\ lock[1] = p
  BY AtHead DEF Enqueue, InLock
<1>2. LockOK' /\ FlushOK' /\ pc' \in [Tasks -> Labels] /\ lock' \in Seq(Tasks)
  <2>1. "idle" \in Labels /\ "idle" \notin InLock
    BY DEF Labels, InLock
  <2> QED
    BY <1>1, <2>1, HolderOut DEF Enqueue, Leave
<1>3. outbox \in Seq(Row) /\ Len(outbox) \in Nat /\ aside \in Nat
      /\ aside + Len(outbox) <= MaxPending
  <2>1. outbox \in Seq(Row) /\ aside \in Nat /\ aside + Len(outbox) <= MaxPending
    BY DEF TypeOK, Row
  <2> QED
    BY <2>1
<1>4. row \in Row
  BY DEF TypeOK, Row
<1>5. outbox' = SubSeq(long, kept + 1, Len(outbox) + 1)
  BY DEF Enqueue
<1>6. aside' = IF Overflow > aside THEN 0 ELSE aside - Overflow
  BY DEF Enqueue
<1> HIDE DEF row
<1>7. long \in Seq(Row) /\ Len(long) = Len(outbox) + 1
  BY <1>3, <1>4
<1>8. kept \in 0 .. Len(outbox) + 1
  BY <1>3, OutboxAssumption DEF Overflow
<1> HIDE DEF long
<1>9. outbox' \in Seq(Row) /\ Len(outbox') = Len(outbox) + 1 - kept
  <2> HIDE DEF kept
  <2> QED
    BY <1>3, <1>5, <1>7, <1>8
<1>10. aside' \in Nat /\ aside' + Len(outbox') <= MaxPending
  <2> DEFINE over == aside + Len(outbox) + 1 > MaxPending
  <2>1. CASE over
    <3>1. Overflow = aside + Len(outbox) + 1 - MaxPending
      BY <2>1 DEF Overflow
    <3>2. CASE Overflow > aside
      <4>1. kept = Overflow - aside /\ aside' = 0
        BY <1>6, <3>2
      <4> QED
        BY <1>3, <1>9, <2>1, <3>1, <3>2, <4>1, OutboxAssumption
    <3>3. CASE ~(Overflow > aside)
      <4>1. kept = 0 /\ aside' = aside - Overflow
        BY <1>6, <3>3
      <4> QED
        BY <1>3, <1>9, <2>1, <3>1, <3>3, <4>1, OutboxAssumption
    <3> QED
      BY <3>2, <3>3
  <2>2. CASE ~over
    <3>1. Overflow = 0
      BY <2>2 DEF Overflow
    <3> QED
      BY <1>3, <1>6, <1>9, <2>2, <3>1, OutboxAssumption
  <2> QED
    BY <2>1, <2>2
<1>11. TypeOK'
  <2>1. env' \in [Tasks -> Nat]
    BY DEF Enqueue, Leave, TypeOK
  <2> QED
    BY <1>2, <1>9, <1>10, <2>1 DEF Enqueue, Leave, TypeOK, Row, device, world
<1> QED
  BY <1>2, <1>11

LEMMA SessionEndsControl ==
    ASSUME Control, SessionEnds PROVE Control'
<1> USE DEF Control
<1>1. "ws" \in Tasks /\ "idle" \in Labels /\ "idle" \notin InLock
  BY DEF Tasks, Labels, InLock
<1>2. /\ pc' \in [Tasks -> Labels]
      /\ \A q \in Tasks : pc'[q] = IF q = "ws" THEN "idle" ELSE pc[q]
  BY <1>1 DEF SessionEnds, TypeOK, Goto
<1>3. SUFFICES ASSUME batch' \in Nat, short' \in BOOLEAN, moved' \in BOOLEAN,
                      wire' \in {"none", "out", "in"}, orphans' \subseteq Nat
               PROVE  LockOK' /\ FlushOK' /\ lock' \in Seq(Tasks)
  <2>1. batch' \in Nat /\ short' \in BOOLEAN /\ moved' \in BOOLEAN
        /\ wire' \in {"none", "out", "in"}
    <3>1. CASE Holds("ws")
      <4>1. batch' = 0 /\ short' = FALSE /\ moved' = FALSE /\ wire' = "none"
        BY <3>1 DEF SessionEnds
      <4> QED
        BY <4>1
    <3>2. CASE ~Holds("ws")
      BY <3>2 DEF SessionEnds, TypeOK, flush
    <3> QED
      BY <3>1, <3>2
  <2>2. orphans' \subseteq Nat
    <3>1. wire = "out" /\ Holds("ws") => Carried("ws") \in Nat
      <4>1. pc["ws"] = "resending" => outbox \in Seq(Row) /\ Len(outbox) >= 1
        <5>1. outbox \in Seq(Row)
          BY DEF TypeOK, Row
        <5>2. pc["ws"] = "resending" => batch \in 1 .. Len(outbox)
          BY <1>1 DEF FlushOK
        <5> QED
          BY <5>1, <5>2
      <4>2. pc["ws"] = "resending" => Head(outbox).env \in Nat
        <5>1. pc["ws"] = "resending" => Head(outbox) \in Row
          BY <4>1
        <5> QED
          BY <5>1 DEF Row
      <4> QED
        BY <1>1, <4>2 DEF Carried, TypeOK
    <3> QED
      BY <3>1 DEF SessionEnds, TypeOK
  <2>3. LockOK' /\ FlushOK' /\ lock' \in Seq(Tasks)
    BY <1>3, <2>1, <2>2
  <2> QED
    BY <1>2, <2>1, <2>2, <2>3 DEF SessionEnds, TypeOK, device, rows
<1>4. CASE Holds("ws")
  BY <1>1, <1>4, HolderOut DEF SessionEnds, Holds, TypeOK
<1>5. CASE ~Holds("ws") /\ pc["ws"] = "asserting" /\ UNCHANGED lock
  <2>1. LockOK'
    BY <1>1, <1>5, OutsiderMoves DEF SessionEnds, InLock
  <2>2. FlushOK' /\ lock' \in Seq(Tasks)
    BY <1>1, <1>5, OutsiderFlush DEF SessionEnds, InLock, Working, rows, flush
  <2> QED
    BY <2>1, <2>2
<1>6. ASSUME NEW k \in 1 .. Len(lock), ~Holds("ws"), lock[k] = "ws",
             lock' = RemoveAt(lock, k)
      PROVE  LockOK' /\ FlushOK' /\ lock' \in Seq(Tasks)
  <2>1. lock \in Seq(Tasks)
    BY DEF TypeOK
  <2>2. lock # <<>> /\ lock[1] # "ws" /\ k # 1 /\ k > 1
    BY <1>6, <2>1 DEF Holds
  <2>3. LockOK'
    BY <1>1, <1>6, <2>2, WaiterLeaves DEF SessionEnds
  <2>4. lock' \in Seq(Tasks) /\ Len(lock') = Len(lock) - 1
        /\ \A i \in 1 .. Len(lock) - 1 :
              lock'[i] = IF i < k THEN lock[i] ELSE lock[i + 1]
    BY <1>6, <2>1, Removal
  <2>5. lock' # <<>> /\ lock'[1] = lock[1] /\ lock[1] \in Tasks
    BY <2>1, <2>2, <2>4
  <2>6. UNCHANGED <<wire, outbox, batch, short>>
    BY <1>6 DEF SessionEnds, rows, flush
  <2>7. FlushOK'
    BY <1>2, <2>2, <2>5, <2>6 DEF FlushOK, Tasks
  <2> QED
    BY <2>3, <2>4, <2>7
<1> QED
  BY <1>4, <1>5, <1>6 DEF SessionEnds

(* The device, the store and the server, and a task's flush or request.    *)
LEMMA WorldControl ==
    ASSUME Control,
           \/ Change \/ LinkChanges \/ Login \/ OrphanEnds \/ Prune
           \/ UNCHANGED vars
    PROVE  Control'
<1> USE DEF Control
<1>1. UNCHANGED <<outbox, pc, lock, wire, batch, short>>
  BY DEF Change, LinkChanges, Login, OrphanEnds, Prune, rows, flush, vars
<1>2. LockOK' /\ FlushOK'
  BY <1>1 DEF LockOK, FlushOK
<1>3. TypeOK'
  <2>1. CASE Change
    BY <2>1 DEF Change, TypeOK, rows, flush, world
  <2>5. CASE LinkChanges
    BY <2>5 DEF LinkChanges, TypeOK, rows, flush, world
  <2>6. CASE Login
    BY <2>6 DEF Login, TypeOK, rows, flush, world
  <2>2. CASE OrphanEnds
    BY <2>2 DEF OrphanEnds, TypeOK, device, rows, flush
  <2>3. CASE Prune
    <3>1. /\ aside' \in Nat /\ aside' <= aside /\ outbox' = outbox
      BY <2>3 DEF Prune, TypeOK
    <3>2. Len(outbox) \in Nat /\ aside \in Nat /\ aside + Len(outbox) <= MaxPending
      BY DEF TypeOK
    <3>3. aside' + Len(outbox') <= MaxPending
      BY <3>1, <3>2, OutboxAssumption
    <3> QED
      BY <2>3, <3>1, <3>3 DEF Prune, TypeOK, device, flush, world
  <2>4. CASE UNCHANGED vars
    BY <2>4 DEF TypeOK, vars, device, rows, flush, world
  <2> QED
    BY <2>1, <2>2, <2>3, <2>4, <2>5, <2>6
<1> QED
  BY <1>2, <1>3

LEMMA RestartControl ==
    ASSUME Control, Restart PROVE Control'
<1> USE DEF Control
<1>1. /\ pc' \in [Tasks -> Labels] /\ \A q \in Tasks : pc'[q] = "idle"
      /\ env' \in [Tasks -> Nat]
  BY DEF Restart, Labels, InLock
<1>2. lock' = <<>> /\ wire' = "none"
  BY DEF Restart
<1>3. lock' \in Seq(Tasks) /\ 1 .. Len(lock') = {}
  BY <1>2
<1>4. LockOK' /\ FlushOK'
  BY <1>1, <1>2, <1>3 DEF LockOK, FlushOK, InLock, Tasks
<1>5. TypeOK'
  <2>1. /\ changed' \in BOOLEAN /\ posted' \in BOOLEAN /\ session' \in BOOLEAN
        /\ up' \in BOOLEAN
    BY DEF Restart, TypeOK
  <2>4. moment' \in Nat
    BY DEF Restart, TypeOK
  <2>2. batch' \in Nat /\ short' \in BOOLEAN /\ moved' \in BOOLEAN
    BY DEF Restart
  <2>3. /\ outbox' = outbox /\ aside' = aside /\ orphans' = {}
        /\ server' = server /\ captured' = captured
    BY DEF Restart, rows
  <2> QED
    BY <1>1, <1>2, <1>3, <2>1, <2>2, <2>3, <2>4 DEF TypeOK
<1> QED
  BY <1>4, <1>5

LEMMA AcceptControl ==
    ASSUME Control, NEW p \in Tasks, Accept(p) PROVE Control'
<1> USE DEF Control
<1>1. lock # <<>> /\ lock[1] = p /\ p = Head(lock)
  BY DEF Accept, Holds, TypeOK
<1>2. pc[p] \in {"resending", "posting"}
  BY <1>1 DEF Accept, FlushOK
<1>3. Carried(p) \in Nat
  <2>1. CASE pc[p] = "resending"
    <3>1. outbox \in Seq(Row) /\ batch \in 1 .. Len(outbox)
      BY <2>1 DEF TypeOK, FlushOK, Row
    <3>2. Head(outbox) \in Row
      BY <3>1
    <3> QED
      BY <2>1, <3>2 DEF Carried, Row
  <2>2. CASE pc[p] # "resending"
    BY <2>2 DEF Carried, TypeOK
  <2> QED
    BY <2>1, <2>2
<1>4. LockOK' /\ FlushOK'
  BY <1>1, <1>2 DEF Accept, LockOK, FlushOK, rows, flush
<1>5. TypeOK'
  BY <1>3 DEF Accept, TypeOK, device, rows, flush
<1> QED
  BY <1>4, <1>5

LEMMA FlushControl ==
    ASSUME Control, FlushAgain \/ \E p \in Tasks : Flush(p)
    PROVE  Control'
<1>1. ASSUME NEW p \in Tasks, Flush(p) PROVE Control'
  <2>1. lock # <<>> /\ lock[1] = p
    BY <1>1 DEF Flush, Holds, Control, TypeOK
  <2> QED
    BY <1>1, <2>1, FlushStarts DEF Flush
<1>2. CASE FlushAgain
  <2>1. "ws" \in Tasks
    BY DEF Tasks
  <2>2. lock # <<>> /\ lock[1] = "ws"
    BY <1>2, <2>1, AtHead DEF FlushAgain, Control, InLock
  <2> QED
    BY <1>2, <2>1, <2>2, FlushStarts DEF FlushAgain
<1> QED
  BY <1>1, <1>2

LEMMA InitControl == Init => Control
<1> SUFFICES ASSUME Init PROVE Control
  OBVIOUS
<1>1. Len(<<>>) = 0 /\ 1 .. 0 = {}
  OBVIOUS
<1>2. TypeOK
  <2>1. /\ moment \in Nat /\ changed \in BOOLEAN /\ posted \in BOOLEAN
        /\ session \in BOOLEAN /\ up \in BOOLEAN
    BY DEF Init
  <2>2. outbox \in Seq([env : Nat, attempts : Nat]) /\ lock \in Seq(Tasks)
    BY DEF Init
  <2>3. aside \in Nat /\ aside + Len(outbox) <= MaxPending
    BY <1>1, OutboxAssumption DEF Init
  <2>4. pc \in [Tasks -> Labels] /\ env \in [Tasks -> Nat]
    BY DEF Init, Labels
  <2>5. batch \in Nat /\ short \in BOOLEAN /\ moved \in BOOLEAN
        /\ wire \in {"none", "out", "in"}
    BY DEF Init
  <2>6. orphans \subseteq Nat /\ server \in Nat /\ captured \in Nat
    BY DEF Init
  <2> QED
    BY <2>1, <2>2, <2>3, <2>4, <2>5, <2>6 DEF TypeOK
<1>3. LockOK /\ FlushOK
  BY <1>1 DEF Init, LockOK, FlushOK, InLock, Tasks
<1> QED
  BY <1>2, <1>3 DEF Control

LEMMA StepControl == Control /\ [Next]_vars => Control'
<1> SUFFICES ASSUME Control, [Next]_vars PROVE Control'
  OBVIOUS
<1> Posters \subseteq Tasks /\ "ws" \in Tasks
  BY DEF Tasks
<1>1. CASE Change \/ LinkChanges \/ Login \/ OrphanEnds \/ Prune \/ UNCHANGED vars
  BY <1>1, WorldControl
<1>2. CASE PublisherWakes \/ PublisherPosts \/ CycleDue \/ AssertRelays
  BY <1>2, OutsiderControl
<1>3. CASE Hello \/ \E p \in Posters : Capture(p)
  BY <1>3, JoinControl
<1>4. CASE FlushAgain \/ \E p \in Tasks : Flush(p)
  BY <1>4, FlushControl
<1>5. ASSUME NEW p \in Tasks, Accept(p) \/ Resent(p) \/ ResendFails(p) \/ PostFails(p)
      PROVE  Control'
  BY <1>5, AcceptControl, ResentControl, ResendFailsControl, PostFailsControl
<1>6. ASSUME NEW p \in Posters, Post(p) \/ Enqueue(p) PROVE Control'
  BY <1>6, PostControl, EnqueueControl
<1>7. ASSUME NEW p \in Tasks,
             Posted(p) \/ StoreRaises(p) \/ (p = "ws" /\ DrainEnds)
      PROVE  Control'
  BY <1>7, LeaveControl
<1>8. CASE SessionEnds
  BY <1>8, SessionEndsControl
<1>9. CASE Restart
  BY <1>9, RestartControl
<1> QED
  BY <1>1, <1>2, <1>3, <1>4, <1>5, <1>6, <1>7, <1>8, <1>9
     DEF Next, Outside, Poster, Answer, Listener

(* For any caps, batch and number of changes, every variable keeps its     *)
(* kind and the table keeps to its cap (data_logger.py:246-274).           *)
THEOREM TypeCorrect == Spec => []TypeOK
<1>1. Control => TypeOK
  BY DEF Control
<1> QED
  BY <1>1, InitControl, StepControl, PTL DEF Spec

-----------------------------------------------------------------------------
(* No change is missed. *)

(* Before the first post nothing is promised, and nothing is on its way.   *)
Seen == \/ captured = moment
        \/ changed
        \/ pc["publisher"] \in {"pushing", "building"}
        \/ pc["sensor"] = "building"
SeenOrNew == Seen \/ (~posted /\ \A p \in Posters : pc[p] \notin InLock)

LEMMA StepSeen == Control /\ SeenOrNew /\ [Next]_vars => SeenOrNew'
<1> SUFFICES ASSUME Control, SeenOrNew, [Next]_vars PROVE SeenOrNew'
  OBVIOUS
<1>1. /\ Posters = {"publisher", "sensor"} /\ Posters \subseteq Tasks
      /\ "ws" \in Tasks /\ pc \in [Tasks -> Labels]
  BY DEF Posters, Tasks, Control, TypeOK
<1>2. CASE \/ Change \/ PublisherWakes \/ PublisherPosts \/ CycleDue \/ AssertRelays
           \/ \E p \in Posters : Capture(p)
  <2>1. CASE Change \/ AssertRelays
    BY <2>1 DEF Change, AssertRelays, SeenOrNew, Seen
  <2>2. CASE PublisherWakes \/ PublisherPosts \/ CycleDue
    BY <1>1, <2>2 DEF PublisherWakes, PublisherPosts, CycleDue, Goto, SeenOrNew, Seen
  <2>3. ASSUME NEW p \in Posters, Capture(p) PROVE SeenOrNew'
    BY <2>3 DEF Capture, device, SeenOrNew, Seen
  <2> QED
    BY <1>2, <2>1, <2>2, <2>3
<1>3. CASE Restart
  BY <1>3 DEF Restart, SeenOrNew, Posters, Tasks, InLock
<1>4. CASE \/ LinkChanges \/ Login \/ OrphanEnds \/ Prune \/ UNCHANGED vars
           \/ \E p \in Tasks : Accept(p)
  <2>1. UNCHANGED <<moment, changed, posted, pc, captured>>
    BY <1>4 DEF LinkChanges, Login, OrphanEnds, Prune, Accept, vars, device, world
  <2> QED
    BY <2>1 DEF SeenOrNew, Seen
<1>5. ASSUME NEW p \in Tasks, NEW l,
             UNCHANGED <<moment, changed, posted, captured>>, Goto(p, l),
             p = "ws" \/ pc[p] \in InLock
      PROVE  SeenOrNew'
  <2>1. \A q \in Posters : q # p => pc'[q] = pc[q]
    BY <1>1, <1>5 DEF Goto
  <2>2. p \in Posters => pc[p] \in InLock
    BY <1>1, <1>5
  <2>3. CASE p \in Posters
    <3>1. Seen
      BY <2>2, <2>3 DEF SeenOrNew
    <3> QED
      BY <1>1, <1>5, <2>1, <2>2, <2>3, <3>1 DEF SeenOrNew, Seen, InLock
  <2>4. CASE p \notin Posters
    BY <1>1, <1>5, <2>1, <2>4 DEF SeenOrNew, Seen
  <2> QED
    BY <2>3, <2>4
<1>6. ASSUME NEW p \in Tasks, Posted(p) PROVE SeenOrNew'
  <2>1. p \in Posters /\ pc[p] \in InLock /\ p \in {"publisher", "sensor"}
    BY <1>1, <1>6 DEF Posted, Control, FlushOK, Tasks, InLock
  <2>2. Seen
    BY <2>1 DEF SeenOrNew
  <2>3. /\ UNCHANGED <<moment, changed, captured>>
        /\ \A q \in Posters : q # p => pc'[q] = pc[q]
    BY <1>1, <1>6 DEF Posted, Leave, Goto, world
  <2> QED
    BY <1>1, <2>1, <2>2, <2>3 DEF SeenOrNew, Seen, InLock
<1>7. ASSUME NEW p \in Tasks,
             Flush(p) \/ Resent(p) \/ ResendFails(p) \/ PostFails(p)
             \/ (p # "ws" /\ (Post(p) \/ Enqueue(p))) \/ StoreRaises(p)
      PROVE  SeenOrNew'
  <2>1. UNCHANGED <<moment, changed, posted, captured>> /\ pc[p] \in InLock
    BY <1>7 DEF Flush, StartFlush, Resent, ResendFails, PostFails, Post, Enqueue,
                StoreRaises, device, world, InLock
  <2>2. UNCHANGED pc \/ \E l : Goto(p, l)
    BY <1>7 DEF Flush, StartFlush, Resent, ResendFails, PostFails, Post, Enqueue,
                Leave, StoreRaises, Goto
  <2> QED
    BY <1>5, <2>1, <2>2 DEF SeenOrNew, Seen
<1>8. CASE Hello \/ FlushAgain \/ DrainEnds \/ SessionEnds
  <2>1. UNCHANGED <<moment, changed, posted, captured>>
    BY <1>8 DEF Hello, FlushAgain, StartFlush, DrainEnds, SessionEnds, device, world
  <2>2. \E l : Goto("ws", l)
    BY <1>8 DEF Hello, FlushAgain, StartFlush, DrainEnds, SessionEnds
  <2> QED
    BY <1>1, <1>5, <2>1, <2>2
<1> QED
  BY <1>1, <1>2, <1>3, <1>4, <1>6, <1>7, <1>8
     DEF Next, Outside, Poster, Answer, Listener

(* For any caps, batch and number of changes, a change that was announced  *)
(* since the first post is in an envelope or about to be captured in one.  *)
THEOREM ChangesAreReported == Spec => []NoChangeMissed
<1>1. Init => SeenOrNew
  BY DEF Init, SeenOrNew, InLock, Posters, Tasks
<1>2. SeenOrNew => NoChangeMissed
  BY DEF SeenOrNew, Seen, NoChangeMissed
<1> QED
  BY <1>1, <1>2, StepSeen, InitControl, StepControl, PTL DEF Spec

-----------------------------------------------------------------------------
(* The order of the envelopes. *)

(* What is left of the table and of the lock was there, in that order.     *)
RowsThin ==
    \A i, j \in 1 .. Len(outbox') : i <= j =>
        \E k, m \in 1 .. Len(outbox) :
            k <= m /\ outbox[k].env = outbox'[i].env /\ outbox[m].env = outbox'[j].env
LockThins ==
    \A i, j \in 1 .. Len(lock') :
        i <= j /\ lock'[i] \in Posters /\ lock'[j] \in Posters =>
        \E k, m \in 1 .. Len(lock) :
            k <= m /\ lock[k] = lock'[i] /\ lock[m] = lock'[j]

LEMMA RowAt ==
    ASSUME Control, NEW i \in 1 .. Len(outbox)
    PROVE  outbox[i] \in Row /\ outbox[i].env \in Nat
<1>1. outbox \in Seq(Row)
  BY DEF Control, TypeOK, Row
<1>2. outbox[i] \in Row
  BY <1>1
<1> QED
  BY <1>2 DEF Row

LEMMA LowKept ==
    ASSUME Control, Control', RowsThin, moment <= moment',
           \A p \in Posters : Waiting(p)' => Waiting(p) /\ env'[p] = env[p],
           NEW x \in Nat, Low(x)
    PROVE  /\ x <= moment'
           /\ \A i \in 1 .. Len(outbox') : x <= outbox'[i].env
           /\ \A p \in Posters : Waiting(p)' => x <= env'[p]
<1>1. moment \in Nat /\ moment' \in Nat
  BY DEF Control, TypeOK
<1>2. x <= moment'
  BY <1>1 DEF Low
<1>3. \A i \in 1 .. Len(outbox') : x <= outbox'[i].env
  <2> SUFFICES ASSUME NEW i \in 1 .. Len(outbox') PROVE x <= outbox'[i].env
    OBVIOUS
  <2>1. i <= i
    OBVIOUS
  <2>2. \E k \in 1 .. Len(outbox) : outbox[k].env = outbox'[i].env
    BY <2>1 DEF RowsThin
  <2> QED
    BY <2>2 DEF Low
<1> QED
  BY <1>2, <1>3 DEF Low

LEMMA OrderKept ==
    ASSUME Control, Control', InOrder, RowsThin, LockThins, moment <= moment',
           \A p \in Posters : Waiting(p)' => Waiting(p) /\ env'[p] = env[p],
           Low(server'), \A o \in orphans' : Low(o)
    PROVE  InOrder'
<1>1. moment \in Nat /\ moment' \in Nat /\ server' \in Nat /\ orphans' \subseteq Nat
  BY DEF Control, TypeOK
<1>2. \A i, j \in 1 .. Len(outbox') : i <= j => outbox'[i].env <= outbox'[j].env
  BY DEF InOrder, RowsThin
<1>3. ASSUME NEW i \in 1 .. Len(outbox')
      PROVE  /\ outbox'[i].env <= moment'
             /\ \A p \in Posters : Waiting(p)' => outbox'[i].env <= env'[p]
  <2>1. i <= i
    OBVIOUS
  <2>2. PICK k \in 1 .. Len(outbox) : outbox[k].env = outbox'[i].env
    BY <2>1 DEF RowsThin
  <2>3. outbox[k].env \in Nat
    BY RowAt
  <2>4. outbox[k].env <= moment /\ \A p \in Posters : Waiting(p) => outbox[k].env <= env[p]
    BY DEF InOrder
  <2> QED
    BY <1>1, <2>2, <2>3, <2>4
<1>4. \A p \in Posters : Waiting(p)' => env'[p] <= moment'
  <2>1. \A p \in Posters : env[p] \in Nat
    BY DEF Control, TypeOK, Tasks
  <2> QED
    BY <1>1, <2>1 DEF InOrder
<1>5. \A i, j \in 1 .. Len(lock') :
        i <= j /\ lock'[i] \in Posters /\ lock'[j] \in Posters
        => env'[lock'[i]] <= env'[lock'[j]]
  <2> SUFFICES ASSUME NEW i \in 1 .. Len(lock'), NEW j \in 1 .. Len(lock'),
                      i <= j, lock'[i] \in Posters, lock'[j] \in Posters
               PROVE  env'[lock'[i]] <= env'[lock'[j]]
    OBVIOUS
  <2>1. env[lock'[i]] <= env[lock'[j]]
    BY DEF LockThins, InOrder
  <2>2. \A p \in Posters : pc'[p] \in InLock => env'[p] = env[p]
    BY DEF Waiting
  <2>3. pc'[lock'[i]] \in InLock /\ pc'[lock'[j]] \in InLock
    BY DEF Control, LockOK
  <2> QED
    BY <2>1, <2>2, <2>3
<1>6. Low(server)' /\ \A o \in orphans' : Low(o)'
  BY <1>1, LowKept DEF Low
<1> QED
  BY <1>2, <1>3, <1>4, <1>5, <1>6 DEF InOrder, Low

LEMMA RowsStay ==
    ASSUME Control, outbox' = outbox \/ (outbox # <<>> /\ outbox' = Tail(outbox))
    PROVE  RowsThin
<1>1. outbox \in Seq(Row)
  BY DEF Control, TypeOK, Row
<1>2. CASE outbox' = outbox
  BY <1>2 DEF RowsThin
<1>3. CASE outbox # <<>> /\ outbox' = Tail(outbox)
  <2>1. /\ Len(outbox) \in Nat /\ Len(outbox') = Len(outbox) - 1
        /\ \A i \in 1 .. Len(outbox') : outbox'[i] = outbox[i + 1]
    BY <1>1, <1>3
  <2> SUFFICES ASSUME NEW i \in 1 .. Len(outbox'), NEW j \in 1 .. Len(outbox'), i <= j
               PROVE  \E k, m \in 1 .. Len(outbox) :
                         /\ k <= m
                         /\ outbox[k].env = outbox'[i].env
                         /\ outbox[m].env = outbox'[j].env
    BY DEF RowsThin
  <2>2. /\ i + 1 \in 1 .. Len(outbox) /\ j + 1 \in 1 .. Len(outbox)
        /\ i + 1 <= j + 1
    BY <2>1
  <2> QED
    BY <2>1, <2>2
<1> QED
  BY <1>2, <1>3

LEMMA LockStays ==
    ASSUME Control,
           \/ lock' = lock
           \/ lock # <<>> /\ lock' = Tail(lock)
           \/ lock' = Append(lock, "ws")
           \/ \E k \in 1 .. Len(lock) : lock' = RemoveAt(lock, k)
    PROVE  LockThins
<1>1. lock \in Seq(Tasks) /\ "ws" \notin Posters
  BY DEF Control, TypeOK, Posters
<1>2. CASE lock' = lock
  BY <1>2 DEF LockThins
<1>3. CASE lock # <<>> /\ lock' = Tail(lock)
  <2>1. /\ Len(lock) \in Nat /\ Len(lock') = Len(lock) - 1
        /\ \A i \in 1 .. Len(lock') : lock'[i] = lock[i + 1]
    BY <1>1, <1>3
  <2>2. \A i, j \in 1 .. Len(lock') : i <= j =>
          i + 1 \in 1 .. Len(lock) /\ j + 1 \in 1 .. Len(lock) /\ i + 1 <= j + 1
    BY <2>1
  <2> QED
    BY <2>1, <2>2 DEF LockThins
<1>4. CASE lock' = Append(lock, "ws")
  <2>1. /\ Len(lock) \in Nat /\ Len(lock') = Len(lock) + 1
        /\ lock'[Len(lock) + 1] = "ws"
        /\ \A i \in 1 .. Len(lock) : lock'[i] = lock[i]
    BY <1>1, <1>4
  <2>2. \A i \in 1 .. Len(lock') : lock'[i] \in Posters => i \in 1 .. Len(lock)
    BY <1>1, <2>1
  <2> SUFFICES ASSUME NEW i \in 1 .. Len(lock'), NEW j \in 1 .. Len(lock'),
                      i <= j, lock'[i] \in Posters, lock'[j] \in Posters
               PROVE  \E k, m \in 1 .. Len(lock) :
                         k <= m /\ lock[k] = lock'[i] /\ lock[m] = lock'[j]
    BY DEF LockThins
  <2>3. i \in 1 .. Len(lock) /\ j \in 1 .. Len(lock)
    BY <2>2
  <2> QED
    BY <2>1, <2>3
<1>5. ASSUME NEW k \in 1 .. Len(lock), lock' = RemoveAt(lock, k) PROVE LockThins
  <2>1. /\ Len(lock) \in Nat /\ Len(lock') = Len(lock) - 1
        /\ \A i \in 1 .. Len(lock) - 1 :
              lock'[i] = IF i < k THEN lock[i] ELSE lock[i + 1]
    BY <1>1, <1>5, Removal
  <2> DEFINE from(i) == IF i < k THEN i ELSE i + 1
  <2>2. ASSUME NEW i \in 1 .. Len(lock')
        PROVE  from(i) \in 1 .. Len(lock) /\ lock'[i] = lock[from(i)]
    <3>1. CASE i < k
      BY <2>1, <3>1
    <3>2. CASE ~(i < k)
      BY <2>1, <3>2
    <3> QED
      BY <3>1, <3>2
  <2>3. \A i, j \in 1 .. Len(lock') : i <= j => from(i) <= from(j)
    BY <2>1
  <2> HIDE DEF from
  <2> QED
    BY <2>2, <2>3 DEF LockThins
<1> QED
  BY <1>2, <1>3, <1>4, <1>5

(* Steps that neither build nor send.                                      *)
LEMMA QuietOrder ==
    ASSUME Control, Control', InOrder,
           \/ Change \/ LinkChanges \/ Login \/ Prune \/ UNCHANGED vars
           \/ PublisherWakes \/ PublisherPosts \/ CycleDue \/ AssertRelays
           \/ FlushAgain \/ (\E p \in Tasks : Flush(p) \/ PostFails(p))
           \/ (\E p \in Posters : Post(p))
    PROVE  InOrder'
<1>1. UNCHANGED <<outbox, env, lock, orphans, server>>
  BY DEF Change, LinkChanges, Login, Prune, vars, PublisherWakes, PublisherPosts,
         CycleDue, AssertRelays, FlushAgain, Flush, StartFlush, PostFails, Post,
         rows, world
<1>2. moment' = moment \/ moment' = moment + 1
  BY DEF Change, LinkChanges, Login, Prune, vars, PublisherWakes, PublisherPosts,
         CycleDue, AssertRelays, FlushAgain, Flush, StartFlush, PostFails, Post,
         device
<1>3. moment <= moment'
  BY <1>2 DEF Control, TypeOK
<1>4. \A p \in Posters : pc'[p] \in InLock => pc[p] \in InLock
  <2>1. pc \in [Tasks -> Labels] /\ Posters \subseteq Tasks
    BY DEF Control, TypeOK, Tasks
  <2>2. CASE Change \/ LinkChanges \/ Login \/ Prune \/ UNCHANGED vars
    BY <2>2 DEF Change, LinkChanges, Login, Prune, vars
  <2>3. CASE PublisherWakes \/ PublisherPosts \/ CycleDue \/ AssertRelays
    BY <2>1, <2>3 DEF PublisherWakes, PublisherPosts, CycleDue, AssertRelays,
                      Goto, InLock
  <2>4. CASE FlushAgain
    BY <2>1, <2>4 DEF FlushAgain, StartFlush, Goto, InLock, Posters
  <2>5. ASSUME NEW q \in Tasks, Flush(q) \/ PostFails(q) \/ Post(q)
        PROVE  \A p \in Posters : pc'[p] \in InLock => pc[p] \in InLock
    <3>1. pc[q] \in InLock /\ \E l : Goto(q, l)
      BY <2>5 DEF Flush, StartFlush, PostFails, Post, InLock
    <3> QED
      BY <2>1, <3>1 DEF Goto
  <2> QED
    BY <2>1, <2>2, <2>3, <2>4, <2>5
<1>5. RowsThin /\ LockThins
  BY <1>1, RowsStay, LockStays
<1>6. Low(server') /\ \A o \in orphans' : Low(o)
  BY <1>1 DEF InOrder
<1> QED
  BY <1>1, <1>3, <1>4, <1>5, <1>6, OrderKept DEF Waiting

(* A task gives the lock back, or the listener asks for it.                *)
LEMMA LeaveOrder ==
    ASSUME Control, Control', InOrder,
           Hello \/ DrainEnds \/ \E p \in Tasks : Posted(p) \/ StoreRaises(p)
    PROVE  InOrder'
<1>1. UNCHANGED <<outbox, moment, orphans, server>>
  BY DEF Hello, DrainEnds, Posted, StoreRaises, device, rows, world
<1>2. moment <= moment'
  BY <1>1 DEF Control, TypeOK
<1>3. \A p \in Posters : Waiting(p)' => Waiting(p) /\ env'[p] = env[p]
  <2>1. pc \in [Tasks -> Labels] /\ env \in [Tasks -> Nat]
        /\ Posters \subseteq Tasks /\ "ws" \notin Posters
    BY DEF Control, TypeOK, Tasks, Posters
  <2>2. CASE Hello
    BY <2>1, <2>2 DEF Hello, Goto, Waiting
  <2>3. CASE DrainEnds
    BY <2>1, <2>3 DEF DrainEnds, Goto, Waiting
  <2>4. ASSUME NEW q \in Tasks, Posted(q) \/ StoreRaises(q)
        PROVE  \A p \in Posters : Waiting(p)' => Waiting(p) /\ env'[p] = env[p]
    <3>1. pc'[q] \notin InLock
      BY <2>1, <2>4 DEF Posted, Leave, StoreRaises, Goto, InLock
    <3>2. \A p \in Tasks : p # q => pc'[p] = pc[p] /\ env'[p] = env[p]
      BY <2>1, <2>4 DEF Posted, Leave, StoreRaises, Goto
    <3> QED
      BY <2>1, <3>1, <3>2 DEF Waiting
  <2> QED
    BY <2>2, <2>3, <2>4
<1>4. LockThins
  <2>1. CASE Hello
    BY <2>1, LockStays DEF Hello
  <2>2. CASE DrainEnds
    <3>1. "ws" \in Tasks
      BY DEF Tasks
    <3>2. lock # <<>>
      BY <2>2, <3>1, AtHead DEF DrainEnds, Control, InLock
    <3> QED
      BY <2>2, <3>2, LockStays DEF DrainEnds
  <2>3. ASSUME NEW q \in Tasks, Posted(q) \/ StoreRaises(q) PROVE LockThins
    <3>1. lock # <<>>
      BY <2>3, AtHead DEF Posted, StoreRaises, Holds, Control, InLock
    <3> QED
      BY <2>3, <3>1, LockStays DEF Posted, Leave, StoreRaises
  <2> QED
    BY <2>1, <2>2, <2>3
<1>5. Low(server') /\ \A o \in orphans' : Low(o)
  BY <1>1 DEF InOrder
<1> QED
  BY <1>1, <1>2, <1>3, <1>4, <1>5, RowsStay, OrderKept

(* What the holder sends is the oldest there is.                           *)
LEMMA CarriedLow ==
    ASSUME Control, InOrder, NEW p \in Tasks, lock # <<>>, lock[1] = p,
           wire # "none"
    PROVE  Low(Carried(p)) /\ Carried(p) >= server
<1>1. pc[p] \in {"resending", "posting"}
  BY DEF Control, FlushOK
<1>2. CASE pc[p] = "resending"
  <2>1. outbox \in Seq(Row) /\ batch \in 1 .. Len(outbox)
    BY <1>2 DEF Control, FlushOK, TypeOK, Row
  <2>2. 1 \in 1 .. Len(outbox) /\ Carried(p) = outbox[1].env
        /\ \A i \in 1 .. Len(outbox) : 1 <= i
    BY <1>2, <2>1 DEF Carried
  <2>3. Low(outbox[1].env) /\ server <= outbox[1].env
    BY <2>2 DEF InOrder, Low
  <2> QED
    BY <2>2, <2>3, RowAt DEF Control, TypeOK
<1>3. CASE pc[p] = "posting"
  <2>1. p \in Posters /\ outbox = <<>> /\ Carried(p) = env[p] /\ Waiting(p)
    BY <1>3 DEF Control, FlushOK, Carried, Tasks, Waiting, InLock
  <2>2. ASSUME NEW q \in Posters, Waiting(q) PROVE env[p] <= env[q]
    <3>1. lock \in Seq(Tasks) /\ q \in Tasks
      BY DEF Control, TypeOK, Tasks
    <3>2. PICK i \in 1 .. Len(lock) : lock[i] = q
      BY <2>2, <3>1 DEF Waiting, Control, LockOK
    <3>3. 1 \in 1 .. Len(lock) /\ 1 <= i
      BY <3>1, <3>2
    <3> QED
      BY <2>1, <3>2, <3>3 DEF InOrder
  <2>3. 1 .. Len(outbox) = {}
    BY <2>1
  <2>4. env[p] <= moment /\ server <= env[p]
    BY <2>1 DEF InOrder, Low
  <2>5. env[p] \in Nat /\ server \in Nat
    BY DEF Control, TypeOK
  <2> QED
    BY <2>1, <2>2, <2>3, <2>4, <2>5 DEF Low
<1> QED
  BY <1>1, <1>2, <1>3

LEMMA SendOrder ==
    ASSUME Control, Control', InOrder,
           \/ OrphanEnds
           \/ \E p \in Tasks : Accept(p) \/ Resent(p)
    PROVE  InOrder'
<1>1. UNCHANGED <<moment, env, lock>>
  BY DEF OrphanEnds, Accept, Resent, device
<1>2. moment <= moment'
  BY <1>1 DEF Control, TypeOK
<1>3. \A p \in Posters : pc'[p] \in InLock => pc[p] \in InLock
  <2>1. CASE UNCHANGED pc
    BY <2>1
  <2>2. ASSUME NEW q \in Tasks, NEW l, pc[q] = "resending", Goto(q, l)
        PROVE  \A p \in Posters : pc'[p] \in InLock => pc[p] \in InLock
    BY <2>2 DEF Goto, Control, TypeOK, InLock
  <2> QED
    BY <2>1, <2>2 DEF OrphanEnds, Accept, Resent
<1>4. RowsThin
  <2>1. CASE outbox' = outbox
    BY <2>1, RowsStay
  <2>2. ASSUME NEW q \in Tasks, Resent(q) PROVE RowsThin
    <3>1. batch \in 1 .. Len(outbox) /\ outbox \in Seq(Row)
      BY <2>2 DEF Resent, Control, FlushOK, TypeOK, Row
    <3>2. outbox # <<>>
      BY <3>1
    <3> QED
      BY <2>2, <3>2, RowsStay DEF Resent
  <2> QED
    BY <2>1, <2>2 DEF OrphanEnds, Accept, rows
<1>5. Low(server') /\ \A o \in orphans' : Low(o)
  <2>1. CASE OrphanEnds
    BY <2>1 DEF OrphanEnds, InOrder
  <2>2. ASSUME NEW q \in Tasks, Accept(q)
        PROVE  Low(server') /\ \A o \in orphans' : Low(o)
    <3>1. lock # <<>> /\ lock[1] = q /\ wire # "none"
      BY <2>2 DEF Accept, Holds, Control, TypeOK
    <3>2. server' = Carried(q) /\ orphans' = orphans
      BY <2>2 DEF Accept
    <3> QED
      BY <3>1, <3>2, CarriedLow DEF InOrder
  <2>3. ASSUME NEW q \in Tasks, Resent(q)
        PROVE  Low(server') /\ \A o \in orphans' : Low(o)
    BY <2>3 DEF Resent, world, InOrder
  <2> QED
    BY <2>1, <2>2, <2>3
<1>6. LockThins
  BY <1>1, LockStays
<1> QED
  BY <1>1, <1>2, <1>3, <1>4, <1>5, <1>6, OrderKept DEF Waiting

LEMMA ResendFailsOrder ==
    ASSUME Control, Control', InOrder, NEW q \in Tasks, ResendFails(q)
    PROVE  InOrder'
<1>1. UNCHANGED <<moment, env, lock, server, orphans>>
  BY DEF ResendFails, device, world
<1>2. moment <= moment'
  BY <1>1 DEF Control, TypeOK
<1>3. \A p \in Posters : pc'[p] \in InLock => pc[p] \in InLock
  BY DEF ResendFails, Goto, Control, TypeOK, InLock
<1>4. RowsThin
  <2>1. batch \in 1 .. Len(outbox) /\ outbox \in Seq(Row)
    BY DEF ResendFails, Control, FlushOK, TypeOK, Row
  <2>2. CASE outbox' = Tail(outbox)
    <3>1. outbox # <<>>
      BY <2>1
    <3> QED
      BY <2>2, <3>1, RowsStay
  <2>3. CASE outbox' = [outbox EXCEPT ![1].attempts = Head(outbox).attempts + 1]
    <3>1. Len(outbox') = Len(outbox) /\ \A i \in 1 .. Len(outbox) : i # 1 => outbox'[i] = outbox[i]
      BY <2>1, <2>3
    <3>2. outbox'[1] = [outbox[1] EXCEPT !.attempts = Head(outbox).attempts + 1]
      BY <2>1, <2>3
    <3>3. outbox[1] \in Row
      BY <2>1
    <3>4. outbox'[1].env = outbox[1].env
      BY <3>2, <3>3 DEF Row
    <3>5. \A i \in 1 .. Len(outbox) : outbox'[i].env = outbox[i].env
      BY <3>1, <3>4
    <3> QED
      BY <3>1, <3>5 DEF RowsThin
  <2> QED
    BY <2>2, <2>3 DEF ResendFails
<1>5. LockThins
  BY <1>1, LockStays
<1>6. Low(server') /\ \A o \in orphans' : Low(o)
  BY <1>1 DEF InOrder
<1> QED
  BY <1>1, <1>2, <1>3, <1>4, <1>5, <1>6, OrderKept DEF Waiting

LEMMA SessionEndsOrder ==
    ASSUME Control, Control', InOrder, SessionEnds PROVE InOrder'
<1>1. UNCHANGED <<moment, env, outbox, server>>
  BY DEF SessionEnds, device, rows
<1>2. moment <= moment'
  BY <1>1 DEF Control, TypeOK
<1>3. \A p \in Posters : pc'[p] = pc[p]
  BY DEF SessionEnds, Goto, Control, TypeOK, Posters
<1>4. Holds("ws") => lock # <<>> /\ lock[1] = "ws"
  BY DEF Holds, Control, TypeOK
<1>5. LockThins
  BY <1>4, LockStays DEF SessionEnds
<1>6. \A o \in orphans' : Low(o)
  <2>1. "ws" \in Tasks
    BY DEF Tasks
  <2>2. Holds("ws") /\ wire = "out" => Low(Carried("ws"))
    BY <1>4, <2>1, CarriedLow
  <2> QED
    BY <2>2 DEF SessionEnds, InOrder
<1>7. Low(server')
  BY <1>1 DEF InOrder
<1> QED
  BY <1>1, <1>2, <1>3, <1>5, <1>6, <1>7, RowsStay, OrderKept DEF Waiting

LEMMA RestartOrder ==
    ASSUME Control, Control', InOrder, Restart PROVE InOrder'
<1>1. outbox' = outbox /\ server' = server /\ orphans' = {} /\ lock' = <<>>
      /\ moment' = moment + 1 /\ pc' = [p \in Tasks |-> "idle"]
  BY DEF Restart, rows
<1>2. moment <= moment'
  BY <1>1 DEF Control, TypeOK
<1>3. \A p \in Posters : ~Waiting(p)'
  BY <1>1 DEF Waiting, InLock, Tasks
<1>4. LockThins
  BY <1>1 DEF LockThins
<1>5. Low(server') /\ \A o \in orphans' : Low(o)
  BY <1>1 DEF InOrder
<1> QED
  BY <1>1, <1>2, <1>3, <1>4, <1>5, RowsStay, OrderKept

(* The newest envelope goes to the end of the lock.                        *)
LEMMA CaptureOrder ==
    ASSUME Control, Control', InOrder, NEW p \in Posters, Capture(p)
    PROVE  InOrder'
<1>1. /\ p \in Tasks /\ Posters \subseteq Tasks /\ moment \in Nat /\ lock \in Seq(Tasks)
      /\ pc \in [Tasks -> Labels] /\ env \in [Tasks -> Nat]
  BY DEF Control, TypeOK, Tasks
<1>2. /\ outbox' = outbox /\ moment' = moment /\ server' = server
      /\ orphans' = orphans /\ lock' = Append(lock, p)
  BY DEF Capture, device, rows
<1>3. /\ env'[p] = moment
      /\ \A q \in Tasks : q # p => env'[q] = env[q] /\ pc'[q] = pc[q]
  BY <1>1 DEF Capture, Goto
<1>4. \A x \in Nat : Low(x) =>
        /\ x <= moment'
        /\ \A i \in 1 .. Len(outbox') : x <= outbox'[i].env
        /\ \A q \in Posters : Waiting(q)' => x <= env'[q]
  BY <1>1, <1>2, <1>3 DEF Low, Waiting
<1>5. Low(server)' /\ \A o \in orphans' : Low(o)'
  BY <1>2, <1>4 DEF Low, InOrder, Control, TypeOK
<1>6. \A i, j \in 1 .. Len(outbox') : i <= j => outbox'[i].env <= outbox'[j].env
  BY <1>2 DEF InOrder
<1>7. \A i \in 1 .. Len(outbox') :
        /\ outbox'[i].env <= moment'
        /\ \A q \in Posters : Waiting(q)' => outbox'[i].env <= env'[q]
  BY <1>1, <1>2, <1>3 DEF InOrder, Waiting
<1>8. \A q \in Posters : Waiting(q)' => env'[q] <= moment'
  BY <1>1, <1>2, <1>3 DEF InOrder, Waiting
<1>9. \A i, j \in 1 .. Len(lock') :
        i <= j /\ lock'[i] \in Posters /\ lock'[j] \in Posters
        => env'[lock'[i]] <= env'[lock'[j]]
  <2> SUFFICES ASSUME NEW i \in 1 .. Len(lock'), NEW j \in 1 .. Len(lock'),
                      i <= j, lock'[i] \in Posters, lock'[j] \in Posters
               PROVE  env'[lock'[i]] <= env'[lock'[j]]
    OBVIOUS
  <2>1. /\ Len(lock) \in Nat /\ Len(lock') = Len(lock) + 1
        /\ lock'[Len(lock) + 1] = p
        /\ \A n \in 1 .. Len(lock) : lock'[n] = lock[n]
    BY <1>1, <1>2
  <2>2. \A n \in 1 .. Len(lock) : lock[n] # p /\ pc[lock[n]] \in InLock
    BY DEF Capture, Control, LockOK, InLock
  <2>3. CASE j \in 1 .. Len(lock)
    <3>1. i \in 1 .. Len(lock)
      BY <2>1, <2>3
    <3> QED
      BY <1>1, <1>3, <2>1, <2>2, <2>3, <3>1 DEF InOrder
  <2>4. CASE j = Len(lock) + 1
    <3>1. env'[lock'[j]] = moment
      BY <1>3, <2>1, <2>4
    <3>2. CASE i = j
      BY <1>1, <3>1, <3>2
    <3>3. CASE i # j
      <4>1. i \in 1 .. Len(lock)
        BY <2>1, <2>4, <3>3
      <4>2. env[lock[i]] <= moment
        BY <2>1, <2>2, <4>1 DEF InOrder, Waiting
      <4> QED
        BY <1>1, <1>3, <2>1, <2>2, <3>1, <4>1, <4>2
    <3> QED
      BY <3>2, <3>3
  <2> QED
    BY <2>1, <2>3, <2>4
<1> QED
  BY <1>5, <1>6, <1>7, <1>8, <1>9 DEF InOrder

(* The holder's envelope goes behind the rows, before those that wait.     *)
LEMMA EnqueueOrder ==
    ASSUME Control, Control', InOrder, NEW p \in Posters, Enqueue(p)
    PROVE  InOrder'
<1> DEFINE row  == [env |-> env[p], attempts |-> 1]
           kept == IF Overflow > aside THEN Overflow - aside ELSE 0
           long == Append(outbox, row)
<1>1. /\ p \in Tasks /\ Posters \subseteq Tasks /\ moment \in Nat /\ lock \in Seq(Tasks)
      /\ pc \in [Tasks -> Labels] /\ env \in [Tasks -> Nat]
      /\ Waiting(p) /\ lock # <<>> /\ lock[1] = p
  BY AtHead DEF Control, TypeOK, Tasks, Enqueue, Waiting, InLock
<1>2. /\ moment' = moment /\ server' = server /\ orphans' = orphans
      /\ lock' = Tail(lock)
  BY DEF Enqueue, Leave, device, world
<1>3. \A q \in Posters : Waiting(q)' => Waiting(q) /\ q # p /\ env'[q] = env[q]
  BY <1>1 DEF Enqueue, Leave, Goto, Waiting, InLock
<1>4. \A q \in Posters : Waiting(q) => env[p] <= env[q]
  <2> SUFFICES ASSUME NEW q \in Posters, Waiting(q) PROVE env[p] <= env[q]
    OBVIOUS
  <2>1. PICK i \in 1 .. Len(lock) : lock[i] = q
    BY <1>1 DEF Waiting, Control, LockOK
  <2>2. 1 \in 1 .. Len(lock) /\ 1 <= i
    BY <1>1, <2>1
  <2> QED
    BY <1>1, <2>1, <2>2 DEF InOrder
<1>5. outbox \in Seq(Row) /\ Len(outbox) \in Nat /\ row \in Row /\ row.env = env[p]
  BY <1>1 DEF Control, TypeOK, Row
<1>6. kept \in 0 .. Len(outbox) + 1 /\ outbox' = SubSeq(long, kept + 1, Len(outbox) + 1)
  BY <1>5, OutboxAssumption DEF Overflow, Enqueue, Control, TypeOK
<1> HIDE DEF row, kept
<1>7. /\ long \in Seq(Row) /\ Len(long) = Len(outbox) + 1
      /\ long[Len(outbox) + 1] = row
      /\ \A i \in 1 .. Len(outbox) : long[i] = outbox[i]
  BY <1>5
<1> HIDE DEF long
<1>8. /\ Len(outbox') = Len(outbox) + 1 - kept
      /\ \A i \in 1 .. Len(outbox') :
            i + kept \in 1 .. Len(outbox) + 1 /\ outbox'[i] = long[i + kept]
  BY <1>5, <1>6, <1>7
<1>9. \A x \in Nat : Low(x) => \A i \in 1 .. Len(outbox) + 1 : x <= long[i].env
  BY <1>1, <1>5, <1>7 DEF Low
<1>10. \A i, j \in 1 .. Len(outbox) + 1 : i <= j => long[i].env <= long[j].env
  <2> SUFFICES ASSUME NEW i \in 1 .. Len(outbox) + 1, NEW j \in 1 .. Len(outbox) + 1,
                      i <= j
               PROVE  long[i].env <= long[j].env
    OBVIOUS
  <2>1. CASE j \in 1 .. Len(outbox)
    BY <1>5, <1>7, <2>1 DEF InOrder
  <2>2. CASE j = Len(outbox) + 1 /\ i \in 1 .. Len(outbox)
    BY <1>1, <1>5, <1>7, <2>2 DEF InOrder
  <2>3. CASE j = Len(outbox) + 1 /\ i = Len(outbox) + 1
    BY <1>1, <1>5, <1>7, <2>3
  <2> QED
    BY <1>5, <2>1, <2>2, <2>3
<1>11. \A i \in 1 .. Len(outbox) + 1 :
         /\ long[i].env <= moment
         /\ \A q \in Posters : Waiting(q) => long[i].env <= env[q]
  <2> SUFFICES ASSUME NEW i \in 1 .. Len(outbox) + 1
               PROVE  /\ long[i].env <= moment
                      /\ \A q \in Posters : Waiting(q) => long[i].env <= env[q]
    OBVIOUS
  <2>1. CASE i \in 1 .. Len(outbox)
    BY <1>7, <2>1 DEF InOrder
  <2>2. CASE i = Len(outbox) + 1
    BY <1>1, <1>4, <1>5, <1>7, <2>2 DEF InOrder
  <2> QED
    BY <1>5, <2>1, <2>2
<1>12. \A i, j \in 1 .. Len(outbox') : i <= j => outbox'[i].env <= outbox'[j].env
  <2> SUFFICES ASSUME NEW i \in 1 .. Len(outbox'), NEW j \in 1 .. Len(outbox'), i <= j
               PROVE  outbox'[i].env <= outbox'[j].env
    OBVIOUS
  <2>1. i + kept <= j + kept
    BY <1>5, <1>6, <1>8
  <2> QED
    BY <1>8, <1>10, <2>1
<1>13. \A i \in 1 .. Len(outbox') :
         /\ outbox'[i].env <= moment'
         /\ \A q \in Posters : Waiting(q)' => outbox'[i].env <= env'[q]
  BY <1>2, <1>3, <1>8, <1>11
<1>14. \A q \in Posters : Waiting(q)' => env'[q] <= moment'
  BY <1>2, <1>3 DEF InOrder
<1>15. LockThins
  BY <1>1, <1>2, LockStays
<1>16. \A i, j \in 1 .. Len(lock') :
         i <= j /\ lock'[i] \in Posters /\ lock'[j] \in Posters
         => env'[lock'[i]] <= env'[lock'[j]]
  <2> SUFFICES ASSUME NEW i \in 1 .. Len(lock'), NEW j \in 1 .. Len(lock'),
                      i <= j, lock'[i] \in Posters, lock'[j] \in Posters
               PROVE  env'[lock'[i]] <= env'[lock'[j]]
    OBVIOUS
  <2>1. env[lock'[i]] <= env[lock'[j]]
    BY <1>15 DEF LockThins, InOrder
  <2>2. \A q \in Posters : pc'[q] \in InLock => env'[q] = env[q]
    BY <1>3 DEF Waiting
  <2>3. pc'[lock'[i]] \in InLock /\ pc'[lock'[j]] \in InLock
    BY DEF Control, LockOK
  <2> QED
    BY <2>1, <2>2, <2>3
<1>17. Low(server)' /\ \A o \in orphans' : Low(o)'
  <2>1. \A x \in Nat : Low(x) =>
          /\ x <= moment'
          /\ \A i \in 1 .. Len(outbox') : x <= outbox'[i].env
          /\ \A q \in Posters : Waiting(q)' => x <= env'[q]
    BY <1>2, <1>3, <1>8, <1>9 DEF Low
  <2> QED
    BY <1>2, <2>1 DEF Low, InOrder, Control, TypeOK
<1> QED
  BY <1>12, <1>13, <1>14, <1>16, <1>17 DEF InOrder

LEMMA StepOrder == Control /\ Control' /\ InOrder /\ [Next]_vars => InOrder'
<1> SUFFICES ASSUME Control, Control', InOrder, [Next]_vars PROVE InOrder'
  OBVIOUS
<1> Posters \subseteq Tasks
  BY DEF Tasks
<1>1. CASE \/ Change \/ LinkChanges \/ Login \/ Prune \/ UNCHANGED vars
           \/ PublisherWakes \/ PublisherPosts \/ CycleDue \/ AssertRelays
           \/ FlushAgain \/ (\E p \in Tasks : Flush(p) \/ PostFails(p))
           \/ (\E p \in Posters : Post(p))
  BY <1>1, QuietOrder
<1>2. CASE Hello \/ DrainEnds \/ \E p \in Tasks : Posted(p) \/ StoreRaises(p)
  BY <1>2, LeaveOrder
<1>3. CASE OrphanEnds \/ \E p \in Tasks : Accept(p) \/ Resent(p)
  BY <1>3, SendOrder
<1>4. CASE \E p \in Tasks : ResendFails(p)
  BY <1>4, ResendFailsOrder
<1>5. CASE SessionEnds
  BY <1>5, SessionEndsOrder
<1>6. CASE Restart
  BY <1>6, RestartOrder
<1>7. CASE \E p \in Posters : Capture(p) \/ Enqueue(p)
  BY <1>7, CaptureOrder, EnqueueOrder
<1> QED
  BY <1>1, <1>2, <1>3, <1>4, <1>5, <1>6, <1>7
     DEF Next, Outside, Poster, Answer, Listener

(* For any caps, batch and number of changes, the server's view of the     *)
(* relays goes back only by a request whose coroutine was cancelled.       *)
THEOREM OnlyOrphansRewind == Spec => RewindsOnlyByOrphan
<1>1. Init => InOrder
  <2> SUFFICES ASSUME Init PROVE InOrder
    OBVIOUS
  <2>1. 1 .. Len(outbox) = {} /\ 1 .. Len(lock) = {}
    BY DEF Init
  <2>2. \A p \in Posters : ~Waiting(p)
    BY DEF Init, Waiting, InLock, Tasks
  <2>3. server = 0 /\ moment = 1 /\ orphans = {}
    BY DEF Init
  <2> QED
    BY <2>1, <2>2, <2>3 DEF InOrder, Low
<1>2. Control /\ InOrder /\ [Next]_vars
      => [server' < server => server' \in orphans]_vars
  <2> SUFFICES ASSUME Control, InOrder, Next, server' < server
               PROVE  server' \in orphans
    BY DEF vars
  <2>1. server' # server
    BY DEF Control, TypeOK
  <2>2. OrphanEnds \/ \E p \in Tasks : Accept(p)
    BY <2>1 DEF Next, Outside, Poster, Answer, Listener, Change, LinkChanges,
          Hello, SessionEnds, Prune, Restart, Login, PublisherWakes,
          PublisherPosts, CycleDue, Capture, Post, Enqueue, Flush, FlushAgain,
          StartFlush, Resent, ResendFails, Posted, PostFails, StoreRaises,
          DrainEnds, AssertRelays, world
  <2>3. ASSUME NEW p \in Tasks, Accept(p) PROVE FALSE
    <3>1. lock # <<>> /\ lock[1] = p /\ wire # "none"
      BY <2>3 DEF Accept, Holds, Control, TypeOK
    <3>2. Carried(p) >= server /\ server' = Carried(p)
      BY <2>3, <3>1, CarriedLow DEF Accept
    <3>3. server \in Nat /\ Carried(p) \in Nat
      BY <2>3, <3>2, AcceptControl DEF Control, TypeOK
    <3> QED
      BY <3>2, <3>3
  <2> QED
    BY <2>1, <2>2, <2>3 DEF OrphanEnds
<1> QED
  BY <1>1, <1>2, InitControl, StepControl, StepOrder, PTL
     DEF Spec, RewindsOnlyByOrphan
=============================================================================
