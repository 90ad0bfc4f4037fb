---------------------------- MODULE SessionProofs ----------------------------
(***************************************************************************)
(* What is proved of Session, for any commands, any length of the memory   *)
(* of outcomes and any number of broken connections and deaths: it         *)
(* implements Commands.  The memory is long enough because the commands    *)
(* that are open at once have numbers near to each other.                  *)
(***************************************************************************)
EXTENDS Session, FiniteSetTheorems, TLAPS

-----------------------------------------------------------------------------
(* The invariant. *)

Near(x, y) == 2 * (x - y) < PROCESSED_HISTORY /\ 2 * (y - x) < PROCESSED_HISTORY

Inbound  == [type : {"execute", "hello_ack"}, c : CommandIds \cup {0}, late : BOOLEAN]
Outbound == [type : {"hello", "ack", "result"}, c : CommandIds \cup {0},
             status : Outcomes \cup {NotYet}]
Entries  == [c : CommandIds, status : Outcomes]

Waits(b) == b \in 1 .. Len(inbox) /\ inbox[b].type = "execute"
Active   == job.pc \in {"ack", "begin", "write"}

TypeOK ==
    /\ queued \subseteq CommandIds /\ heard \in [CommandIds -> Outcomes \cup {NotYet}]
    /\ inbox \in Seq(Inbound) /\ outbox \in Seq(Outbound) /\ processed \in Seq(Entries)
    /\ job \in [pc : {"idle", "replay", "ack", "begin", "write", "result"},
                c : CommandIds \cup {0}, late : BOOLEAN]
    /\ link = "down" => inbox = <<>> /\ outbox = <<>> /\ job = Idle

(* Only what was queued is under way; commands are queued in their order,  *)
(* and those that are open at once are near to each other.                 *)
CloudOK ==
    /\ \A c \in queued : \A d \in CommandIds : d < c => d \in queued
    /\ \A c \in CommandIds : heard[c] # NotYet => c \in queued
    /\ \A b \in 1 .. Len(inbox) : Waits(b) => inbox[b].c \in queued
    /\ \A i \in 1 .. Len(outbox) : outbox[i].type = "result" => outbox[i].c \in queued
    /\ \A i \in 1 .. Len(processed) : processed[i].c \in queued
    /\ job.pc # "idle" => job.c \in queued
    /\ acted \subseteq queued
    /\ \A c, d \in Unanswered : Near(c, d)

(* Nothing of a connection is heard before its hello.                      *)
HelloOK ==
    /\ \A i \in 1 .. Len(outbox) : outbox[i].type = "hello" => i = 1
    /\ outbox # <<>> /\ outbox[1].type = "hello" =>
          \A b \in 1 .. Len(inbox) : Waits(b) => inbox[b].c \in Unanswered

(* A command that is being handled, or waits to be, is either remembered   *)
(* or untouched; a result that was not heard yet is the one remembered.    *)
OutcomeOK ==
    /\ \A i, j \in 1 .. Len(processed) : processed[i].c = processed[j].c => i = j
    /\ Len(processed) <= PROCESSED_HISTORY
    /\ Active => /\ ~Remembered(job.c)
                 /\ heard[job.c] = NotYet /\ job.c \notin acted
    /\ job.pc \in {"replay", "result"} => Remembered(job.c)
    /\ \A b \in 1 .. Len(inbox) : Waits(b) =>
          \/ Remembered(inbox[b].c)
          \/ heard[inbox[b].c] = NotYet /\ inbox[b].c \notin acted
    /\ \A c \in acted : Remembered(c) \/ heard[c] # NotYet
    /\ \A i \in 1 .. Len(outbox) : outbox[i].type = "result" =>
          \/ heard[outbox[i].c] # NotYet
          \/ \E j \in 1 .. Len(processed) :
                processed[j] = [c |-> outbox[i].c, status |-> outbox[i].status]

(* Whatever was or will be handled between a command and another copy of   *)
(* it, or while it is open, is near to it.                                 *)
RecentOK ==
    /\ \A i, j \in 1 .. Len(processed) :
          i < j /\ processed[i].c \in Unanswered => Near(processed[j].c, processed[i].c)
    /\ \A i \in 1 .. Len(processed), b \in 1 .. Len(inbox) :
          Waits(b) /\ inbox[b].c = processed[i].c =>
             /\ \A j \in 1 .. Len(processed) : i < j => Near(processed[j].c, processed[i].c)
             /\ Active => Near(job.c, processed[i].c)
             /\ \A k \in 1 .. Len(inbox) :
                   k < b /\ Waits(k) => Near(inbox[k].c, processed[i].c)
    /\ \A a, k, b \in 1 .. Len(inbox) :
          a < k /\ k < b /\ Waits(a) /\ Waits(k) /\ Waits(b) /\ inbox[a].c = inbox[b].c
          => Near(inbox[k].c, inbox[b].c)
    /\ Active => \A k, b \in 1 .. Len(inbox) :
          k < b /\ Waits(k) /\ Waits(b) /\ inbox[b].c = job.c => Near(inbox[k].c, job.c)

Inv == TypeOK /\ CloudOK /\ HelloOK /\ OutcomeOK /\ RecentOK
-----------------------------------------------------------------------------
(* The memory of outcomes. *)

LEMMA Halves ==
    ASSUME NEW n \in Nat
    PROVE  n \div 2 \in Nat /\ (n = 2 * (n \div 2) \/ n = 2 * (n \div 2) + 1)
OBVIOUS

LEMMA Injected ==
    ASSUME NEW S, NEW T, NEW f \in [S -> T], IsFiniteSet(S), IsFiniteSet(T),
           \A x, y \in S : f[x] = f[y] => x = y
    PROVE  ~(Cardinality(T) < Cardinality(S))
BY FS_PigeonHole

(* No more than n numbers are nearer to d than half of n.                  *)
LEMMA TooMany ==
    ASSUME NEW n \in Nat \ {0}, NEW d \in Nat, NEW e \in [1 .. n + 1 -> Nat],
           \A i, j \in 1 .. n + 1 : e[i] = e[j] => i = j,
           \A i \in 1 .. n + 1 : 2 * (e[i] - d) < n /\ 2 * (d - e[i]) < n
    PROVE  FALSE
<1>1. PICK k \in Nat : n = 2 * k + 1 \/ n = 2 * k + 2
  <2> DEFINE m == n - 1
  <2>1. m \in Nat /\ n = m + 1
    OBVIOUS
  <2> HIDE DEF m
  <2>2. PICK k \in Nat : m = 2 * k \/ m = 2 * k + 1
    BY <2>1, Halves
  <2>3. n = 2 * k + 1 \/ n = 2 * k + 2
    BY <2>1, <2>2
  <2>4. QED
    BY <2>3
<1> DEFINE T == (d - k) .. (d + k)
           S == 1 .. n + 1
<1>2. IsFiniteSet(T) /\ Cardinality(T) = 2 * k + 1
  <2>1. d - k \in Int /\ d + k \in Int /\ ~(d - k > d + k)
    OBVIOUS
  <2>2. Cardinality(T) = (d + k) - (d - k) + 1 /\ IsFiniteSet(T)
    BY <2>1, FS_Interval
  <2>3. QED
    BY <2>2
<1>3. IsFiniteSet(S) /\ Cardinality(S) = n + 1
  <2>1. Cardinality(S) = (n + 1) - 1 + 1 /\ IsFiniteSet(S)
    BY FS_Interval
  <2>2. QED
    BY <2>1
<1>4. \A i \in S : e[i] \in T
  <2> SUFFICES ASSUME NEW i \in S PROVE e[i] \in T
    OBVIOUS
  <2> DEFINE y == e[i]
  <2>1. y \in Nat /\ 2 * (y - d) < n /\ 2 * (d - y) < n
    OBVIOUS
  <2> HIDE DEF y
  <2>2. d - k <= y /\ y <= d + k
    <3>1. CASE n = 2 * k + 1
      BY <2>1, <3>1
    <3>2. CASE n = 2 * k + 2
      BY <2>1, <3>2
    <3>3. QED
      BY <1>1, <3>1, <3>2
  <2>3. y \in T
    BY <2>1, <2>2
  <2>4. QED
    BY <2>3 DEF y
<1>5. e \in [S -> T]
  BY <1>4
<1>6. Cardinality(T) < Cardinality(S)
  BY <1>1, <1>2, <1>3
<1>7. \A x, y \in S : e[x] = e[y] => x = y
  OBVIOUS
<1> HIDE DEF S, T
<1>8. QED
  BY <1>2, <1>3, <1>5, <1>6, <1>7, Injected

LEMMA InMemory ==
    ASSUME TypeOK, NEW c
    PROVE  Remembered(c) <=> \E i \in 1 .. Len(processed) : processed[i].c = c
BY DEF TypeOK, Remembered

LEMMA OutcomeIs ==
    ASSUME TypeOK, OutcomeOK, NEW i \in 1 .. Len(processed)
    PROVE  Outcome(processed[i].c) = processed[i].status
<1>1. DOMAIN processed = 1 .. Len(processed)
  BY DEF TypeOK
<1>2. \A j \in DOMAIN processed : processed[j].c = processed[i].c => j = i
  BY <1>1 DEF OutcomeOK
<1>3. (CHOOSE j \in DOMAIN processed : processed[j].c = processed[i].c) = i
  BY <1>1, <1>2
<1>4. QED
  BY <1>3 DEF Outcome

LEMMA ActiveIsOpen ==
    ASSUME Inv, Active
    PROVE  job.c \in Unanswered
BY DEF Inv, CloudOK, OutcomeOK, Unanswered, Active

LEMMA Numbers ==
    ASSUME Inv
    PROVE  /\ \A i \in 1 .. Len(processed) : processed[i] \in Entries /\ processed[i].c \in Nat
           /\ \A b \in 1 .. Len(inbox) : inbox[b] \in Inbound /\ inbox[b].c \in Nat
           /\ job.c \in Nat
           /\ PROCESSED_HISTORY \in Nat \ {0}
<1>1. /\ processed \in Seq(Entries) /\ inbox \in Seq(Inbound)
      /\ job.c \in CommandIds \cup {0}
  BY DEF Inv, TypeOK
<1>2. \A i \in 1 .. Len(processed) : processed[i] \in Entries
  BY <1>1
<1>3. \A b \in 1 .. Len(inbox) : inbox[b] \in Inbound
  BY <1>1
<1>4. CommandIds \cup {0} \subseteq Nat /\ PROCESSED_HISTORY \in Nat \ {0}
  BY SessionAssumption
<1>5. \A i \in 1 .. Len(processed) : processed[i].c \in Nat
  BY <1>2, <1>4 DEF Entries
<1>6. \A b \in 1 .. Len(inbox) : inbox[b].c \in Nat
  <2>1. \A m \in Inbound : m.c \in CommandIds \cup {0}
    BY DEF Inbound
  <2>2. QED
    BY <1>3, <1>4, <2>1
<1>7. QED
  BY <1>1, <1>2, <1>3, <1>4, <1>5, <1>6

(* When the memory is full, the oldest of it has been heard and is not on  *)
(* its way to the device again: it would be near to all the others and to  *)
(* the command that is being handled.                                      *)
LEMMA OldestIsOver ==
    ASSUME Inv, Active, Len(processed) = PROCESSED_HISTORY
    PROVE  /\ processed[1].c \notin Unanswered
           /\ \A b \in 1 .. Len(inbox) : Waits(b) => inbox[b].c # processed[1].c
<1> DEFINE n == PROCESSED_HISTORY
           d == processed[1].c
<1> SUFFICES ASSUME \/ d \in Unanswered
                    \/ \E b \in 1 .. Len(inbox) : Waits(b) /\ inbox[b].c = d
             PROVE  FALSE
  OBVIOUS
<1>1. n \in Nat \ {0} /\ 1 \in 1 .. n /\ d \in Nat
  BY Numbers
<1>2. \A j \in 1 .. n : 1 < j => Near(processed[j].c, d)
  BY <1>1 DEF Inv, RecentOK
<1>3. Near(job.c, d)
  <2>1. CASE d \in Unanswered
    BY <2>1, ActiveIsOpen DEF Inv, CloudOK
  <2>2. CASE \E b \in 1 .. Len(inbox) : Waits(b) /\ inbox[b].c = d
    BY <1>1, <2>2 DEF Inv, RecentOK
  <2>3. QED
    BY <2>1, <2>2
<1>4. Near(d, d)
  BY <1>1 DEF Near
<1> DEFINE e == [i \in 1 .. n + 1 |-> IF i <= n THEN processed[i].c ELSE job.c]
<1>5. e \in [1 .. n + 1 -> Nat]
  BY <1>1, Numbers
<1>6. \A i \in 1 .. n + 1 : Near(e[i], d)
  <2> SUFFICES ASSUME NEW i \in 1 .. n + 1 PROVE Near(e[i], d)
    OBVIOUS
  <2>1. CASE i = 1
    BY <1>1, <1>4, <2>1
  <2>2. CASE i \in 1 .. n /\ 1 < i
    BY <1>2, <2>2
  <2>3. CASE i = n + 1
    BY <1>1, <1>3, <2>3
  <2>4. QED
    BY <1>1, <2>1, <2>2, <2>3
<1>7. \A i, j \in 1 .. n + 1 : e[i] = e[j] => i = j
  <2>1. \A i \in 1 .. n : processed[i].c # job.c
    BY InMemory DEF Inv, OutcomeOK
  <2>2. \A i, j \in 1 .. n : processed[i].c = processed[j].c => i = j
    BY DEF Inv, OutcomeOK
  <2>3. \A i \in 1 .. n + 1 : IF i <= n THEN i \in 1 .. n /\ e[i] = processed[i].c
                                        ELSE i = n + 1 /\ e[i] = job.c
    BY <1>1
  <2> HIDE DEF e
  <2>4. QED
    BY <2>1, <2>2, <2>3
<1>8. \A i \in 1 .. n + 1 : 2 * (e[i] - d) < n /\ 2 * (d - e[i]) < n
  BY <1>6 DEF Near
<1> HIDE DEF e
<1>9. QED
  BY <1>1, <1>5, <1>7, <1>8, TooMany

(* _remember() moves the memory by one place when it is full, or not.      *)
Moves(s, entry) ==
    /\ Len(processed') = Len(processed) + 1 - s
    /\ \A i \in 1 .. Len(processed') :
          IF i + s <= Len(processed) THEN i + s \in 1 .. Len(processed)
                                          /\ processed'[i] = processed[i + s]
          ELSE i + s = Len(processed) + 1 /\ processed'[i] = entry
    /\ s = 1 => /\ 1 \in 1 .. Len(processed)
                /\ processed[1].c \notin Unanswered
                /\ \A b \in 1 .. Len(inbox) : Waits(b) => inbox[b].c # processed[1].c

LEMMA RememberMoves ==
    ASSUME Inv, Active, NEW status \in Outcomes, Remember(status)
    PROVE  /\ processed' \in Seq(Entries) /\ Len(processed') <= PROCESSED_HISTORY
           /\ \E s \in {0, 1} : Moves(s, [c |-> job.c, status |-> status])
<1> DEFINE new == [c |-> job.c, status |-> status]
           kept == Append(processed, new)
<1>1. /\ processed \in Seq(Entries) /\ PROCESSED_HISTORY \in Nat \ {0}
      /\ Len(processed) <= PROCESSED_HISTORY
      /\ new \in Entries
  <2>1. job.c \in CommandIds
    BY DEF Inv, TypeOK, CloudOK, Active
  <2>2. QED
    BY <2>1, Numbers DEF Inv, TypeOK, OutcomeOK, Entries
<1>2. /\ kept \in Seq(Entries) /\ Len(kept) = Len(processed) + 1
      /\ \A i \in 1 .. Len(processed) : kept[i] = processed[i]
      /\ kept[Len(processed) + 1] = new
  BY <1>1
<1>3. CASE Len(kept) > PROCESSED_HISTORY
  <2>1. Len(processed) = PROCESSED_HISTORY
    BY <1>1, <1>2, <1>3
  <2>2. processed' = Tail(kept)
    BY <1>3 DEF Remember
  <2>3. /\ processed' \in Seq(Entries) /\ Len(processed') = Len(processed)
        /\ \A i \in 1 .. Len(processed') : processed'[i] = kept[i + 1]
    <3> HIDE DEF kept
    <3>1. kept # <<>>
      BY <1>1, <1>2
    <3>2. QED
      BY <1>1, <1>2, <2>2, <3>1
  <2>4. 1 \in 1 .. Len(processed)
    BY <1>1, <2>1
  <2>5. Moves(1, new)
    <3> HIDE DEF kept, new
    <3>1. \A i \in 1 .. Len(processed') :
             IF i + 1 <= Len(processed) THEN i + 1 \in 1 .. Len(processed)
                                             /\ processed'[i] = processed[i + 1]
             ELSE i + 1 = Len(processed) + 1 /\ processed'[i] = new
      BY <1>1, <1>2, <2>3
    <3>2. Len(processed') = Len(processed) + 1 - 1
      BY <1>1, <2>3
    <3>3. QED
      BY <2>1, <2>4, <3>1, <3>2, OldestIsOver DEF Moves
  <2>6. Len(processed') <= PROCESSED_HISTORY
    BY <2>1, <2>3
  <2>7. QED
    BY <2>3, <2>5, <2>6
<1>4. CASE ~(Len(kept) > PROCESSED_HISTORY)
  <2>1. processed' = kept
    BY <1>4 DEF Remember
  <2>2. Moves(0, new)
    <3> HIDE DEF kept, new
    <3>1. \A i \in 1 .. Len(processed') :
             IF i + 0 <= Len(processed) THEN i + 0 \in 1 .. Len(processed)
                                             /\ processed'[i] = processed[i + 0]
             ELSE i + 0 = Len(processed) + 1 /\ processed'[i] = new
      BY <1>1, <1>2, <2>1
    <3>2. Len(processed') = Len(processed) + 1 - 0
      BY <1>1, <1>2, <2>1
    <3>3. QED
      BY <3>1, <3>2 DEF Moves
  <2>3. QED
    BY <1>1, <1>2, <1>4, <2>1, <2>2
<1>5. QED
  BY <1>3, <1>4
-----------------------------------------------------------------------------
(* The connection. *)

LEMMA NothingUnderWay ==
    /\ <<>> \in Seq(Inbound) /\ <<>> \in Seq(Outbound) /\ <<>> \in Seq(Entries)
    /\ Len(<<>>) = 0 /\ 1 .. 0 = {}
OBVIOUS

(* A connection is gone, and what was on it.                               *)
LEMMA EmptiedKeeps ==
    ASSUME Inv, UNCHANGED <<queued, heard, processed, acted>>,
           inbox' = <<>>, outbox' = <<>>,
           job' = Idle \/ (job' = job /\ link' # "down")
    PROVE  Inv'
<1>1. TypeOK'
  <2>1. job' \in [pc : {"idle", "replay", "ack", "begin", "write", "result"},
                 c : CommandIds \cup {0}, late : BOOLEAN]
    <3>1. Idle \in [pc : {"idle", "replay", "ack", "begin", "write", "result"},
                    c : CommandIds \cup {0}, late : BOOLEAN]
      BY DEF Idle
    <3>2. QED
      BY <3>1 DEF Inv, TypeOK
  <2>2. QED
    BY <2>1, NothingUnderWay DEF Inv, TypeOK
<1>2. \A c : Remembered(c)' <=> Remembered(c)
  BY DEF Remembered
<1>3. CloudOK'
  BY NothingUnderWay DEF Inv, CloudOK, Unanswered, Idle, Near
<1>4. HelloOK'
  BY NothingUnderWay DEF HelloOK
<1>5. Active' => Active /\ job' = job
  BY DEF Active, Idle
<1>6. OutcomeOK'
  BY <1>2, <1>5, NothingUnderWay DEF Inv, OutcomeOK, Idle, Active, Remembered
<1>7. RecentOK'
  BY NothingUnderWay DEF Inv, RecentOK, Unanswered, Near
<1>8. QED
  BY <1>1, <1>3, <1>4, <1>6, <1>7 DEF Inv

LEMMA OpenSessionKeeps ==
    ASSUME Inv, OpenSession
    PROVE  Inv'
<1>1. /\ UNCHANGED <<queued, heard, processed, acted, job, inbox>>
      /\ inbox = <<>> /\ link' = "up" /\ outbox' = <<Hello>>
  BY DEF OpenSession, cloudVars, Inv, TypeOK
<1>2. /\ outbox' \in Seq(Outbound) /\ Len(outbox') = 1 /\ outbox'[1] = Hello
      /\ 1 .. Len(outbox') = {1}
  BY <1>1 DEF Outbound, Hello
<1>3. \A c : Remembered(c)' <=> Remembered(c)
  BY <1>1 DEF Remembered
<1>4. TypeOK'
  BY <1>1, <1>2 DEF Inv, TypeOK, Idle
<1>5. CloudOK'
  BY <1>1, <1>2, NothingUnderWay DEF Inv, CloudOK, Unanswered, Near, Hello
<1>6. HelloOK'
  BY <1>1, <1>2, NothingUnderWay DEF HelloOK
<1>7. OutcomeOK'
  BY <1>1, <1>2, <1>3, NothingUnderWay DEF Inv, OutcomeOK, Active, Remembered, Hello
<1>8. RecentOK'
  BY <1>1, NothingUnderWay DEF Inv, RecentOK, Unanswered, Near
<1>9. QED
  BY <1>4, <1>5, <1>6, <1>7, <1>8 DEF Inv

(* The first message is taken off the connection.                          *)
LEMMA ShorterInbox ==
    ASSUME Inv, inbox # <<>>, inbox' = Tail(inbox)
    PROVE  /\ inbox' \in Seq(Inbound) /\ 1 \in 1 .. Len(inbox) /\ Head(inbox) = inbox[1]
           /\ \A b \in 1 .. Len(inbox') :
                 b + 1 \in 1 .. Len(inbox) /\ inbox'[b] = inbox[b + 1]
           /\ \A b \in 1 .. Len(inbox') : Waits(b)' => Waits(b + 1)
<1>1. inbox \in Seq(Inbound)
  BY DEF Inv, TypeOK
<1>2. /\ inbox' \in Seq(Inbound) /\ 1 \in 1 .. Len(inbox) /\ Head(inbox) = inbox[1]
      /\ \A b \in 1 .. Len(inbox') :
            b + 1 \in 1 .. Len(inbox) /\ inbox'[b] = inbox[b + 1]
  BY <1>1
<1>3. QED
  BY <1>2 DEF Waits

LEMMA TakeHelloAckKeeps ==
    ASSUME Inv, TakeHelloAck
    PROVE  Inv'
<1>1. /\ UNCHANGED <<queued, heard, processed, acted, job, link, outbox>>
      /\ inbox # <<>> /\ inbox' = Tail(inbox)
  BY DEF TakeHelloAck, cloudVars
<1>2. /\ inbox' \in Seq(Inbound)
      /\ \A b \in 1 .. Len(inbox') :
            b + 1 \in 1 .. Len(inbox) /\ inbox'[b] = inbox[b + 1]
      /\ \A b \in 1 .. Len(inbox') : Waits(b)' => Waits(b + 1)
  BY <1>1, ShorterInbox
<1>3. \A c : Remembered(c)' <=> Remembered(c)
  BY <1>1 DEF Remembered
<1>4. TypeOK'
  BY <1>1, <1>2 DEF Inv, TypeOK
<1>5. CloudOK'
  BY <1>1, <1>2 DEF Inv, CloudOK, Unanswered, Near
<1>6. HelloOK'
  BY <1>1, <1>2 DEF Inv, HelloOK, Unanswered
<1>7. OutcomeOK'
  <2>1. Active' => ~Remembered(job.c)' /\ heard'[job'.c] = NotYet /\ job'.c \notin acted'
    BY <1>1, <1>3 DEF Inv, OutcomeOK, Active
  <2>2. job'.pc \in {"replay", "result"} => Remembered(job.c)'
    BY <1>1, <1>3 DEF Inv, OutcomeOK
  <2>3. \A b \in 1 .. Len(inbox') : Waits(b)' =>
          \/ Remembered(inbox[b].c)'
          \/ heard'[inbox'[b].c] = NotYet /\ inbox'[b].c \notin acted'
    BY <1>1, <1>2, <1>3 DEF Inv, OutcomeOK
  <2>4. \A c \in acted' : Remembered(c)' \/ heard'[c] # NotYet
    BY <1>1, <1>3 DEF Inv, OutcomeOK
  <2>5. QED
    BY <1>1, <2>1, <2>2, <2>3, <2>4 DEF Inv, OutcomeOK
<1>8. RecentOK'
  <2>1. Active' <=> Active
    BY <1>1 DEF Active
  <2>2. \A a, b \in 1 .. Len(inbox') : a < b <=> a + 1 < b + 1
    OBVIOUS
  <2>3. \A x, y : Near(x, y)' <=> Near(x, y)
    BY DEF Near
  <2>4. \A i, j \in 1 .. Len(processed) :
          i < j /\ processed[i].c \in Unanswered' => Near(processed[j].c, processed[i].c)
    BY <1>1 DEF Inv, RecentOK, Unanswered
  <2>5. ASSUME NEW i \in 1 .. Len(processed), NEW b \in 1 .. Len(inbox'),
               Waits(b)', inbox'[b].c = processed[i].c
        PROVE  /\ \A j \in 1 .. Len(processed) : i < j => Near(processed[j].c, processed[i].c)
               /\ Active => Near(job.c, processed[i].c)
               /\ \A k \in 1 .. Len(inbox') :
                     k < b /\ Waits(k)' => Near(inbox'[k].c, processed[i].c)
    BY <1>2, <2>2, <2>5 DEF Inv, RecentOK
  <2>6. ASSUME NEW a \in 1 .. Len(inbox'), NEW k \in 1 .. Len(inbox'),
               NEW b \in 1 .. Len(inbox'), a < k, k < b, Waits(a)', Waits(k)', Waits(b)',
               inbox'[a].c = inbox'[b].c
        PROVE  Near(inbox'[k].c, inbox'[b].c)
    <3>1. /\ {a + 1, k + 1, b + 1} \subseteq 1 .. Len(inbox)
          /\ Waits(a + 1) /\ Waits(k + 1) /\ Waits(b + 1)
          /\ inbox[a + 1] = inbox'[a] /\ inbox[k + 1] = inbox'[k] /\ inbox[b + 1] = inbox'[b]
          /\ a + 1 < k + 1 /\ k + 1 < b + 1
      BY <1>2, <2>6
    <3>2. QED
      BY <2>6, <3>1 DEF Inv, RecentOK
  <2>7. Active => \A k, b \in 1 .. Len(inbox') :
          k < b /\ Waits(k)' /\ Waits(b)' /\ inbox'[b].c = job.c => Near(inbox'[k].c, job.c)
    BY <1>2, <2>2 DEF Inv, RecentOK
  <2>8. \A i \in 1 .. Len(processed'), b \in 1 .. Len(inbox') :
          Waits(b)' /\ inbox'[b].c = processed'[i].c =>
             /\ \A j \in 1 .. Len(processed') :
                   i < j => Near(processed'[j].c, processed'[i].c)
             /\ Active' => Near(job'.c, processed'[i].c)
             /\ \A k \in 1 .. Len(inbox') :
                   k < b /\ Waits(k)' => Near(inbox'[k].c, processed'[i].c)
    BY <1>1, <2>1, <2>5
  <2>9. \A i, j \in 1 .. Len(processed') :
          i < j /\ processed'[i].c \in Unanswered' => Near(processed'[j].c, processed'[i].c)
    BY <1>1, <2>4
  <2>10. \A a, k, b \in 1 .. Len(inbox') :
           a < k /\ k < b /\ Waits(a)' /\ Waits(k)' /\ Waits(b)' /\ inbox'[a].c = inbox'[b].c
           => Near(inbox'[k].c, inbox'[b].c)
    BY <2>6
  <2>11. Active' => \A k, b \in 1 .. Len(inbox') :
           k < b /\ Waits(k)' /\ Waits(b)' /\ inbox'[b].c = job'.c => Near(inbox'[k].c, job'.c)
    BY <1>1, <2>1, <2>7
  <2>12. QED
    BY <2>8, <2>9, <2>10, <2>11 DEF RecentOK, Near
<1>9. QED
  BY <1>4, <1>5, <1>6, <1>7, <1>8 DEF Inv

LEMMA TakeCommandKeeps ==
    ASSUME Inv, TakeCommand
    PROVE  Inv'
<1> DEFINE c == Head(inbox).c
<1>1. /\ UNCHANGED <<queued, heard, processed, acted, link, outbox>>
      /\ inbox # <<>> /\ inbox' = Tail(inbox) /\ Head(inbox).type = "execute"
      /\ job' = [pc |-> IF Previous(c) THEN "replay" ELSE "ack",
                 c |-> c, late |-> Head(inbox).late]
  BY DEF TakeCommand, cloudVars
<1>2. /\ inbox' \in Seq(Inbound)
      /\ \A b \in 1 .. Len(inbox') :
            b + 1 \in 1 .. Len(inbox) /\ inbox'[b] = inbox[b + 1]
      /\ \A b \in 1 .. Len(inbox') : Waits(b)' => Waits(b + 1)
      /\ 1 \in 1 .. Len(inbox) /\ Head(inbox) = inbox[1]
  BY <1>1, ShorterInbox
<1>3. \A d : Remembered(d)' <=> Remembered(d)
  BY <1>1 DEF Remembered
<1>4. Waits(1) /\ c = inbox[1].c /\ Head(inbox) \in Inbound
  BY <1>1, <1>2, Numbers DEF Waits
<1>5. job'.pc = (IF Remembered(c) THEN "replay" ELSE "ack") /\ job'.c = c
  BY <1>1 DEF Previous
<1>6. Active' <=> ~Remembered(c)
  BY <1>5 DEF Active
<1>7. TypeOK'
  BY <1>1, <1>2, <1>4 DEF Inv, TypeOK, Inbound
<1>8. CloudOK'
  <2>1. c \in queued
    BY <1>2, <1>4 DEF Inv, CloudOK
  <2>2. QED
    BY <1>1, <1>2, <1>5, <2>1 DEF Inv, CloudOK, Unanswered, Near
<1>9. HelloOK'
  BY <1>1, <1>2 DEF Inv, HelloOK, Unanswered
<1>10. OutcomeOK'
  <2>1. Remembered(c) \/ (heard[c] = NotYet /\ c \notin acted)
    <3>1. Remembered(inbox[1].c) \/ (heard[inbox[1].c] = NotYet /\ inbox[1].c \notin acted)
      <4>1. \A b \in 1 .. Len(inbox) : Waits(b) =>
               Remembered(inbox[b].c) \/ (heard[inbox[b].c] = NotYet /\ inbox[b].c \notin acted)
        BY DEF Inv, OutcomeOK
      <4>2. 1 \in 1 .. Len(inbox) /\ Waits(1)
        BY <1>2, <1>4
      <4>3. QED
        BY <4>1, <4>2, Zenon
    <3>2. QED
      BY <1>4, <3>1
  <2>2. Active' => ~Remembered(job.c)' /\ heard'[job'.c] = NotYet /\ job'.c \notin acted'
    BY <1>1, <1>3, <1>5, <1>6, <2>1
  <2>3. job'.pc \in {"replay", "result"} => Remembered(job.c)'
    BY <1>3, <1>5
  <2>4. \A b \in 1 .. Len(inbox') : Waits(b)' =>
          \/ Remembered(inbox[b].c)'
          \/ heard'[inbox'[b].c] = NotYet /\ inbox'[b].c \notin acted'
    BY <1>1, <1>2, <1>3 DEF Inv, OutcomeOK
  <2>5. \A d \in acted' : Remembered(d)' \/ heard'[d] # NotYet
    BY <1>1, <1>3 DEF Inv, OutcomeOK
  <2>6. QED
    BY <1>1, <2>2, <2>3, <2>4, <2>5 DEF Inv, OutcomeOK, Remembered
<1>11. RecentOK'
  <2>1. \A a, b \in 1 .. Len(inbox') : (a < b <=> a + 1 < b + 1) /\ 1 < a + 1
    OBVIOUS
  <2>2. \A x, y : Near(x, y)' <=> Near(x, y)
    BY DEF Near
  <2>3. \A i, j \in 1 .. Len(processed) :
          i < j /\ processed[i].c \in Unanswered' => Near(processed[j].c, processed[i].c)
    BY <1>1 DEF Inv, RecentOK, Unanswered
  <2>4. ASSUME NEW i \in 1 .. Len(processed), NEW b \in 1 .. Len(inbox'),
               Waits(b)', inbox'[b].c = processed[i].c
        PROVE  /\ \A j \in 1 .. Len(processed) : i < j => Near(processed[j].c, processed[i].c)
               /\ Active' => Near(job'.c, processed[i].c)
               /\ \A k \in 1 .. Len(inbox') :
                     k < b /\ Waits(k)' => Near(inbox'[k].c, processed[i].c)
    <3>1. b + 1 \in 1 .. Len(inbox) /\ Waits(b + 1) /\ inbox[b + 1].c = processed[i].c
      BY <1>2, <2>4
    <3>2. Near(c, processed[i].c)
      BY <1>2, <1>4, <2>1, <3>1 DEF Inv, RecentOK
    <3>3. QED
      BY <1>2, <1>5, <2>1, <3>1, <3>2 DEF Inv, RecentOK
  <2>5. ASSUME NEW a \in 1 .. Len(inbox'), NEW k \in 1 .. Len(inbox'),
               NEW b \in 1 .. Len(inbox'), a < k, k < b, Waits(a)', Waits(k)', Waits(b)',
               inbox'[a].c = inbox'[b].c
        PROVE  Near(inbox'[k].c, inbox'[b].c)
    <3>1. /\ {a + 1, k + 1, b + 1} \subseteq 1 .. Len(inbox)
          /\ Waits(a + 1) /\ Waits(k + 1) /\ Waits(b + 1)
          /\ inbox[a + 1] = inbox'[a] /\ inbox[k + 1] = inbox'[k] /\ inbox[b + 1] = inbox'[b]
          /\ a + 1 < k + 1 /\ k + 1 < b + 1
      BY <1>2, <2>5
    <3>2. QED
      BY <2>5, <3>1 DEF Inv, RecentOK
  <2>6. \A k, b \in 1 .. Len(inbox') :
          k < b /\ Waits(k)' /\ Waits(b)' /\ inbox'[b].c = c => Near(inbox'[k].c, c)
    BY <1>2, <1>4, <2>1 DEF Inv, RecentOK
  <2>7. QED
    BY <1>1, <1>5, <2>2, <2>3, <2>4, <2>5, <2>6 DEF RecentOK
<1>12. QED
  BY <1>7, <1>8, <1>9, <1>10, <1>11 DEF Inv

(* A message of the device goes out.                                       *)
LEMMA SendKeeps ==
    ASSUME Inv, NEW m \in Outbound, NEW next, Send(m, next), m.type # "hello",
           job.pc # "idle",
           next \in [pc : {"idle", "replay", "ack", "begin", "write", "result"},
                     c : CommandIds \cup {0}, late : BOOLEAN],
           \/ next = Idle
           \/ next.c = job.c /\ \/ Active /\ next.pc = "begin"
                                \/ job.pc = "replay" /\ next.pc = "result",
           m.type = "result" => /\ m.c = job.c
                                /\ \E j \in 1 .. Len(processed) :
                                      processed[j] = [c |-> m.c, status |-> m.status]
    PROVE  Inv'
<1>1. UNCHANGED <<queued, heard, processed, acted>>
  BY DEF Send, cloudVars
<1>2. CASE link = "dead"
  <2>1. inbox' = <<>> /\ outbox' = <<>> /\ job' = Idle
    BY <1>2 DEF Send, EndSession
  <2>2. QED
    BY <1>1, <2>1, EmptiedKeeps
<1>3. CASE link # "dead"
  <2>1. UNCHANGED <<link, inbox>> /\ job' = next /\ outbox' = Append(outbox, m)
    BY <1>3 DEF Send
  <2>2. outbox \in Seq(Outbound) /\ job.c \in queued
    BY DEF Inv, TypeOK, CloudOK
  <2>3. /\ outbox' \in Seq(Outbound) /\ outbox' # <<>> /\ Len(outbox') = Len(outbox) + 1
        /\ \A i \in 1 .. Len(outbox) : outbox'[i] = outbox[i]
        /\ outbox'[Len(outbox) + 1] = m
        /\ \A i \in 1 .. Len(outbox') : i \in 1 .. Len(outbox) \/ i = Len(outbox) + 1
    BY <2>1, <2>2
  <2>4. \A c : Remembered(c)' <=> Remembered(c)
    BY <1>1 DEF Remembered
  <2>5. Active' => Active /\ job'.c = job.c
    BY <2>1 DEF Active, Idle
  <2>6. TypeOK'
    <3>1. link # "down"
      BY DEF Inv, TypeOK, Idle
    <3>2. QED
      BY <1>1, <2>1, <2>3, <3>1 DEF Inv, TypeOK
  <2>7. CloudOK'
    <3>1. \A i \in 1 .. Len(outbox') : outbox'[i].type = "result" => outbox'[i].c \in queued
      BY <2>2, <2>3 DEF Inv, CloudOK
    <3>2. job'.pc # "idle" => job'.c \in queued
      BY <2>1, <2>2 DEF Idle
    <3>3. QED
      BY <1>1, <2>1, <3>1, <3>2 DEF Inv, CloudOK, Unanswered, Near, Waits
  <2>8. HelloOK'
    <3>1. \A i \in 1 .. Len(outbox') : outbox'[i].type = "hello" => i = 1
      BY <2>3 DEF Inv, HelloOK
    <3>2. outbox'[1].type = "hello" => outbox # <<>> /\ outbox[1].type = "hello"
      BY <2>2, <2>3
    <3>3. QED
      BY <1>1, <2>1, <3>1, <3>2 DEF Inv, HelloOK, Unanswered, Waits
  <2>9. OutcomeOK'
    <3>1. Active' => ~Remembered(job.c)' /\ heard'[job'.c] = NotYet /\ job'.c \notin acted'
      BY <1>1, <2>4, <2>5 DEF Inv, OutcomeOK
    <3>2. job'.pc \in {"replay", "result"} => Remembered(job.c)'
      BY <2>1, <2>4 DEF Inv, OutcomeOK, Idle
    <3>3. \A i \in 1 .. Len(outbox') : outbox'[i].type = "result" =>
            \/ heard[outbox'[i].c] # NotYet
            \/ \E j \in 1 .. Len(processed) :
                  processed[j] = [c |-> outbox'[i].c, status |-> outbox'[i].status]
      BY <2>3 DEF Inv, OutcomeOK
    <3>4. \A b \in 1 .. Len(inbox') : Waits(b)' =>
            \/ Remembered(inbox[b].c)'
            \/ heard'[inbox'[b].c] = NotYet /\ inbox'[b].c \notin acted'
      BY <1>1, <2>1, <2>4 DEF Inv, OutcomeOK, Waits
    <3>5. \A c \in acted' : Remembered(c)' \/ heard'[c] # NotYet
      BY <1>1, <2>4 DEF Inv, OutcomeOK
    <3>6. QED
      BY <1>1, <3>1, <3>2, <3>3, <3>4, <3>5 DEF Inv, OutcomeOK
  <2>10. RecentOK'
    <3>1. \A b : Waits(b)' <=> Waits(b)
      BY <2>1 DEF Waits
    <3>2. \A i, j \in 1 .. Len(processed) :
            i < j /\ processed[i].c \in Unanswered' => Near(processed[j].c, processed[i].c)
      BY <1>1 DEF Inv, RecentOK, Unanswered
    <3>3. \A i \in 1 .. Len(processed), b \in 1 .. Len(inbox) :
            Waits(b) /\ inbox[b].c = processed[i].c =>
               /\ \A j \in 1 .. Len(processed) : i < j => Near(processed[j].c, processed[i].c)
               /\ Active' => Near(job'.c, processed[i].c)
               /\ \A k \in 1 .. Len(inbox) :
                     k < b /\ Waits(k) => Near(inbox[k].c, processed[i].c)
      BY <2>5 DEF Inv, RecentOK
    <3>4. Active' => \A k, b \in 1 .. Len(inbox) :
            k < b /\ Waits(k) /\ Waits(b) /\ inbox[b].c = job'.c => Near(inbox[k].c, job'.c)
      BY <2>5 DEF Inv, RecentOK
    <3>5. \A a, k, b \in 1 .. Len(inbox) :
            a < k /\ k < b /\ Waits(a) /\ Waits(k) /\ Waits(b) /\ inbox[a].c = inbox[b].c
            => Near(inbox[k].c, inbox[b].c)
      BY DEF Inv, RecentOK
    <3>6. QED
      BY <1>1, <2>1, <3>1, <3>2, <3>3, <3>4, <3>5 DEF RecentOK, Near
  <2>11. QED
    BY <2>6, <2>7, <2>8, <2>9, <2>10 DEF Inv
<1>4. QED
  BY <1>2, <1>3
-----------------------------------------------------------------------------
(* The cloud. *)

LEMMA LinkBreaksKeeps ==
    ASSUME Inv, LinkBreaks
    PROVE  Inv'
<1>1. UNCHANGED <<queued, heard, processed, acted, job>>
      /\ inbox' = <<>> /\ outbox' = <<>> /\ link' # "down"
  BY DEF LinkBreaks, cloudVars, deviceVars
<1>2. QED
  BY <1>1, EmptiedKeeps

(* A new command has a number above all that were queued.                  *)
LEMMA QueueCommandKeeps ==
    ASSUME Inv, NEW c \in CommandIds, QueueCommand(c)
    PROVE  Inv'
<1> DEFINE m == [type |-> "execute", c |-> c, late |-> FALSE]
<1>1. /\ UNCHANGED <<heard, link, outbox, job, processed, acted>>
      /\ c \notin queued /\ queued' = queued \cup {c}
      /\ \A d \in CommandIds : d < c => d \in queued
      /\ \A d \in Unanswered : 2 * (c - d) < PROCESSED_HISTORY
      /\ inbox' = inbox \/ (link = "up" /\ inbox' = Append(inbox, m))
  BY DEF QueueCommand, deviceVars
<1>2. inbox \in Seq(Inbound) /\ m \in Inbound /\ CommandIds \subseteq Nat
      /\ PROCESSED_HISTORY \in Nat \ {0}
  BY SessionAssumption DEF Inv, TypeOK, Inbound
<1>3. /\ inbox' \in Seq(Inbound)
      /\ Len(inbox') = Len(inbox) \/ (link = "up" /\ Len(inbox') = Len(inbox) + 1)
      /\ \A b \in 1 .. Len(inbox) : inbox'[b] = inbox[b] /\ b \in 1 .. Len(inbox')
      /\ \A b \in 1 .. Len(inbox') : \/ b \in 1 .. Len(inbox)
                                     \/ b = Len(inbox) + 1 /\ inbox'[b] = m
  <2>1. CASE inbox' = inbox
    BY <1>2, <2>1
  <2>2. CASE link = "up" /\ inbox' = Append(inbox, m)
    <3> HIDE DEF m
    <3>1. QED
      BY <1>2, <2>2
  <2>3. QED
    BY <1>1, <2>1, <2>2
<1>4. \A d : Remembered(d)' <=> Remembered(d)
  BY <1>1 DEF Remembered
<1>5. heard[c] = NotYet /\ Unanswered' = Unanswered \cup {c}
  BY <1>1 DEF Inv, CloudOK, Unanswered
<1>6. \A b \in 1 .. Len(inbox) : Waits(b)' <=> Waits(b)
  BY <1>3 DEF Waits
<1>7. \A b \in 1 .. Len(inbox) : Waits(b) => inbox[b].c \in queued
  BY DEF Inv, CloudOK
<1>8. TypeOK'
  BY <1>1, <1>2, <1>3 DEF Inv, TypeOK
<1>9. CloudOK'
  <2>1. \A d, e \in Unanswered' : Near(d, e)
    <3>1. \A d, e \in Unanswered : Near(d, e)
      BY DEF Inv, CloudOK
    <3>2. ASSUME NEW d \in Unanswered PROVE Near(c, d) /\ Near(d, c)
      <4>1. d \in queued /\ d \in CommandIds /\ d \in Nat /\ c \in Nat
        BY <1>2 DEF Unanswered, Inv, TypeOK
      <4>2. d < c
        BY <1>1, <4>1 DEF Inv, CloudOK
      <4>3. QED
        BY <1>1, <1>2, <4>1, <4>2 DEF Near
    <3>3. Near(c, c)
      BY <1>2 DEF Near
    <3>4. QED
      BY <1>5, <3>1, <3>2, <3>3
  <2>2. \A d \in queued' : \A e \in CommandIds : e < d => e \in queued'
    BY <1>1 DEF Inv, CloudOK
  <2>3. \A b \in 1 .. Len(inbox') : Waits(b)' => inbox'[b].c \in queued'
    BY <1>1, <1>3, <1>6, <1>7
  <2>4. QED
    BY <1>1, <2>1, <2>2, <2>3 DEF Inv, CloudOK, Near
<1>10. HelloOK'
  BY <1>1, <1>3, <1>5, <1>6 DEF Inv, HelloOK
<1>11. OutcomeOK'
  <2>1. c \notin acted
    BY <1>1 DEF Inv, CloudOK
  <2>2. \A b \in 1 .. Len(inbox') : Waits(b)' =>
          \/ Remembered(inbox[b].c)'
          \/ heard'[inbox'[b].c] = NotYet /\ inbox'[b].c \notin acted'
    BY <1>1, <1>3, <1>4, <1>5, <1>6, <2>1 DEF Inv, OutcomeOK
  <2>3. Active' => ~Remembered(job.c)' /\ heard'[job'.c] = NotYet /\ job'.c \notin acted'
    BY <1>1, <1>4 DEF Inv, OutcomeOK, Active
  <2>4. job'.pc \in {"replay", "result"} => Remembered(job.c)'
    BY <1>1, <1>4 DEF Inv, OutcomeOK
  <2>5. \A d \in acted' : Remembered(d)' \/ heard'[d] # NotYet
    BY <1>1, <1>4 DEF Inv, OutcomeOK
  <2>6. QED
    BY <1>1, <2>2, <2>3, <2>4, <2>5 DEF Inv, OutcomeOK
<1>12. RecentOK'
  <2>1. \A i \in 1 .. Len(processed) : processed[i].c # c
    BY <1>1 DEF Inv, CloudOK
  <2>2. Active => job.c # c
    BY <1>1 DEF Inv, CloudOK, Active
  <2>3. \A b \in 1 .. Len(inbox) : Waits(b) => inbox[b].c # c
    BY <1>1, <1>7
  <2>4. \A i, j \in 1 .. Len(processed) :
          i < j /\ processed[i].c \in Unanswered' => Near(processed[j].c, processed[i].c)
    BY <1>5, <2>1 DEF Inv, RecentOK
  <2>5. ASSUME NEW i \in 1 .. Len(processed), NEW b \in 1 .. Len(inbox'),
               Waits(b)', inbox'[b].c = processed[i].c
        PROVE  /\ \A j \in 1 .. Len(processed) : i < j => Near(processed[j].c, processed[i].c)
               /\ Active => Near(job.c, processed[i].c)
               /\ \A k \in 1 .. Len(inbox') :
                     k < b /\ Waits(k)' => Near(inbox'[k].c, processed[i].c)
    <3>1. b \in 1 .. Len(inbox) /\ Waits(b) /\ inbox[b].c = processed[i].c
      BY <1>3, <1>6, <2>1, <2>5
    <3>2. \A k \in 1 .. Len(inbox') : k < b => k \in 1 .. Len(inbox)
      BY <1>2, <1>3, <3>1
    <3>3. \A k \in 1 .. Len(inbox') :
             k < b /\ Waits(k)' => Near(inbox'[k].c, processed[i].c)
      BY <1>3, <1>6, <3>1, <3>2 DEF Inv, RecentOK
    <3>4. QED
      BY <3>1, <3>3 DEF Inv, RecentOK
  <2>6. ASSUME NEW a \in 1 .. Len(inbox'), NEW k \in 1 .. Len(inbox'),
               NEW b \in 1 .. Len(inbox'), a < k, k < b, Waits(a)', Waits(k)', Waits(b)',
               inbox'[a].c = inbox'[b].c
        PROVE  Near(inbox'[k].c, inbox'[b].c)
    <3>1. a \in 1 .. Len(inbox) /\ k \in 1 .. Len(inbox)
      BY <1>3, <2>6
    <3>2. inbox'[a].c # c
      BY <1>3, <1>6, <2>3, <2>6, <3>1
    <3>3. b \in 1 .. Len(inbox)
      BY <1>3, <2>6, <3>2
    <3>4. QED
      BY <1>3, <1>6, <2>6, <3>1, <3>3 DEF Inv, RecentOK
  <2>7. ASSUME Active, NEW k \in 1 .. Len(inbox'), NEW b \in 1 .. Len(inbox'),
               k < b, Waits(k)', Waits(b)', inbox'[b].c = job.c
        PROVE  Near(inbox'[k].c, job.c)
    <3>1. b \in 1 .. Len(inbox)
      BY <1>3, <2>2, <2>7
    <3>2. k \in 1 .. Len(inbox)
      BY <2>7, <3>1
    <3>3. QED
      BY <1>3, <1>6, <2>7, <3>1, <3>2 DEF Inv, RecentOK
  <2>8. (Active' <=> Active) /\ \A x, y : Near(x, y)' <=> Near(x, y)
    BY <1>1 DEF Active, Near
  <2>9. QED
    BY <1>1, <2>4, <2>5, <2>6, <2>7, <2>8 DEF RecentOK
<1>13. QED
  BY <1>8, <1>9, <1>10, <1>11, <1>12 DEF Inv

LEMMA Joined ==
    ASSUME NEW s \in Seq(Inbound), NEW t \in Seq(Inbound)
    PROVE  /\ s \o t \in Seq(Inbound) /\ Len(s \o t) = Len(s) + Len(t)
           /\ \A b \in 1 .. Len(s) : (s \o t)[b] = s[b]
           /\ \A b \in 1 .. Len(t) : (s \o t)[Len(s) + b] = t[b]
OBVIOUS

LEMMA OpenIsFinite ==
    ASSUME Inv
    PROVE  IsFiniteSet(Unanswered) /\ Cardinality(Unanswered) \in Nat
<1>1. Unanswered \in SUBSET Nat /\ PROCESSED_HISTORY \in Nat
  BY SessionAssumption DEF Inv, TypeOK, Unanswered
<1>2. IsFiniteSet(Unanswered)
  <2>1. CASE Unanswered = {}
    BY <2>1, FS_EmptySet
  <2>2. ASSUME NEW d \in Unanswered PROVE IsFiniteSet(Unanswered)
    <3>1. d + PROCESSED_HISTORY \in Nat
      BY <1>1
    <3>2. \A c \in Unanswered : c <= d + PROCESSED_HISTORY
      BY <1>1 DEF Inv, CloudOK, Near
    <3>3. QED
      BY <1>1, <3>1, <3>2, FS_BoundedSetOfNaturals
  <2>3. QED
    BY <2>1, <2>2
<1>3. QED
  BY <1>2, FS_CardinalityType

(* What the cloud sends again is open, and so is all that came before it.  *)
LEMMA AnswerHelloKeeps ==
    ASSUME Inv, AnswerHello
    PROVE  Inv'
<1>1. /\ UNCHANGED <<queued, heard, link, job, processed, acted>>
      /\ link = "up" /\ outbox # <<>> /\ Head(outbox).type = "hello" /\ outbox' = Tail(outbox)
  BY DEF AnswerHello, cloudVars, deviceVars
<1>2. PICK late \in BOOLEAN, open \in Ordered(Unanswered) :
        inbox' = Append(inbox, HelloAck)
                   \o [i \in DOMAIN open |->
                         [type |-> "execute", c |-> open[i], late |-> late]]
  BY DEF AnswerHello
<1> DEFINE n == Cardinality(Unanswered)
           old == Append(inbox, HelloAck)
           again == [i \in 1 .. n |-> [type |-> "execute", c |-> open[i], late |-> late]]
<1>3. inbox \in Seq(Inbound) /\ HelloAck \in Inbound /\ outbox \in Seq(Outbound)
  BY DEF Inv, TypeOK, Inbound, HelloAck
<1>4. inbox' = old \o again
  <2>1. DOMAIN open = 1 .. n
    BY DEF Ordered
  <2>2. QED
    BY <1>2, <2>1
<1>5. n \in Nat
  BY OpenIsFinite
<1>6. again \in Seq(Inbound) /\ Len(again) = n
      /\ \A i \in 1 .. n : again[i].type = "execute" /\ again[i].c \in Unanswered
  <2>1. \A i \in 1 .. n : open[i] \in Unanswered /\ open[i] \in CommandIds
    BY DEF Ordered, Unanswered, Inv, TypeOK
  <2>2. \A i \in 1 .. n : again[i] \in Inbound
    BY <2>1 DEF Inbound
  <2>3. QED
    BY <1>5, <2>1, <2>2
<1>7. /\ old \in Seq(Inbound) /\ Len(old) = Len(inbox) + 1
      /\ \A b \in 1 .. Len(inbox) : old[b] = inbox[b]
      /\ old[Len(inbox) + 1].type = "hello_ack"
  BY <1>3 DEF HelloAck
<1>8. /\ inbox' \in Seq(Inbound) /\ Len(inbox') = Len(inbox) + 1 + n
      /\ \A b \in 1 .. Len(inbox) : inbox'[b] = inbox[b] /\ b \in 1 .. Len(inbox')
      /\ \A b \in 1 .. Len(inbox') :
            \/ b \in 1 .. Len(inbox)
            \/ b > Len(inbox) /\ (Waits(b)' => inbox'[b].c \in Unanswered)
  <2> HIDE DEF old, again
  <2>1. /\ inbox' \in Seq(Inbound) /\ Len(inbox') = Len(old) + Len(again)
        /\ \A b \in 1 .. Len(old) : inbox'[b] = old[b]
        /\ \A b \in 1 .. Len(again) : inbox'[Len(old) + b] = again[b]
    BY <1>4, <1>6, <1>7, Joined
  <2>2. /\ Len(inbox') = Len(inbox) + 1 + n
        /\ \A b \in 1 .. Len(inbox) : inbox'[b] = inbox[b] /\ b \in 1 .. Len(inbox')
    BY <1>3, <1>5, <1>6, <1>7, <2>1
  <2>3. ASSUME NEW b \in 1 .. Len(inbox'), b \notin 1 .. Len(inbox)
        PROVE  b > Len(inbox) /\ (Waits(b)' => inbox'[b].c \in Unanswered)
    <3>1. b > Len(inbox)
      BY <1>3, <2>2, <2>3
    <3>2. CASE b = Len(inbox) + 1
      <4>1. inbox'[b].type = "hello_ack"
        BY <1>3, <1>7, <2>1, <3>2
      <4>2. QED
        BY <3>1, <4>1 DEF Waits
    <3>3. CASE b # Len(inbox) + 1
      <4>1. PICK i \in 1 .. n : b = Len(old) + i
        <5>1. b - Len(old) \in 1 .. n /\ b = Len(old) + (b - Len(old))
          BY <1>3, <1>5, <1>7, <2>2, <3>1, <3>3
        <5>2. QED
          BY <5>1
      <4>2. inbox'[b] = again[i]
        BY <1>6, <2>1, <4>1
      <4>3. QED
        BY <1>6, <3>1, <4>2
    <3>4. QED
      BY <3>2, <3>3
  <2>4. QED
    BY <2>1, <2>2, <2>3
<1>9. /\ outbox' \in Seq(Outbound)
      /\ \A i \in 1 .. Len(outbox') : i + 1 \in 1 .. Len(outbox) /\ outbox'[i] = outbox[i + 1]
      /\ outbox[1].type = "hello"
  BY <1>1, <1>3
<1>10. \A b \in 1 .. Len(inbox) : (Waits(b)' <=> Waits(b))
                                  /\ (Waits(b) => inbox[b].c \in Unanswered)
  BY <1>1, <1>8, <1>9 DEF Inv, HelloOK, Waits
<1>11. \A b \in 1 .. Len(inbox') : Waits(b)' => inbox'[b].c \in Unanswered
  BY <1>8, <1>10
<1>12. \A d : Remembered(d)' <=> Remembered(d)
  BY <1>1 DEF Remembered
<1>13. /\ \A c, d \in Unanswered : Near(c, d)
       /\ Unanswered' = Unanswered /\ (Active' <=> Active)
       /\ \A x, y : Near(x, y)' <=> Near(x, y)
  BY <1>1 DEF Inv, CloudOK, Unanswered, Active, Near
<1>14. TypeOK'
  BY <1>1, <1>8, <1>9 DEF Inv, TypeOK
<1>15. CloudOK'
  <2>1. \A b \in 1 .. Len(inbox') : Waits(b)' => inbox'[b].c \in queued
    BY <1>11 DEF Unanswered
  <2>2. QED
    BY <1>1, <1>9, <1>13, <2>1 DEF Inv, CloudOK
<1>16. HelloOK'
  <2>1. \A i \in 1 .. Len(outbox') : outbox'[i].type # "hello"
    <3> SUFFICES ASSUME NEW i \in 1 .. Len(outbox'), outbox'[i].type = "hello"
                 PROVE  FALSE
      OBVIOUS
    <3>1. i + 1 = 1
      BY <1>9 DEF Inv, HelloOK
    <3>2. QED
      BY <3>1
  <2>2. outbox' # <<>> => 1 \in 1 .. Len(outbox')
    BY <1>9
  <2>3. QED
    BY <2>1, <2>2 DEF HelloOK
<1>17. OutcomeOK'
  <2>1. \A b \in 1 .. Len(inbox') : Waits(b)' =>
          \/ Remembered(inbox[b].c)'
          \/ heard'[inbox'[b].c] = NotYet /\ inbox'[b].c \notin acted'
    BY <1>1, <1>11, <1>12 DEF Inv, OutcomeOK, Unanswered
  <2>2. Active' => ~Remembered(job.c)' /\ heard'[job'.c] = NotYet /\ job'.c \notin acted'
    BY <1>1, <1>12, <1>13 DEF Inv, OutcomeOK
  <2>3. job'.pc \in {"replay", "result"} => Remembered(job.c)'
    BY <1>1, <1>12 DEF Inv, OutcomeOK
  <2>4. \A d \in acted' : Remembered(d)' \/ heard'[d] # NotYet
    BY <1>1, <1>12 DEF Inv, OutcomeOK
  <2>5. QED
    BY <1>1, <1>9, <2>1, <2>2, <2>3, <2>4 DEF Inv, OutcomeOK
<1>18. RecentOK'
  <2>1. Active => job.c \in Unanswered
    BY ActiveIsOpen
  <2>2. \A i, j \in 1 .. Len(processed) :
          i < j /\ processed[i].c \in Unanswered => Near(processed[j].c, processed[i].c)
    BY DEF Inv, RecentOK
  <2>3. ASSUME NEW i \in 1 .. Len(processed), NEW b \in 1 .. Len(inbox'),
               Waits(b)', inbox'[b].c = processed[i].c
        PROVE  /\ \A j \in 1 .. Len(processed) : i < j => Near(processed[j].c, processed[i].c)
               /\ Active => Near(job.c, processed[i].c)
               /\ \A k \in 1 .. Len(inbox') :
                     k < b /\ Waits(k)' => Near(inbox'[k].c, processed[i].c)
    <3>1. processed[i].c \in Unanswered
      BY <1>11, <2>3
    <3>2. QED
      BY <1>11, <1>13, <2>1, <2>2, <3>1
  <2>4. QED
    BY <1>1, <1>11, <1>13, <2>1, <2>2, <2>3 DEF RecentOK
<1>19. QED
  BY <1>14, <1>15, <1>16, <1>17, <1>18 DEF Inv

(* What the device hears less of is an open command.                       *)
LEMMA HearDeviceKeeps ==
    ASSUME Inv, HearDevice
    PROVE  Inv'
<1> DEFINE m == Head(outbox)
<1>1. /\ UNCHANGED <<queued, link, inbox, job, processed, acted>>
      /\ outbox # <<>> /\ m.type \in {"ack", "result"} /\ outbox' = Tail(outbox)
      /\ heard' = IF m.type = "result" /\ heard[m.c] = NotYet
                  THEN [heard EXCEPT ![m.c] = m.status] ELSE heard
  BY DEF HearDevice, deviceVars
<1>2. /\ outbox \in Seq(Outbound) /\ 1 \in 1 .. Len(outbox) /\ m = outbox[1] /\ m \in Outbound
      /\ outbox' \in Seq(Outbound)
      /\ \A i \in 1 .. Len(outbox') : i + 1 \in 1 .. Len(outbox) /\ outbox'[i] = outbox[i + 1]
  <2>1. outbox \in Seq(Outbound)
    BY DEF Inv, TypeOK
  <2>2. QED
    BY <1>1, <2>1
<1>3. m.type = "result" /\ heard[m.c] = NotYet =>
        \E j \in 1 .. Len(processed) : processed[j] = [c |-> m.c, status |-> m.status]
  BY <1>2 DEF Inv, OutcomeOK
<1>4. /\ heard' \in [CommandIds -> Outcomes \cup {NotYet}]
      /\ \A c \in CommandIds : heard'[c] # heard[c] =>
            c = m.c /\ m.type = "result" /\ heard[c] = NotYet
      /\ \A c \in CommandIds : heard[c] # NotYet => heard'[c] = heard[c]
  BY <1>1, <1>2 DEF Inv, TypeOK, Outbound
<1>5. \A c \in CommandIds : heard'[c] # heard[c] => Remembered(c) /\ c \in queued
  <2> SUFFICES ASSUME NEW c \in CommandIds, heard'[c] # heard[c]
               PROVE  Remembered(c) /\ c \in queued
    OBVIOUS
  <2>1. PICK j \in 1 .. Len(processed) : processed[j].c = c
    BY <1>3, <1>4
  <2>2. Remembered(c)
    BY <2>1, InMemory DEF Inv
  <2>3. QED
    BY <2>1, <2>2 DEF Inv, CloudOK
<1>6. \A d : Remembered(d)' <=> Remembered(d)
  BY <1>1 DEF Remembered
<1>7. /\ Unanswered' \subseteq Unanswered /\ (Active' <=> Active)
      /\ \A x, y : Near(x, y)' <=> Near(x, y)
      /\ \A b \in 1 .. Len(inbox) : Waits(b)' <=> Waits(b)
  BY <1>1, <1>4 DEF Unanswered, Active, Near, Waits, Inv, TypeOK
<1>8. TypeOK'
  <2>1. link = "down" => outbox' = <<>>
    BY <1>1 DEF Inv, TypeOK
  <2>2. QED
    BY <1>1, <1>2, <1>4, <2>1 DEF Inv, TypeOK
<1>9. CloudOK'
  <2>1. \A c \in CommandIds : heard'[c] # NotYet => c \in queued
    BY <1>5 DEF Inv, CloudOK
  <2>2. QED
    BY <1>1, <1>2, <1>7, <2>1 DEF Inv, CloudOK
<1>10. HelloOK'
  <2>1. \A i \in 1 .. Len(outbox') : outbox'[i].type # "hello"
    <3> SUFFICES ASSUME NEW i \in 1 .. Len(outbox'), outbox'[i].type = "hello"
                 PROVE  FALSE
      OBVIOUS
    <3>1. i + 1 = 1
      BY <1>2 DEF Inv, HelloOK
    <3>2. QED
      BY <3>1
  <2>2. outbox' # <<>> => 1 \in 1 .. Len(outbox')
    BY <1>2
  <2>3. QED
    BY <2>1, <2>2 DEF HelloOK
<1>11. OutcomeOK'
  <2>1. queued \subseteq CommandIds /\ acted \subseteq CommandIds
    BY DEF Inv, TypeOK, CloudOK
  <2>2. \A b \in 1 .. Len(inbox') : Waits(b)' =>
          \/ Remembered(inbox[b].c)'
          \/ heard'[inbox'[b].c] = NotYet /\ inbox'[b].c \notin acted'
    <3> SUFFICES ASSUME NEW b \in 1 .. Len(inbox), Waits(b), ~Remembered(inbox[b].c)
                 PROVE  heard'[inbox[b].c] = NotYet /\ inbox[b].c \notin acted
      BY <1>1, <1>6, <1>7
    <3>1. heard[inbox[b].c] = NotYet /\ inbox[b].c \notin acted
      BY DEF Inv, OutcomeOK
    <3>2. inbox[b].c \in CommandIds
      BY <2>1 DEF Inv, CloudOK
    <3>3. QED
      BY <1>5, <3>1, <3>2
  <2>3. Active' => ~Remembered(job.c)' /\ heard'[job'.c] = NotYet /\ job'.c \notin acted'
    <3>1. Active => job.c \in CommandIds
      BY <2>1 DEF Inv, CloudOK, Active
    <3>2. QED
      BY <1>1, <1>5, <1>6, <1>7, <3>1 DEF Inv, OutcomeOK
  <2>4. job'.pc \in {"replay", "result"} => Remembered(job.c)'
    BY <1>1, <1>6 DEF Inv, OutcomeOK
  <2>5. \A d \in acted' : Remembered(d)' \/ heard'[d] # NotYet
    BY <1>1, <1>4, <1>6, <2>1 DEF Inv, OutcomeOK
  <2>6. \A i \in 1 .. Len(outbox') : outbox'[i].type = "result" =>
          \/ heard'[outbox'[i].c] # NotYet
          \/ \E j \in 1 .. Len(processed) :
                processed[j] = [c |-> outbox'[i].c, status |-> outbox'[i].status]
    <3> SUFFICES ASSUME NEW i \in 1 .. Len(outbox'), outbox'[i].type = "result",
                        heard'[outbox'[i].c] = NotYet
                 PROVE  \E j \in 1 .. Len(processed) :
                           processed[j] = [c |-> outbox'[i].c, status |-> outbox'[i].status]
      OBVIOUS
    <3>1. i + 1 \in 1 .. Len(outbox) /\ outbox'[i] = outbox[i + 1]
      BY <1>2
    <3>2. outbox[i + 1].c \in CommandIds
      BY <2>1, <3>1 DEF Inv, CloudOK
    <3>3. heard[outbox[i + 1].c] = NotYet
      BY <1>4, <3>1, <3>2
    <3>4. \A j \in 1 .. Len(outbox) : outbox[j].type = "result" =>
             \/ heard[outbox[j].c] # NotYet
             \/ \E h \in 1 .. Len(processed) :
                   processed[h] = [c |-> outbox[j].c, status |-> outbox[j].status]
      BY DEF Inv, OutcomeOK
    <3>5. \E h \in 1 .. Len(processed) :
             processed[h] = [c |-> outbox[i + 1].c, status |-> outbox[i + 1].status]
      BY <3>1, <3>3, <3>4
    <3>6. QED
      BY <3>1, <3>5
  <2>7. QED
    BY <1>1, <2>2, <2>3, <2>4, <2>5, <2>6 DEF Inv, OutcomeOK
<1>12. RecentOK'
  BY <1>1, <1>7 DEF Inv, RecentOK
<1>13. QED
  BY <1>8, <1>9, <1>10, <1>11, <1>12 DEF Inv
-----------------------------------------------------------------------------
(* The commands. *)

(* What is remembered after an outcome came in.                            *)
LEMMA MovedMemory ==
    ASSUME Inv, Active, NEW status \in Outcomes, NEW s \in {0, 1},
           Moves(s, [c |-> job.c, status |-> status]), processed' \in Seq(Entries)
    PROVE  /\ \A d : Remembered(d)' <=>
                 d = job.c \/ (Remembered(d) /\ ~(s = 1 /\ d = processed[1].c))
           /\ \A i \in 1 .. Len(processed) : ~(s = 1 /\ i = 1) =>
                 i - s \in 1 .. Len(processed') /\ processed'[i - s] = processed[i]
           /\ \A i, j \in 1 .. Len(processed') : processed'[i].c = processed'[j].c => i = j
<1> DEFINE new == [c |-> job.c, status |-> status]
<1>1. processed \in Seq(Entries) /\ Len(processed) \in Nat
  BY DEF Inv, TypeOK
<1>2. /\ Len(processed') = Len(processed) + 1 - s
      /\ \A i \in 1 .. Len(processed') :
            \/ i + s \in 1 .. Len(processed) /\ processed'[i] = processed[i + s]
            \/ i + s = Len(processed) + 1 /\ processed'[i] = new
  BY DEF Moves
<1>3. \A i \in 1 .. Len(processed) : ~(s = 1 /\ i = 1) =>
                 i - s \in 1 .. Len(processed') /\ processed'[i - s] = processed[i]
  <2> SUFFICES ASSUME NEW i \in 1 .. Len(processed), ~(s = 1 /\ i = 1)
               PROVE  i - s \in 1 .. Len(processed') /\ processed'[i - s] = processed[i]
    OBVIOUS
  <2>1. i - s \in 1 .. Len(processed') /\ (i - s) + s = i /\ i # Len(processed) + 1
    BY <1>1, <1>2
  <2>2. QED
    BY <1>2, <2>1
<1>4. \E i \in 1 .. Len(processed') : processed'[i] = new
  <2>1. Len(processed) + 1 - s \in 1 .. Len(processed')
    BY <1>1, <1>2 DEF Moves
  <2>2. (Len(processed) + 1 - s) + s = Len(processed) + 1
    BY <1>1
  <2>3. Len(processed) + 1 \notin 1 .. Len(processed)
    BY <1>1
  <2>4. QED
    BY <1>2, <2>1, <2>2, <2>3
<1>5. \A i \in 1 .. Len(processed) : processed[i].c # job.c
  BY InMemory DEF Inv, OutcomeOK
<1>6. \A i, j \in 1 .. Len(processed') : processed'[i].c = processed'[j].c => i = j
  <2> SUFFICES ASSUME NEW i \in 1 .. Len(processed'), NEW j \in 1 .. Len(processed'),
                      processed'[i].c = processed'[j].c
               PROVE  i = j
    OBVIOUS
  <2>1. \A h, k \in 1 .. Len(processed) : processed[h].c = processed[k].c => h = k
    BY DEF Inv, OutcomeOK
  <2>2. i + s = j + s
    <3>1. CASE i + s \in 1 .. Len(processed) /\ j + s \in 1 .. Len(processed)
      BY <1>1, <1>2, <2>1, <3>1
    <3>2. CASE i + s \notin 1 .. Len(processed) /\ j + s \notin 1 .. Len(processed)
      BY <1>2, <3>2
    <3>3. CASE i + s \in 1 .. Len(processed) /\ j + s \notin 1 .. Len(processed)
      BY <1>1, <1>2, <1>5, <3>3
    <3>4. CASE i + s \notin 1 .. Len(processed) /\ j + s \in 1 .. Len(processed)
      BY <1>1, <1>2, <1>5, <3>4
    <3>5. QED
      BY <3>1, <3>2, <3>3, <3>4
  <2>3. QED
    BY <1>1, <2>2
<1>7. ASSUME NEW d
      PROVE  Remembered(d)' <=>
                 d = job.c \/ (Remembered(d) /\ ~(s = 1 /\ d = processed[1].c))
  <2>1. Remembered(d)' <=> \E i \in 1 .. Len(processed') : processed'[i].c = d
    BY DEF Remembered
  <2>2. Remembered(d) <=> \E i \in 1 .. Len(processed) : processed[i].c = d
    BY InMemory DEF Inv
  <2>3. ASSUME NEW i \in 1 .. Len(processed'), processed'[i].c = d, d # job.c
        PROVE  Remembered(d) /\ ~(s = 1 /\ d = processed[1].c)
    <3>1. i + s \in 1 .. Len(processed) /\ processed[i + s].c = d
      BY <1>2, <2>3
    <3>2. s = 1 => i + s # 1 /\ 1 \in 1 .. Len(processed)
      BY DEF Moves
    <3>3. s = 1 => processed[1].c # d
      BY <3>1, <3>2 DEF Inv, OutcomeOK
    <3>4. QED
      BY <2>2, <3>1, <3>3
  <2>4. ASSUME NEW i \in 1 .. Len(processed), processed[i].c = d,
               ~(s = 1 /\ d = processed[1].c)
        PROVE  Remembered(d)'
    BY <1>3, <2>1, <2>4
  <2>5. d = job.c => Remembered(d)'
    BY <1>4, <2>1
  <2>6. QED
    BY <2>1, <2>2, <2>3, <2>4, <2>5
<1>8. QED
  BY <1>3, <1>6, <1>7

LEMMA SettleKeeps ==
    ASSUME Inv, Active, NEW status \in Outcomes, Settle(status),
           acted' = acted \/ acted' = acted \cup {job.c}
    PROVE  Inv'
<1> DEFINE new == [c |-> job.c, status |-> status]
<1>1. /\ UNCHANGED <<queued, heard, link, inbox, outbox>>
      /\ job' = [job EXCEPT !.pc = "result"] /\ Remember(status)
  BY DEF Settle, cloudVars, wireVars
<1>2. PICK s \in {0, 1} : Moves(s, new)
  BY <1>1, RememberMoves
<1>3. processed' \in Seq(Entries) /\ Len(processed') <= PROCESSED_HISTORY
  BY <1>1, RememberMoves
<1>4. /\ \A d : Remembered(d)' <=>
                 d = job.c \/ (Remembered(d) /\ ~(s = 1 /\ d = processed[1].c))
      /\ \A i \in 1 .. Len(processed) : ~(s = 1 /\ i = 1) =>
                 i - s \in 1 .. Len(processed') /\ processed'[i - s] = processed[i]
      /\ \A i, j \in 1 .. Len(processed') : processed'[i].c = processed'[j].c => i = j
  BY <1>2, <1>3, MovedMemory
<1>5. /\ s = 1 => /\ processed[1].c \notin Unanswered
                  /\ \A b \in 1 .. Len(inbox) : Waits(b) => inbox[b].c # processed[1].c
                  /\ 1 \in 1 .. Len(processed)
      /\ Len(processed') = Len(processed) + 1 - s
      /\ \A i \in 1 .. Len(processed') :
            \/ i + s \in 1 .. Len(processed) /\ processed'[i] = processed[i + s]
            \/ i + s = Len(processed) + 1 /\ processed'[i] = new
  BY <1>2 DEF Moves
<1>6. job'.pc = "result" /\ job'.c = job.c /\ ~Active'
      /\ job' \in [pc : {"idle", "replay", "ack", "begin", "write", "result"},
                   c : CommandIds \cup {0}, late : BOOLEAN]
  BY <1>1 DEF Active, Inv, TypeOK
<1>7. /\ Unanswered' = Unanswered /\ \A x, y : Near(x, y)' <=> Near(x, y)
      /\ \A b \in 1 .. Len(inbox) : Waits(b)' <=> Waits(b)
  BY <1>1 DEF Unanswered, Near, Waits
<1>8. job.c \in queued
  BY DEF Inv, CloudOK, Active
<1>9. TypeOK'
  <2>1. link # "down"
    BY DEF Inv, TypeOK, Active, Idle
  <2>2. QED
    BY <1>1, <1>3, <1>6, <2>1 DEF Inv, TypeOK
<1>10. CloudOK'
  <2>1. \A i \in 1 .. Len(processed') : processed'[i].c \in queued
    BY <1>5, <1>8 DEF Inv, CloudOK
  <2>2. QED
    BY <1>1, <1>6, <1>7, <1>8, <2>1 DEF Inv, CloudOK
<1>11. HelloOK'
  BY <1>1, <1>7 DEF Inv, HelloOK
<1>12. OutcomeOK'
  <2>1. s = 1 => heard[processed[1].c] # NotYet
    BY <1>5 DEF Unanswered, Inv, CloudOK
  <2>2. \A b \in 1 .. Len(inbox') : Waits(b)' =>
          \/ Remembered(inbox[b].c)'
          \/ heard'[inbox'[b].c] = NotYet /\ inbox'[b].c \notin acted'
    <3> SUFFICES ASSUME NEW b \in 1 .. Len(inbox), Waits(b), ~Remembered(inbox[b].c)'
                 PROVE  heard[inbox[b].c] = NotYet /\ inbox[b].c \notin acted'
      BY <1>1, <1>7
    <3>1. inbox[b].c # job.c /\ ~Remembered(inbox[b].c)
      BY <1>1, <1>4, <1>5
    <3>2. heard[inbox[b].c] = NotYet /\ inbox[b].c \notin acted
      BY <3>1 DEF Inv, OutcomeOK
    <3>3. QED
      BY <3>1, <3>2
  <2>3. \A d \in acted' : Remembered(d)' \/ heard'[d] # NotYet
    <3> SUFFICES ASSUME NEW d \in acted', ~Remembered(d)' PROVE heard[d] # NotYet
      BY <1>1
    <3>1. d # job.c /\ d \in acted /\ (Remembered(d) => s = 1 /\ d = processed[1].c)
      BY <1>4
    <3>2. QED
      BY <2>1, <3>1 DEF Inv, OutcomeOK
  <2>4. \A i \in 1 .. Len(outbox') : outbox'[i].type = "result" =>
          \/ heard'[outbox'[i].c] # NotYet
          \/ \E j \in 1 .. Len(processed') :
                processed'[j] = [c |-> outbox'[i].c, status |-> outbox'[i].status]
    <3> SUFFICES ASSUME NEW i \in 1 .. Len(outbox), outbox[i].type = "result",
                        heard[outbox[i].c] = NotYet
                 PROVE  \E j \in 1 .. Len(processed') :
                           processed'[j] = [c |-> outbox[i].c, status |-> outbox[i].status]
      BY <1>1
    <3>1. PICK j \in 1 .. Len(processed) :
             processed[j] = [c |-> outbox[i].c, status |-> outbox[i].status]
      BY DEF Inv, OutcomeOK
    <3>2. ~(s = 1 /\ j = 1)
      BY <2>1, <3>1
    <3>3. QED
      BY <1>4, <3>1, <3>2
  <2>5. Remembered(job.c)'
    <3>1. \A d : d = job.c => Remembered(d)'
      BY <1>4
    <3>2. \E i \in DOMAIN processed' : processed'[i].c = job.c
      BY <3>1 DEF Remembered
    <3>3. QED
      BY <1>6, <3>2 DEF Remembered
  <2>6. QED
    BY <1>3, <1>4, <1>6, <2>2, <2>3, <2>4, <2>5, SessionAssumption DEF OutcomeOK
<1>13. RecentOK'
  <2>1. job.c \in Unanswered
    BY ActiveIsOpen
  <2>2. \A i, j \in 1 .. Len(processed') : i < j => /\ i + s \in 1 .. Len(processed)
                                                    /\ processed'[i] = processed[i + s]
                                                    /\ i + s < j + s
    BY <1>5
  <2>3. \A i, j \in 1 .. Len(processed') :
          i < j /\ processed'[i].c \in Unanswered => Near(processed'[j].c, processed'[i].c)
    <3> SUFFICES ASSUME NEW i \in 1 .. Len(processed'), NEW j \in 1 .. Len(processed'),
                        i < j, processed'[i].c \in Unanswered
                 PROVE  Near(processed'[j].c, processed'[i].c)
      OBVIOUS
    <3>1. i + s \in 1 .. Len(processed) /\ processed'[i] = processed[i + s] /\ i + s < j + s
      BY <2>2
    <3>2. CASE j + s \in 1 .. Len(processed) /\ processed'[j] = processed[j + s]
      BY <3>1, <3>2 DEF Inv, RecentOK
    <3>3. CASE processed'[j] = new
      BY <2>1, <3>1, <3>3 DEF Inv, CloudOK
    <3>4. QED
      BY <1>5, <3>2, <3>3
  <2>4. ASSUME NEW i \in 1 .. Len(processed'), NEW b \in 1 .. Len(inbox),
               Waits(b), inbox[b].c = processed'[i].c
        PROVE  /\ \A j \in 1 .. Len(processed') : i < j => Near(processed'[j].c, processed'[i].c)
               /\ \A k \in 1 .. Len(inbox) :
                     k < b /\ Waits(k) => Near(inbox[k].c, processed'[i].c)
    <3>1. CASE i + s \in 1 .. Len(processed) /\ processed'[i] = processed[i + s]
      <4>1. /\ \A j \in 1 .. Len(processed) :
                  i + s < j => Near(processed[j].c, processed'[i].c)
            /\ Near(job.c, processed'[i].c)
            /\ \A k \in 1 .. Len(inbox) :
                  k < b /\ Waits(k) => Near(inbox[k].c, processed'[i].c)
        BY <2>4, <3>1 DEF Inv, RecentOK
      <4>2. \A j \in 1 .. Len(processed') : i < j => Near(processed'[j].c, processed'[i].c)
        <5> SUFFICES ASSUME NEW j \in 1 .. Len(processed'), i < j
                     PROVE  Near(processed'[j].c, processed'[i].c)
          OBVIOUS
        <5>1. i + s < j + s
          BY <2>2
        <5>2. CASE j + s \in 1 .. Len(processed) /\ processed'[j] = processed[j + s]
          BY <4>1, <5>1, <5>2
        <5>3. CASE processed'[j] = new
          BY <4>1, <5>3
        <5>4. QED
          BY <1>5, <5>2, <5>3
      <4>3. QED
        BY <4>1, <4>2
    <3>2. CASE i + s = Len(processed) + 1 /\ processed'[i] = new
      <4>1. \A j \in 1 .. Len(processed') : ~(i < j)
        BY <1>5, <3>2
      <4>2. \A k \in 1 .. Len(inbox) :
               k < b /\ Waits(k) => Near(inbox[k].c, job.c)
        BY <2>4, <3>2 DEF Inv, RecentOK
      <4>3. QED
        BY <3>2, <4>1, <4>2
    <3>3. QED
      BY <1>5, <3>1, <3>2
  <2>5. \A a, k, b \in 1 .. Len(inbox) :
          a < k /\ k < b /\ Waits(a) /\ Waits(k) /\ Waits(b) /\ inbox[a].c = inbox[b].c
          => Near(inbox[k].c, inbox[b].c)
    BY DEF Inv, RecentOK
  <2>6. QED
    BY <1>1, <1>6, <1>7, <2>3, <2>4, <2>5 DEF RecentOK
<1>14. QED
  BY <1>9, <1>10, <1>11, <1>12, <1>13 DEF Inv

LEMMA BeginSwitchKeeps ==
    ASSUME Inv, BeginSwitch
    PROVE  Inv'
<1>1. /\ UNCHANGED <<queued, heard, link, inbox, outbox, processed, acted>>
      /\ job.pc = "begin" /\ job' = [job EXCEPT !.pc = "write"]
  BY DEF BeginSwitch, cloudVars, wireVars
<1>2. /\ job' \in [pc : {"idle", "replay", "ack", "begin", "write", "result"},
                   c : CommandIds \cup {0}, late : BOOLEAN]
      /\ job'.pc = "write" /\ job'.c = job.c /\ Active /\ Active' /\ job # Idle
  BY <1>1 DEF Inv, TypeOK, Active, Idle
<1>3. TypeOK'
  BY <1>1, <1>2 DEF Inv, TypeOK
<1>4. CloudOK'
  BY <1>1, <1>2 DEF Inv, CloudOK, Active, Unanswered, Near, Waits
<1>5. HelloOK'
  BY <1>1 DEF Inv, HelloOK, Unanswered, Waits
<1>6. OutcomeOK'
  BY <1>1, <1>2 DEF Inv, OutcomeOK, Remembered, Waits
<1>7. RecentOK'
  BY <1>1, <1>2 DEF Inv, RecentOK, Unanswered, Near, Waits
<1>8. QED
  BY <1>3, <1>4, <1>5, <1>6, <1>7 DEF Inv

LEMMA SessionDiesKeeps ==
    ASSUME Inv, SessionDies
    PROVE  Inv'
<1>1. /\ UNCHANGED <<queued, heard>> /\ inbox' = <<>> /\ outbox' = <<>> /\ job' = Idle
      /\ processed' = <<>> /\ acted' = {}
  BY DEF SessionDies, EndSession, cloudVars
<1>2. Idle \in [pc : {"idle", "replay", "ack", "begin", "write", "result"},
                    c : CommandIds \cup {0}, late : BOOLEAN]
  BY DEF Idle
<1>3. TypeOK'
  BY <1>1, <1>2, NothingUnderWay DEF Inv, TypeOK
<1>4. CloudOK'
  BY <1>1, NothingUnderWay DEF Inv, CloudOK, Unanswered, Near, Idle
<1>5. HelloOK'
  BY <1>1, NothingUnderWay DEF HelloOK
<1>6. OutcomeOK'
  BY <1>1, NothingUnderWay, SessionAssumption DEF OutcomeOK, Active, Idle
<1>7. RecentOK'
  BY <1>1, NothingUnderWay DEF RecentOK, Active, Idle
<1>8. QED
  BY <1>3, <1>4, <1>5, <1>6, <1>7 DEF Inv
-----------------------------------------------------------------------------
(* The invariant holds. *)

LEMMA Starts == SessionInit => Inv
<1> SUFFICES ASSUME SessionInit PROVE Inv
  OBVIOUS
<1>1. Idle \in [pc : {"idle", "replay", "ack", "begin", "write", "result"},
                    c : CommandIds \cup {0}, late : BOOLEAN]
  BY DEF Idle
<1>2. TypeOK
  BY <1>1, NothingUnderWay DEF SessionInit, TypeOK
<1>3. CloudOK
  BY NothingUnderWay DEF SessionInit, CloudOK, Unanswered, Idle
<1>4. HelloOK
  BY NothingUnderWay DEF SessionInit, HelloOK
<1>5. OutcomeOK
  BY NothingUnderWay, SessionAssumption DEF SessionInit, OutcomeOK, Active, Idle
<1>6. RecentOK
  BY NothingUnderWay DEF SessionInit, RecentOK, Active, Idle
<1>7. QED
  BY <1>2, <1>3, <1>4, <1>5, <1>6 DEF Inv

(* What the three messages to the cloud say.                               *)
LEMMA SendsKeep ==
    ASSUME Inv, SendAck \/ ReplayAck \/ SendResult
    PROVE  Inv'
<1>1. job \in [pc : {"idle", "replay", "ack", "begin", "write", "result"},
               c : CommandIds \cup {0}, late : BOOLEAN]
  BY DEF Inv, TypeOK
<1>2. Ack \in Outbound /\ Ack.type = "ack"
  BY <1>1 DEF Ack, Outbound
<1>3. CASE SendAck
  <2> DEFINE next == [job EXCEPT !.pc = "begin"]
  <2>1. /\ next \in [pc : {"idle", "replay", "ack", "begin", "write", "result"},
                     c : CommandIds \cup {0}, late : BOOLEAN]
        /\ next.c = job.c /\ next.pc = "begin"
    BY <1>1
  <2>2. job.pc = "ack" /\ Active /\ Send(Ack, next)
    BY <1>3 DEF SendAck, Active
  <2> HIDE DEF next
  <2>3. QED
    BY <1>2, <2>1, <2>2, SendKeeps
<1>4. CASE ReplayAck
  <2> DEFINE next == [job EXCEPT !.pc = "result"]
  <2>1. /\ next \in [pc : {"idle", "replay", "ack", "begin", "write", "result"},
                     c : CommandIds \cup {0}, late : BOOLEAN]
        /\ next.c = job.c /\ next.pc = "result"
    BY <1>1
  <2>2. job.pc = "replay" /\ Send(Ack, next)
    BY <1>4 DEF ReplayAck
  <2> HIDE DEF next
  <2>3. QED
    BY <1>2, <2>1, <2>2, SendKeeps
<1>5. CASE SendResult
  <2> DEFINE m == Result(Outcome(job.c))
  <2>1. job.pc = "result" /\ Send(m, Idle)
    BY <1>5 DEF SendResult
  <2>2. PICK j \in 1 .. Len(processed) : processed[j].c = job.c
    BY <2>1, InMemory DEF Inv, OutcomeOK
  <2>3. processed[j] \in Entries /\ Outcome(job.c) = processed[j].status
    BY <2>2, OutcomeIs, Numbers DEF Inv
  <2>4. processed[j] = [c |-> job.c, status |-> Outcome(job.c)] /\ Outcome(job.c) \in Outcomes
    BY <2>2, <2>3 DEF Entries
  <2>5. m \in Outbound /\ m.type = "result" /\ m.c = job.c /\ m.status = Outcome(job.c)
    BY <1>1, <2>4 DEF Result, Outbound
  <2>6. Idle \in [pc : {"idle", "replay", "ack", "begin", "write", "result"},
                  c : CommandIds \cup {0}, late : BOOLEAN]
    BY DEF Idle
  <2> HIDE DEF m
  <2>7. QED
    BY <2>1, <2>4, <2>5, <2>6, SendKeeps
<1>6. QED
  BY <1>3, <1>4, <1>5

(* What settles a command.                                                 *)
Settles(status) ==
    /\ Active /\ Settle(status)
    /\ acted' = IF status = "executed" THEN acted \cup {job.c} ELSE acted

LEMMA SettlingSteps ==
    ASSUME Expire \/ Refuse \/ WriteRelay \/ SetUnit \/ RestartService
    PROVE  \E status \in Outcomes : Settles(status)
<1>1. CASE Expire
  BY <1>1 DEF Expire, Settles, Active, Outcomes
<1>2. CASE Refuse
  BY <1>2 DEF Refuse, Settles, Active, Outcomes
<1>3. CASE WriteRelay
  BY <1>3 DEF WriteRelay, Settles, Active, Outcomes
<1>4. CASE SetUnit
  BY <1>4 DEF SetUnit, Settles, Active, Outcomes
<1>5. CASE RestartService
  BY <1>5 DEF RestartService, Settles, Active, Outcomes
<1>6. QED
  BY <1>1, <1>2, <1>3, <1>4, <1>5

LEMMA Keeps == Inv /\ [SessionNext]_sessionVars => Inv'
<1> SUFFICES ASSUME Inv, [SessionNext]_sessionVars PROVE Inv'
  OBVIOUS
<1>1. CASE OpenSession \/ TakeHelloAck \/ TakeCommand
  BY <1>1, OpenSessionKeeps, TakeHelloAckKeeps, TakeCommandKeeps
<1>2. CASE ReceiveFails \/ Reconnect
  <2>1. /\ UNCHANGED <<queued, heard, processed, acted>>
        /\ inbox' = <<>> /\ outbox' = <<>> /\ job' = Idle
    BY <1>2 DEF ReceiveFails, Reconnect, EndSession, cloudVars
  <2>2. QED
    BY <2>1, EmptiedKeeps
<1>3. CASE SendAck \/ ReplayAck \/ SendResult
  BY <1>3, SendsKeep
<1>4. CASE Expire \/ Refuse \/ WriteRelay \/ SetUnit \/ RestartService
  <2>1. PICK status \in Outcomes : Settles(status)
    BY <1>4, SettlingSteps
  <2>2. QED
    BY <2>1, SettleKeeps DEF Settles
<1>5. CASE BeginSwitch
  BY <1>5, BeginSwitchKeeps
<1>6. CASE \E c \in CommandIds : QueueCommand(c)
  BY <1>6, QueueCommandKeeps
<1>7. CASE AnswerHello \/ HearDevice \/ LinkBreaks \/ SessionDies
  BY <1>7, AnswerHelloKeeps, HearDeviceKeeps, LinkBreaksKeeps, SessionDiesKeeps
<1>8. CASE UNCHANGED sessionVars
  <2>1. UNCHANGED <<queued, heard, link, inbox, outbox, job, processed, acted>>
    BY <1>8 DEF sessionVars, cloudVars, wireVars, deviceVars
  <2>2. QED
    BY <2>1 DEF Inv, TypeOK, CloudOK, HelloOK, OutcomeOK, RecentOK, Unanswered, Near,
                Waits, Active, Remembered
<1>9. QED
  BY <1>1, <1>2, <1>3, <1>4, <1>5, <1>6, <1>7, <1>8 DEF SessionNext, SessionStep

LEMMA Invariant == SessionSpec => []Inv
BY Starts, Keeps, PTL DEF SessionSpec
-----------------------------------------------------------------------------
(* The session implements Commands. *)

Known == [c \in CommandIds |-> IF Remembered(c) THEN Outcome(c) ELSE NotYet]

LEMMA TheOnlyEntry ==
    ASSUME NEW p, NEW i \in DOMAIN p,
           \A j \in DOMAIN p : p[j].c = p[i].c => j = i
    PROVE  p[CHOOSE j \in DOMAIN p : p[j].c = p[i].c].status = p[i].status
<1>1. (CHOOSE j \in DOMAIN p : p[j].c = p[i].c) = i
  OBVIOUS
<1>2. QED
  BY <1>1

LEMMA KnownNow ==
    ASSUME Inv
    PROVE  /\ \A i \in 1 .. Len(processed) :
                 /\ processed[i].c \in CommandIds /\ processed[i].status \in Outcomes
                 /\ Known[processed[i].c] = processed[i].status
           /\ \A c \in CommandIds : ~Remembered(c) => Known[c] = NotYet
<1>1. ASSUME NEW i \in 1 .. Len(processed)
      PROVE  /\ processed[i].c \in CommandIds /\ processed[i].status \in Outcomes
             /\ Known[processed[i].c] = processed[i].status
  <2>1. processed[i].c \in CommandIds /\ processed[i].status \in Outcomes
    BY Numbers DEF Entries
  <2>2. Remembered(processed[i].c) /\ Outcome(processed[i].c) = processed[i].status
    BY InMemory, OutcomeIs DEF Inv
  <2>3. QED
    BY <2>1, <2>2 DEF Known
<1>2. QED
  BY <1>1 DEF Known

LEMMA KnownThen ==
    ASSUME Inv'
    PROVE  /\ \A i \in 1 .. Len(processed') :
                 processed'[i].c \in CommandIds => Known'[processed'[i].c] = processed'[i].status
           /\ \A c \in CommandIds : ~Remembered(c)' => Known'[c] = NotYet
<1>1. ASSUME NEW i \in 1 .. Len(processed'), processed'[i].c \in CommandIds
      PROVE  Known'[processed'[i].c] = processed'[i].status
  <2> DEFINE d == processed'[i].c
  <2>1. DOMAIN processed' = 1 .. Len(processed')
    BY DEF Inv, TypeOK
  <2>2. \A j \in DOMAIN processed' : processed'[j].c = processed'[i].c => j = i
    BY <2>1 DEF Inv, OutcomeOK
  <2>3. processed'[CHOOSE j \in DOMAIN processed' : processed'[j].c = d].status
           = processed'[i].status
    BY <2>1, <2>2, TheOnlyEntry
  <2>4. \E j \in DOMAIN processed' : processed'[j].c = d
    BY <2>1
  <2>5. QED
    BY <1>1, <2>3, <2>4 DEF Known, Remembered, Outcome
<1>2. QED
  BY <1>1 DEF Known

(* A command that is settled is one that was never acted on and of which   *)
(* nothing is known; what is forgotten for it has been heard.              *)
LEMMA SettlingDoes ==
    ASSUME Inv, Inv', NEW status \in Outcomes, Settles(status)
    PROVE  \/ Abstract!Do(job.c, status)
           \/ \E old \in CommandIds : Abstract!DoAndForget(job.c, status, old)
<1> DEFINE new == [c |-> job.c, status |-> status]
<1>1. /\ UNCHANGED <<queued, heard>> /\ Remember(status) /\ Active
      /\ acted' = IF status = "executed" THEN acted \cup {job.c} ELSE acted
  BY DEF Settles, Settle, cloudVars
<1>2. PICK s \in {0, 1} : Moves(s, new)
  BY <1>1, RememberMoves
<1>3. processed' \in Seq(Entries)
  BY <1>1, RememberMoves
<1>4. /\ \A d : Remembered(d)' <=>
                 d = job.c \/ (Remembered(d) /\ ~(s = 1 /\ d = processed[1].c))
      /\ \A i \in 1 .. Len(processed) : ~(s = 1 /\ i = 1) =>
                 i - s \in 1 .. Len(processed') /\ processed'[i - s] = processed[i]
  BY <1>1, <1>2, <1>3, MovedMemory
<1>5. /\ job.c \in CommandIds /\ heard[job.c] = NotYet /\ job.c \notin acted
      /\ ~Remembered(job.c)
  BY <1>1 DEF Inv, TypeOK, CloudOK, OutcomeOK, Active
<1>6. Known[job.c] = NotYet
  BY <1>5, KnownNow
<1>7. Known'[job.c] = status
  <2>1. PICK i \in 1 .. Len(processed') : processed'[i] = new
    <3>1. Len(processed') = Len(processed) + 1 - s /\ Len(processed) \in Nat
          /\ (s = 1 => 1 \in 1 .. Len(processed))
      BY <1>2 DEF Moves, Inv, TypeOK
    <3>2. Len(processed') \in 1 .. Len(processed')
      BY <3>1
    <3>3. ~(Len(processed') + s <= Len(processed))
      BY <3>1
    <3>4. QED
      BY <1>2, <3>2, <3>3 DEF Moves
  <2>2. QED
    BY <1>5, <2>1, KnownThen
<1>8. ASSUME NEW d \in CommandIds, d # job.c, ~(s = 1 /\ d = processed[1].c)
      PROVE  Known'[d] = Known[d]
  <2>1. CASE Remembered(d)
    <3>1. PICK i \in 1 .. Len(processed) : processed[i].c = d
      BY <2>1, InMemory DEF Inv
    <3>2. i - s \in 1 .. Len(processed') /\ processed'[i - s] = processed[i]
      BY <1>4, <1>8, <3>1
    <3>3. Known'[d] = processed[i].status
      BY <3>1, <3>2, KnownThen
    <3>4. QED
      BY <3>1, <3>3, KnownNow
  <2>2. CASE ~Remembered(d)
    BY <1>4, <1>8, <2>2, KnownNow, KnownThen
  <2>3. QED
    BY <2>1, <2>2
<1>9. CASE s = 0
  <2>1. \A d \in CommandIds : d # job.c => Known'[d] = Known[d]
    BY <1>8, <1>9
  <2>2. Known' = [Known EXCEPT ![job.c] = status]
    BY <1>5, <1>7, <2>1 DEF Known
  <2>3. QED
    BY <1>1, <1>5, <1>6, <2>2 DEF Abstract!Do, Known, NotYet, Abstract!NotYet
<1>10. CASE s = 1
  <2> DEFINE old == processed[1].c
  <2>1. 1 \in 1 .. Len(processed) /\ old \notin Unanswered
    BY <1>2, <1>10 DEF Moves
  <2>2. old \in CommandIds /\ old \in queued /\ Remembered(old)
    BY <2>1, KnownNow, InMemory DEF Inv, CloudOK
  <2>3. heard[old] # NotYet /\ old # job.c
    BY <1>5, <2>1, <2>2 DEF Unanswered
  <2>4. Known'[old] = NotYet
    BY <1>4, <1>10, <2>2, <2>3, KnownThen
  <2>5. Known' = [Known EXCEPT ![job.c] = status, ![old] = NotYet]
    BY <1>5, <1>7, <1>8, <1>10, <2>2, <2>3, <2>4 DEF Known
  <2> HIDE DEF old
  <2>6. Abstract!DoAndForget(job.c, status, old)
    BY <1>1, <1>5, <1>6, <2>3, <2>5 DEF Abstract!DoAndForget, Known, NotYet, Abstract!NotYet
  <2>7. QED
    BY <2>2, <2>6
<1>11. QED
  BY <1>9, <1>10

LEMMA KnownStays ==
    ASSUME UNCHANGED processed
    PROVE  Known' = Known
BY DEF Known, Remembered, Outcome

(* What the cloud hears first of a command is what became of it.           *)
LEMMA HearingTells ==
    ASSUME Inv, HearDevice
    PROVE  UNCHANGED <<Known, acted, heard>> \/ \E c \in CommandIds : Abstract!Tell(c)
<1> DEFINE m == outbox[1]
           c == m.c
<1>0. outbox # <<>> /\ outbox \in Seq(Outbound) /\ Head(outbox) = m
  BY DEF HearDevice, Inv, TypeOK
<1>1. /\ UNCHANGED <<processed, acted>> /\ outbox # <<>>
      /\ heard' = IF m.type = "result" /\ heard[c] = NotYet
                  THEN [heard EXCEPT ![c] = m.status] ELSE heard
  BY <1>0 DEF HearDevice, deviceVars
<1>2. Known' = Known
  BY <1>1, KnownStays
<1>3. CASE m.type = "result" /\ heard[c] = NotYet
  <2>1. 1 \in 1 .. Len(outbox)
    BY <1>1 DEF Inv, TypeOK
  <2>2. PICK j \in 1 .. Len(processed) : processed[j] = [c |-> c, status |-> m.status]
    BY <1>3, <2>1 DEF Inv, OutcomeOK
  <2>3. c \in CommandIds /\ m.status \in Outcomes /\ Known[c] = m.status
    BY <2>2, KnownNow
  <2>4. m.status # NotYet
    BY <2>3 DEF Outcomes, NotYet
  <2> HIDE DEF m
  <2>5. Abstract!Tell(c)
    BY <1>1, <1>2, <1>3, <2>3, <2>4 DEF Abstract!Tell, Known, NotYet, Abstract!NotYet
  <2>6. QED
    BY <2>3, <2>5
<1>4. CASE ~(m.type = "result" /\ heard[c] = NotYet)
  BY <1>1, <1>2, <1>4
<1>5. QED
  BY <1>3, <1>4

(* Every step is one of Commands, or no step at all.                       *)
LEMMA StepIsAbstract ==
    Inv /\ Inv' /\ [SessionNext]_sessionVars
       => [Abstract!CommandsNext]_(Abstract!commandVars)
<1> SUFFICES ASSUME Inv, Inv', [SessionNext]_sessionVars
             PROVE  [Abstract!CommandsNext]_(Abstract!commandVars)
  OBVIOUS
<1>1. UNCHANGED <<Known, acted, heard>> => UNCHANGED Abstract!commandVars
  BY DEF Known, NotYet, Abstract!commandVars
<1>2. CASE Expire \/ Refuse \/ WriteRelay \/ SetUnit \/ RestartService
  <2>1. PICK status \in Outcomes : Settles(status)
    BY <1>2, SettlingSteps
  <2>2. job.c \in CommandIds
    BY <2>1 DEF Settles, Inv, TypeOK, CloudOK, Active
  <2>3. QED
    BY <2>1, <2>2, SettlingDoes DEF Abstract!CommandsNext
<1>3. CASE HearDevice
  BY <1>1, <1>3, HearingTells DEF Abstract!CommandsNext
<1>4. CASE SessionDies
  <2>1. processed' = <<>> /\ acted' = {} /\ UNCHANGED heard
    BY <1>4 DEF SessionDies, cloudVars
  <2>2. \A c \in CommandIds : ~Remembered(c)'
    BY <2>1 DEF Remembered
  <2>3. Abstract!Die
    BY <2>1, <2>2 DEF Abstract!Die, NotYet, Abstract!NotYet
  <2>4. QED
    BY <2>3 DEF Abstract!CommandsNext
<1>5. CASE \/ OpenSession \/ ReceiveFails \/ TakeHelloAck \/ Reconnect \/ TakeCommand
           \/ SendAck \/ ReplayAck \/ SendResult \/ BeginSwitch
           \/ \E c \in CommandIds : QueueCommand(c)
           \/ AnswerHello \/ LinkBreaks \/ UNCHANGED sessionVars
  <2>1. UNCHANGED <<processed, acted, heard>>
    BY <1>5 DEF OpenSession, ReceiveFails, TakeHelloAck, Reconnect, TakeCommand, SendAck,
                ReplayAck, SendResult, Send, BeginSwitch, QueueCommand, AnswerHello, LinkBreaks,
                sessionVars, cloudVars, deviceVars
  <2>2. QED
    BY <1>1, <2>1, KnownStays
<1>6. QED
  BY <1>2, <1>3, <1>4, <1>5 DEF SessionNext, SessionStep

LEMMA StartIsAbstract == SessionInit => Abstract!CommandsInit
<1> SUFFICES ASSUME SessionInit PROVE Abstract!CommandsInit
  OBVIOUS
<1>1. \A c \in CommandIds : ~Remembered(c)
  BY DEF SessionInit, Remembered
<1>2. QED
  BY <1>1 DEF SessionInit, Abstract!CommandsInit, NotYet, Abstract!NotYet

(* Whatever is lost, sent again or forgotten: within one life of the       *)
(* process a command is acted on at most once, its outcome is forgotten    *)
(* only after the cloud has heard it, the cloud hears that outcome and no  *)
(* other, and what it has heard of is never acted on again.                *)
THEOREM ActedOnOnce == SessionSpec => ImplementsCommands
<1>1. SessionSpec => []Inv
  BY Invariant
<1>2. QED
  BY <1>1, StartIsAbstract, StepIsAbstract, PTL
     DEF SessionSpec, ImplementsCommands, Abstract!CommandsSpec
=============================================================================
