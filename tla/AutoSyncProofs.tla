--------------------------- MODULE AutoSyncProofs ---------------------------
(***************************************************************************)
(* Proofs about AutoSync, for every number of configs and any settings.    *)
(*                                                                         *)
(* The claim is about what the last call of schedule() has left behind:    *)
(* each enabled task it knows of is going to be looked at again (Rested).  *)
(* schedule() establishes this in all its cases, and what does not call it *)
(* leaves timers and connections alone (Keeps), or enables a task which is *)
(* then not seen.                                                          *)
(***************************************************************************)
EXTENDS AutoSync, FiniteSetTheorems, TLAPS

\* The manager and what it sees of the server
Manager == [task : [Configs -> Task], watches : [Transports -> 0..MaxWatches],
            idleConnection : BOOLEAN, autoTermLocked : BOOLEAN,
            active : Sessions \cup {NoSession}, waiting : Sessions \cup {NoSession},
            unseen : SUBSET Configs]

\* A task that is going to run again, and of which schedule() knows
Due(x, c) == MightRun(x.task[c]) /\ c \notin x.unseen

\* For each URL of a task there is a timer or a watch for the missing transport.
Watched(task, here, watches) ==
    \A i \in DOMAIN task.urls :
        /\ task.urls[i] # Other
        /\ task.urls[i] \in task.urlTimers \/ (task.urls[i] \notin here /\ watches[task.urls[i]] > 0)

\* Each enabled task is going to be looked at again.
Rested(x, here) ==
    \A c \in Configs : Due(x, c) =>
        \/ ~IsIdle(x) /\ x.idleConnection
        \/ x.task[c].timer
        \/ Watched(x.task[c], here, x.watches)

IInv == TypeOK /\ (slots > 0 \/ Rested(mgr, present))

-----------------------------------------------------------------------------
(***************************************************************************)
(* Numbers and sets.                                                       *)
(***************************************************************************)

\* A set of configs has a first one.
LEMMA FirstOf ==
    ASSUME NEW S, S \subseteq Configs, S # {}
    PROVE  Min(S) \in S /\ \A n \in S : Min(S) <= n
<1>1. \A a, b \in Nat : a < b => <<a, b>> \in OpToRel(<, Nat)
  BY DEF OpToRel
<1>2. \E R : IsWellFoundedOn(R, Nat) /\ \A a, b \in Nat : a < b => <<a, b>> \in R
  BY <1>1, NatLessThanWellFounded, Zenon
<1> HIDE <1>1
<1>3. PICK R : IsWellFoundedOn(R, Nat) /\ \A a, b \in Nat : a < b => <<a, b>> \in R
  BY <1>2, Zenon
<1>4. IsWellFoundedOn(R, Nat) /\ S \subseteq Nat
  BY <1>3, AutoSyncAssumption DEF Configs
<1>5. PICK m \in S : \A n \in S : ~ (<<n, m>> \in R)
  BY <1>4, WFMin
<1>6. \A a, b \in Nat : a < b => <<a, b>> \in R
  BY <1>3
<1>7. ASSUME NEW n \in S
      PROVE  m <= n
  <2>1. ~ (n < m) /\ n \in Nat /\ m \in Nat
    BY <1>4, <1>5, <1>6
  <2>2. QED
    BY <2>1
<1>8. QED
  BY <1>7 DEF Min

\* The new connections to a presence signal are finitely many, and there is one if a
\* task misses the transport.
LEMMA WatchesOf ==
    ASSUME NEW x \in Manager, NEW looked \in SUBSET Configs, NEW here, NEW long, NEW t
    PROVE  /\ NewWatches(x, looked, here, long, t) \in Nat
           /\ (\E c \in looked : Missing(x.task[c], here, long, t) # {}) =>
                  NewWatches(x, looked, here, long, t) > 0
<1>1. PICK f : f = [c \in looked |-> {c} \X Missing(x.task[c], here, long, t)]
  OBVIOUS
<1>2. PICK T : T = {{c} \X Missing(x.task[c], here, long, t) : c \in looked}
  OBVIOUS
<1>3. IsFiniteSet(looked)
  <2>1. NumConfigs \in Int /\ 1 \in Int /\ looked \in SUBSET (1..NumConfigs)
    BY AutoSyncAssumption DEF Configs
  <2>2. QED
    BY <2>1, FS_Interval, FS_Subset
<1>4. IsFiniteSet(T)
  <2>1. f \in Surjection(looked, T)
    BY <1>1, <1>2 DEF Surjection
  <2>2. QED
    BY <1>3, <2>1, FS_Surjection
<1>5. ASSUME NEW c \in looked
      PROVE  IsFiniteSet({c} \X Missing(x.task[c], here, long, t))
  <2>1. x.task[c].urls \in Seq(Transports \cup {Other})
    BY DEF Manager, Task
  <2>2. Len(x.task[c].urls) \in Nat /\ Missing(x.task[c], here, long, t) \in SUBSET (1..Len(x.task[c].urls))
    BY <2>1 DEF Missing, Unready
  <2>3. IsFiniteSet(Missing(x.task[c], here, long, t))
    <3>1. PICK n \in Int : n = Len(x.task[c].urls)
      BY <2>2
    <3>2. Missing(x.task[c], here, long, t) \in SUBSET (1..n)
      BY <2>2, <3>1
    <3>3. 1 \in Int
      OBVIOUS
    <3>4. IsFiniteSet(1..n)
      BY <3>3, FS_Interval
    <3>5. QED
      BY <3>2, <3>4, FS_Subset
  <2>4. QED
    BY <2>3, FS_Singleton, FS_Product
<1>6. \A S \in T : IsFiniteSet(S)
  BY <1>2, <1>5
<1>7. IsFiniteSet(UNION T)
  BY <1>4, <1>6, FS_UNION
<1>8. NewWatches(x, looked, here, long, t) = Cardinality(UNION T)
  BY <1>2 DEF NewWatches
<1>9. Cardinality(UNION T) \in Nat /\ (UNION T # {} => Cardinality(UNION T) # 0)
  BY <1>7, FS_CardinalityType, FS_EmptySet
<1>10. ASSUME NEW c \in looked, Missing(x.task[c], here, long, t) # {}
       PROVE  UNION T # {}
  <2>1. PICK i : i \in Missing(x.task[c], here, long, t)
    BY <1>10
  <2>2. <<c, i>> \in {c} \X Missing(x.task[c], here, long, t)
    BY <2>1
  <2>3. <<c, i>> \in UNION T
    BY <1>2, <2>2
  <2>4. QED
    BY <2>3
<1>11. QED
  BY <1>8, <1>9, <1>10

-----------------------------------------------------------------------------
(***************************************************************************)
(* schedule()                                                              *)
(***************************************************************************)

\* Looking at a task keeps its settings and its timers. Without a URL that is ready it
\* leaves a timer or finds a transport missing.
TimersRel(task, here, long, y) ==
    /\ y \in Task
    /\ y.interval = task.interval /\ y.failure = task.failure /\ y.urls = task.urls
    /\ MightRun(task) /\ ~TaskReady(task, here, long) =>
           \/ y.timer
           \/ /\ ~task.recent
              /\ Unready(task, here, long) = DOMAIN task.urls
              /\ \A i \in DOMAIN task.urls : task.urls[i] # Other
                                             /\ (task.urls[i] \in here => task.urls[i] \in y.urlTimers)

\* The timers of a task
LEMMA TimersIs ==
    ASSUME NEW task \in Task, NEW here \in SUBSET Transports, NEW long
    PROVE  TimersRel(task, here, long, TaskTimers(task, here, long))
<1>1. PICK y : y = TaskTimers(task, here, long)
  OBVIOUS
<1>2. CASE ~task.interval \/ task.failure
  <2>1. y = task
    BY <1>1, <1>2 DEF TaskTimers
  <2>2. QED
    BY <1>1, <1>2, <2>1 DEF TimersRel, MightRun
<1>3. CASE task.interval /\ ~task.failure /\ task.recent
  <2>1. y = [task EXCEPT !.timer = TRUE]
    BY <1>1, <1>3 DEF TaskTimers
  <2>2. y \in Task
    BY <2>1 DEF Task
  <2>3. y.interval = task.interval /\ y.failure = task.failure /\ y.urls = task.urls /\ y.timer
    BY <2>1 DEF Task
  <2>4. QED
    BY <1>1, <2>2, <2>3 DEF TimersRel
<1>4. CASE task.interval /\ ~task.failure /\ ~task.recent
  <2>1. PICK w : w = {task.urls[i] : i \in Unready(task, here, long)}
    OBVIOUS
  <2>2. PICK u : u = task.urlTimers \cup (w \cap here)
    OBVIOUS
  <2>3. u \in SUBSET Transports
    BY <2>2 DEF Task
  <2>4. y = [task EXCEPT !.urlTimers = u]
    BY <1>1, <1>4, <2>1, <2>2 DEF TaskTimers, Task
  <2>5. y \in Task
    BY <2>3, <2>4 DEF Task
  <2>6. y.interval = task.interval /\ y.failure = task.failure /\ y.urls = task.urls /\ y.urlTimers = u
    BY <2>4 DEF Task
  <2>7. ASSUME ~TaskReady(task, here, long)
        PROVE  /\ Unready(task, here, long) = DOMAIN task.urls
               /\ \A i \in DOMAIN task.urls : task.urls[i] # Other
                                              /\ (task.urls[i] \in here => task.urls[i] \in u)
    <3>1. Unready(task, here, long) = DOMAIN task.urls
      BY <1>4, <2>7 DEF TaskReady
    <3>2. task.urls \in Seq(Transports \cup {Other})
      BY DEF Task
    <3>3. ASSUME NEW i \in DOMAIN task.urls
          PROVE  task.urls[i] # Other /\ (task.urls[i] \in here => task.urls[i] \in u)
      <4>1. i \in Unready(task, here, long) /\ i \in 1..i
        BY <3>1, <3>2, <3>3
      <4>2. ~UrlReady(task, task.urls[i], here, long)
        BY <4>1 DEF Unready
      <4>3. task.urls[i] \in w
        BY <2>1, <4>1
      <4>4. QED
        BY <2>2, <4>2, <4>3 DEF UrlReady
    <3>4. QED
      BY <3>1, <3>3
  <2>8. QED
    BY <1>1, <1>4, <2>5, <2>6, <2>7 DEF TimersRel
<1>5. QED
  BY <1>2, <1>3, <1>4 DEF Task

\* Looking at some tasks
LookRel(x, looked, here, long, y) ==
    /\ y \in Manager
    /\ y.idleConnection = x.idleConnection /\ y.unseen = x.unseen
    /\ y.active = x.active /\ y.waiting = x.waiting
    /\ \A c \in Configs \ looked : y.task[c] = x.task[c]
    /\ \A c \in looked : TimersRel(x.task[c], here, long, y.task[c])
    /\ \A c \in looked, t \in Transports : Missing(x.task[c], here, long, t) # {} => y.watches[t] > 0

\* The loop over the tasks
LEMMA LookIs ==
    ASSUME NEW x \in Manager, NEW looked \in SUBSET Configs, NEW here \in SUBSET Transports, NEW long
    PROVE  LookRel(x, looked, here, long, LookAt(x, looked, here, long))
<1>1. PICK task : task = [c \in Configs |-> IF c \in looked THEN TaskTimers(x.task[c], here, long) ELSE x.task[c]]
  OBVIOUS
<1>2. PICK w : w = [t \in Transports |-> Cap(x.watches[t] + NewWatches(x, looked, here, long, t))]
  OBVIOUS
<1>3. \A c \in Configs : x.task[c] \in Task
  BY DEF Manager
<1>4. \A c \in looked : TimersRel(x.task[c], here, long, task[c])
  BY <1>1, <1>3, TimersIs
<1>5. task \in [Configs -> Task]
  BY <1>1, <1>3, <1>4 DEF TimersRel
<1>6. ASSUME NEW t \in Transports
      PROVE  /\ w[t] \in 0..MaxWatches
             /\ (\E c \in looked : Missing(x.task[c], here, long, t) # {}) => w[t] > 0
  <2>1. PICK n \in Nat : n = NewWatches(x, looked, here, long, t)
    BY WatchesOf
  <2>2. (\E c \in looked : Missing(x.task[c], here, long, t) # {}) => n > 0
    BY <2>1, WatchesOf
  <2>3. x.watches[t] \in Nat /\ MaxWatches \in Nat /\ MaxWatches > 0
    BY AutoSyncAssumption DEF Manager
  <2>4. w[t] = Cap(x.watches[t] + n)
    BY <1>2, <2>1
  <2>5. w[t] \in 0..MaxWatches /\ (n > 0 => w[t] > 0)
    BY <2>3, <2>4 DEF Cap
  <2>6. QED
    BY <2>2, <2>5
<1>7. w \in [Transports -> 0..MaxWatches]
  BY <1>2, <1>6
<1>8. PICK y : y = LookAt(x, looked, here, long)
  OBVIOUS
<1>9. y = [x EXCEPT !.task = task, !.watches = w]
  BY <1>1, <1>2, <1>8 DEF LookAt, LookAtTimersOnly, Manager
<1>10. y \in Manager
  BY <1>5, <1>7, <1>9 DEF Manager
<1>11. /\ y.task = task /\ y.watches = w /\ y.idleConnection = x.idleConnection
       /\ y.unseen = x.unseen /\ y.active = x.active /\ y.waiting = x.waiting
  BY <1>9 DEF Manager
<1>12. \A c \in Configs \ looked : task[c] = x.task[c]
  BY <1>1
<1>13. QED
  BY <1>4, <1>6, <1>8, <1>10, <1>11, <1>12 DEF LookRel

\* A task which was looked at and not found ready has a timer or is watched.
LEMMA LookedAt ==
    ASSUME NEW x \in Manager, NEW looked \in SUBSET Configs, NEW here \in SUBSET Transports, NEW long,
           NEW z, LookRel(x, looked, here, long, z),
           NEW c \in looked, MightRun(z.task[c]), ~TaskReady(x.task[c], here, long), ~z.task[c].timer
    PROVE  Watched(z.task[c], here, z.watches)
<1>1. TimersRel(x.task[c], here, long, z.task[c])
  BY DEF LookRel
<1>2. MightRun(x.task[c]) /\ z.task[c].urls = x.task[c].urls
  BY <1>1 DEF TimersRel, MightRun
<1>3. /\ ~x.task[c].recent
      /\ Unready(x.task[c], here, long) = DOMAIN x.task[c].urls
      /\ \A i \in DOMAIN x.task[c].urls : x.task[c].urls[i] # Other
                        /\ (x.task[c].urls[i] \in here => x.task[c].urls[i] \in z.task[c].urlTimers)
  BY <1>1, <1>2 DEF TimersRel
<1>4. ASSUME NEW i \in DOMAIN x.task[c].urls, x.task[c].urls[i] \notin here
      PROVE  z.watches[x.task[c].urls[i]] > 0
  <2>1. x.task[c].urls \in Seq(Transports \cup {Other})
    BY DEF Manager, Task
  <2>2. x.task[c].urls[i] \in Transports
    BY <1>3, <1>4, <2>1
  <2>3. i \in Missing(x.task[c], here, long, x.task[c].urls[i])
    BY <1>2, <1>3, <1>4 DEF Missing, MightRun
  <2>4. QED
    BY <2>2, <2>3 DEF LookRel
<1>5. QED
  BY <1>2, <1>3, <1>4 DEF Watched

\* From x to y timers and connections are kept, and no task gets due.
Keeps(x, y) ==
    /\ y \in Manager
    /\ y.watches = x.watches /\ y.idleConnection = x.idleConnection
    /\ \A d \in Configs : /\ Due(y, d) => Due(x, d)
                          /\ y.task[d].timer = x.task[d].timer /\ y.task[d].urls = x.task[d].urls
                          /\ y.task[d].urlTimers = x.task[d].urlTimers

\* Then tasks are looked at again as before, unless the server has become idle.
LEMMA KeepsRested ==
    ASSUME NEW x, NEW y, NEW here, Keeps(x, y), Rested(x, here),
           IsIdle(x) \/ ~IsIdle(y) \/ ~x.idleConnection
    PROVE  Rested(y, here)
<1>1. \A d \in Configs : Watched(x.task[d], here, x.watches) => Watched(y.task[d], here, y.watches)
  BY DEF Keeps, Watched
<1>2. QED
  BY <1>1 DEF Keeps, Rested

\* y is x with another task for c, which has the same URLs and timers and does not get
\* due.
Retasked(x, c, k, unseen, y) ==
    /\ k \in Task /\ k.timer = x.task[c].timer /\ k.urls = x.task[c].urls
    /\ k.urlTimers = x.task[c].urlTimers
    /\ unseen \in SUBSET Configs /\ x.unseen \subseteq unseen
    /\ MightRun(k) /\ c \notin unseen => MightRun(x.task[c])
    /\ y = [x EXCEPT !.task = [x.task EXCEPT ![c] = k], !.unseen = unseen]

\* sessionStarted() and anySyncDone() for a session of c
SessionRel(x, c, y) ==
    /\ Keeps(x, y) /\ y.active = x.active /\ y.waiting = x.waiting
    /\ \A d \in Configs \ {c} : y.task[d] = x.task[d]

\* Such a change keeps timers and connections.
LEMMA TaskKeeps ==
    ASSUME NEW x \in Manager, NEW c \in Configs, NEW k, NEW unseen, NEW y,
           Retasked(x, c, k, unseen, y)
    PROVE  SessionRel(x, c, y) /\ y.task[c] = k
<1>0. /\ k \in Task /\ k.timer = x.task[c].timer /\ k.urls = x.task[c].urls
      /\ k.urlTimers = x.task[c].urlTimers
      /\ unseen \in SUBSET Configs /\ x.unseen \subseteq unseen
      /\ MightRun(k) /\ c \notin unseen => MightRun(x.task[c])
      /\ y = [x EXCEPT !.task = [x.task EXCEPT ![c] = k], !.unseen = unseen]
  BY DEF Retasked
<1>1. x.task \in [Configs -> Task]
  BY DEF Manager
<1>2. PICK task : task = [x.task EXCEPT ![c] = k]
  OBVIOUS
<1>3. task \in [Configs -> Task] /\ task[c] = k /\ \A d \in Configs \ {c} : task[d] = x.task[d]
  BY <1>0, <1>1, <1>2
<1>4. y = [x EXCEPT !.task = task, !.unseen = unseen]
  BY <1>0, <1>2
<1>5. y \in Manager
  BY <1>0, <1>3, <1>4 DEF Manager
<1>6. /\ y.task = task /\ y.watches = x.watches /\ y.idleConnection = x.idleConnection
      /\ y.active = x.active /\ y.waiting = x.waiting /\ y.unseen = unseen
  BY <1>4 DEF Manager
<1>7. \A d \in Configs : /\ Due(y, d) => Due(x, d)
                         /\ y.task[d].timer = x.task[d].timer /\ y.task[d].urls = x.task[d].urls
                         /\ y.task[d].urlTimers = x.task[d].urlTimers
  BY <1>0, <1>3, <1>6 DEF Due
<1>8. QED
  BY <1>3, <1>5, <1>6, <1>7 DEF Keeps, SessionRel

\* sessionStarted() only notes the time.
LEMMA StartedIs ==
    ASSUME NEW x \in Manager, NEW c \in Configs
    PROVE  SessionRel(x, c, SessionStarted(x, c))
<1>1. PICK y : y = SessionStarted(x, c)
  OBVIOUS
<1>2. CASE ~x.task[c].known
  BY <1>1, <1>2 DEF SessionStarted, SessionRel, Keeps
<1>3. CASE x.task[c].known
  <2>1. PICK k : k = [x.task[c] EXCEPT !.recent = TRUE]
    OBVIOUS
  <2>2. x.task[c] \in Task /\ x.unseen \in SUBSET Configs
    BY DEF Manager
  <2>3. k \in Task /\ k.interval = x.task[c].interval /\ k.failure = x.task[c].failure /\ k.urls = x.task[c].urls
        /\ k.timer = x.task[c].timer /\ k.urlTimers = x.task[c].urlTimers
    BY <2>1, <2>2 DEF Task
  <2>4. MightRun(k) => MightRun(x.task[c])
    BY <2>3 DEF MightRun
  <2>5. y = [x EXCEPT !.task = [x.task EXCEPT ![c] = k], !.unseen = x.unseen]
    BY <1>1, <1>3, <2>1 DEF SessionStarted, Manager
  <2>6. Retasked(x, c, k, x.unseen, y)
    BY <2>2, <2>3, <2>4, <2>5 DEF Retasked
  <2>7. QED
    BY <1>1, <2>6, TaskKeeps
<1>4. QED
  BY <1>2, <1>3

\* anySyncDone() switches a task off, or enables one that is not seen.
LEMMA DoneIs ==
    ASSUME NEW x \in Manager, NEW c \in Configs, NEW status
    PROVE  /\ SessionRel(x, c, AnySyncDone(x, c, status))
           /\ status = "permanent" => ~MightRun(AnySyncDone(x, c, status).task[c])
<1>1. PICK y : y = AnySyncDone(x, c, status)
  OBVIOUS
<1>2. PICK b \in BOOLEAN : b = (status = "permanent")
  OBVIOUS
<1>3. PICK k : k = [x.task[c] EXCEPT !.failure = b]
  OBVIOUS
<1>4. x.task[c] \in Task /\ x.unseen \in SUBSET Configs
  BY DEF Manager
<1>5. k \in Task /\ k.interval = x.task[c].interval /\ k.failure = b /\ k.urls = x.task[c].urls
      /\ k.timer = x.task[c].timer /\ k.urlTimers = x.task[c].urlTimers
  BY <1>3, <1>4 DEF Task
<1>6. PICK unseen : unseen = IF x.task[c].failure /\ status # "permanent" THEN x.unseen \cup {c} ELSE x.unseen
  OBVIOUS
<1>7. unseen \in SUBSET Configs /\ x.unseen \subseteq unseen
  BY <1>4, <1>6
<1>8. MightRun(k) /\ c \notin unseen => MightRun(x.task[c])
  BY <1>2, <1>5, <1>6 DEF MightRun
<1>9. y = [x EXCEPT !.task = [x.task EXCEPT ![c] = k], !.unseen = unseen]
  BY <1>1, <1>2, <1>3, <1>6 DEF AnySyncDone, Manager
<1>13. Retasked(x, c, k, unseen, y)
  BY <1>5, <1>7, <1>8, <1>9 DEF Retasked
<1>10. SessionRel(x, c, y) /\ y.task[c] = k
  BY <1>13, TaskKeeps
<1>11. status = "permanent" => ~MightRun(k)
  BY <1>2, <1>5 DEF MightRun
<1>12. QED
  BY <1>1, <1>10, <1>11

\* The server is busy, or the start of the sync has failed.
RunRel(x, c, fails, y) ==
    /\ y \in Manager
    /\ ~fails => ~IsIdle(y)
    /\ fails => /\ y.watches = x.watches /\ y.unseen = {d \in Configs : d > c}
                /\ ~MightRun(y.task[c]) /\ \A d \in Configs \ {c} : y.task[d] = x.task[d]

\* The last part of schedule()
LEMMA RunIs ==
    ASSUME NEW x \in Manager, NEW c \in Configs, NEW fails \in BOOLEAN
    PROVE  RunRel(x, c, fails, RunAutoSync(x, c, fails))
<1>1. PICK y : y = SessionStarted(x, c)
  OBVIOUS
<1>2. y \in Manager /\ y.watches = x.watches /\ \A d \in Configs \ {c} : y.task[d] = x.task[d]
  BY <1>1, StartedIs DEF SessionRel, Keeps
<1>3. PICK z : z = RunAutoSync(x, c, fails)
  OBVIOUS
<1>4. CASE fails
  <2>1. PICK w : w = AnySyncDone(y, c, "permanent")
    OBVIOUS
  <2>2. SessionRel(y, c, w) /\ ~MightRun(w.task[c])
    BY <1>2, <2>1, DoneIs
  <2>3. w \in Manager /\ w.watches = y.watches /\ \A d \in Configs \ {c} : w.task[d] = y.task[d]
    BY <2>2 DEF SessionRel, Keeps
  <2>4. PICK unseen : unseen = {d \in Configs : d > c}
    OBVIOUS
  <2>5. z = [w EXCEPT !.unseen = unseen]
    BY <1>1, <1>3, <1>4, <2>1, <2>4 DEF RunAutoSync
  <2>6. z \in Manager /\ z.watches = w.watches /\ z.task = w.task /\ z.unseen = unseen
    BY <2>3, <2>4, <2>5 DEF Manager
  <2>7. QED
    BY <1>2, <1>3, <1>4, <2>2, <2>3, <2>4, <2>6 DEF RunRel
<1>5. CASE ~fails
  <2>1. PICK a : a = [config |-> c, auto |-> TRUE, syncing |-> TRUE]
    OBVIOUS
  <2>2. a \in Sessions /\ a # NoSession
    <3>1. a \in Sessions /\ a.config = c /\ c # 0
      BY <2>1, AutoSyncAssumption DEF Sessions, Configs
    <3>2. NoSession.config = 0
      BY DEF NoSession
    <3>3. QED
      BY <3>1, <3>2
  <2>3. z = [y EXCEPT !.active = a]
    BY <1>1, <1>3, <1>5, <2>1 DEF RunAutoSync
  <2>4. z \in Manager /\ z.active = a
    BY <1>2, <2>2, <2>3 DEF Manager
  <2>5. QED
    BY <1>3, <1>5, <2>2, <2>4 DEF RunRel, IsIdle
<1>6. QED
  BY <1>4, <1>5

\* Each enabled task is going to be looked at again after schedule(), also if it has
\* chosen one that cannot be started: those before that one have their timers.
LEMMA ScheduleIs ==
    ASSUME NEW x \in Manager, NEW here \in SUBSET Transports, NEW long, NEW fails \in BOOLEAN
    PROVE  /\ Schedule(x, here, long, fails) \in Manager
           /\ Rested(Schedule(x, here, long, fails), here)
<1>1. PICK y : y = [x EXCEPT !.idleConnection = FALSE, !.unseen = {}]
  OBVIOUS
<1>2. y \in Manager
  BY <1>1 DEF Manager
<1>3. y.task = x.task /\ y.active = x.active /\ y.waiting = x.waiting
  BY <1>1 DEF Manager
<1>4. PICK ready : ready = {c \in Configs : TaskReady(x.task[c], here, long)}
  OBVIOUS
<1>5. PICK z : z = Schedule(x, here, long, fails)
  OBVIOUS
<1>6. CASE ~PreventTerm(x)
  <2>1. z = y
    BY <1>1, <1>5, <1>6 DEF Schedule, ScheduleWithoutIdle
  <2>2. \A c \in Configs : ~MightRun(y.task[c])
    BY <1>3, <1>6 DEF PreventTerm
  <2>3. QED
    BY <1>2, <1>5, <2>1, <2>2 DEF Rested, Due
<1>7. CASE PreventTerm(x) /\ ~IsIdle(x)
  <2>1. z = [y EXCEPT !.idleConnection = TRUE]
    BY <1>1, <1>2, <1>5, <1>7 DEF Schedule, ScheduleWithoutIdle, Manager
  <2>2. z \in Manager
    BY <1>2, <2>1 DEF Manager
  <2>3. z.active = y.active /\ z.waiting = y.waiting /\ z.idleConnection
    BY <1>2, <2>1 DEF Manager
  <2>4. ~IsIdle(z)
    BY <1>3, <1>7, <2>3 DEF IsIdle
  <2>5. QED
    BY <1>5, <2>2, <2>3, <2>4 DEF Rested
<1>8. CASE PreventTerm(x) /\ IsIdle(x) /\ ready = {}
  <2>1. z = LookAt(y, Configs, here, long)
    BY <1>1, <1>4, <1>5, <1>8 DEF Schedule, ScheduleWithoutIdle
  <2>2. LookRel(y, Configs, here, long, z)
    BY <1>2, <2>1, LookIs
  <2>3. \A c \in Configs : ~TaskReady(y.task[c], here, long)
    BY <1>3, <1>4, <1>8
  <2>4. ASSUME NEW c \in Configs, MightRun(z.task[c]), ~z.task[c].timer
        PROVE  Watched(z.task[c], here, z.watches)
    <3>1. Configs \in SUBSET Configs
      OBVIOUS
    <3>2. QED
      BY <1>2, <2>2, <2>3, <2>4, <3>1, LookedAt
  <2>5. QED
    BY <1>5, <2>2, <2>4 DEF Rested, Due, LookRel
<1>9. CASE PreventTerm(x) /\ IsIdle(x) /\ ready # {}
  <2>1. PICK c \in ready : c = Min(ready) /\ \A d \in ready : c <= d
    BY <1>4, <1>9, FirstOf
  <2>2. c \in Configs /\ 1..c \in SUBSET Configs
    <3>1. c \in 1..NumConfigs /\ NumConfigs \in Nat
      BY <1>4, <2>1, AutoSyncAssumption DEF Configs
    <3>2. \A i \in 1..c : i \in 1..NumConfigs
      BY <3>1
    <3>3. QED
      BY <3>1, <3>2 DEF Configs
  <2>3. PICK l : l = LookAt(y, 1..c, here, long)
    OBVIOUS
  <2>4. LookRel(y, 1..c, here, long, l)
    BY <1>2, <2>2, <2>3, LookIs
  <2>5. PICK r : r = RunAutoSync(l, c, fails)
    OBVIOUS
  <2>6. RunRel(l, c, fails, r)
    BY <2>2, <2>4, <2>5, RunIs DEF LookRel
  <2>7. z = [r EXCEPT !.idleConnection = TRUE]
    <3>1. ScheduleWithoutIdle(x, here, long, fails) = r
      BY <1>1, <1>4, <1>9, <2>1, <2>3, <2>5 DEF ScheduleWithoutIdle
    <3>2. \E d \in Configs : TaskReady(x.task[d], here, long)
      BY <1>4, <2>1
    <3>3. QED
      BY <1>5, <1>9, <3>1, <3>2 DEF Schedule
  <2>8. r \in Manager
    BY <2>6 DEF RunRel
  <2>9. z \in Manager
    BY <2>7, <2>8 DEF Manager
  <2>10. z.task = r.task /\ z.watches = r.watches /\ z.unseen = r.unseen
         /\ z.active = r.active /\ z.waiting = r.waiting /\ z.idleConnection
    BY <2>7, <2>8 DEF Manager
  <2>11. CASE ~fails
    <3>1. ~IsIdle(z)
      BY <2>6, <2>10, <2>11 DEF RunRel, IsIdle
    <3>2. QED
      BY <1>5, <2>9, <2>10, <3>1 DEF Rested
  <2>12. CASE fails
    <3>1. /\ z.watches = l.watches /\ z.unseen = {d \in Configs : d > c}
          /\ ~MightRun(z.task[c]) /\ \A d \in Configs \ {c} : z.task[d] = l.task[d]
      BY <2>6, <2>10, <2>12 DEF RunRel
    <3>2. ASSUME NEW d \in Configs, Due(z, d), ~z.task[d].timer
          PROVE  Watched(z.task[d], here, z.watches)
      <4>1. MightRun(z.task[d]) /\ d # c /\ ~(d > c)
        BY <3>1, <3>2 DEF Due
      <4>2. d \in 1..c /\ ~(c <= d)
        BY <2>2, <4>1, AutoSyncAssumption DEF Configs
      <4>3. z.task[d] = l.task[d] /\ MightRun(l.task[d]) /\ ~l.task[d].timer
        BY <3>1, <3>2, <4>1
      <4>4. ~TaskReady(y.task[d], here, long)
        BY <1>3, <1>4, <2>1, <4>2
      <4>5. Watched(l.task[d], here, l.watches)
        BY <1>2, <2>2, <2>4, <4>2, <4>3, <4>4, LookedAt
      <4>6. QED
        BY <3>1, <4>3, <4>5
    <3>3. QED
      BY <1>5, <2>9, <3>2 DEF Rested
  <2>13. QED
    BY <2>11, <2>12
<1>10. QED
  BY <1>6, <1>7, <1>8, <1>9

\* The idle signal
LEMMA IdleIs ==
    ASSUME NEW x \in Manager, NEW here \in SUBSET Transports, NEW long, NEW fails \in BOOLEAN
    PROVE  /\ IdleSignal(x, here, long, fails) \in Manager
           /\ \/ Rested(IdleSignal(x, here, long, fails), here)
              \/ ~x.idleConnection /\ IdleSignal(x, here, long, fails) = x
<1>1. CASE x.idleConnection
  BY <1>1, ScheduleIs DEF IdleSignal
<1>2. CASE ~x.idleConnection
  BY <1>2 DEF IdleSignal
<1>3. QED
  BY <1>1, <1>2

\* The end of a session
LEMMA DequeueIs ==
    ASSUME NEW x \in Manager, NEW here \in SUBSET Transports, NEW long, NEW fails \in BOOLEAN
    PROVE  /\ Dequeue(x, here, long, fails) \in Manager
           /\ Rested(x, here) => Rested(Dequeue(x, here, long, fails), here)
<1>1. PICK y : y = [x EXCEPT !.active = x.waiting, !.waiting = NoSession]
  OBVIOUS
<1>2. y \in Manager
  BY <1>1 DEF Manager
<1>3. Keeps(x, y)
  <2>1. y.task = x.task /\ y.unseen = x.unseen /\ y.idleConnection = x.idleConnection /\ y.watches = x.watches
    BY <1>1 DEF Manager
  <2>2. QED
    BY <1>2, <2>1 DEF Keeps, Due
<1>4. ASSUME Rested(x, here), ~IsIdle(y) \/ ~y.idleConnection
      PROVE  Rested(y, here)
  <2>1. y.idleConnection = x.idleConnection
    BY <1>3 DEF Keeps
  <2>2. QED
    BY <1>3, <1>4, <2>1, KeepsRested
<1>5. CASE IsIdle(y)
  <2>1. Dequeue(x, here, long, fails) = IdleSignal(y, here, long, fails)
    BY <1>1, <1>5 DEF Dequeue
  <2>2. QED
    BY <1>2, <1>4, <2>1, IdleIs
<1>6. CASE ~IsIdle(y)
  <2>1. Dequeue(x, here, long, fails) = y
    BY <1>1, <1>6 DEF Dequeue
  <2>2. QED
    BY <1>2, <1>4, <1>6, <2>1
<1>7. QED
  BY <1>5, <1>6

-----------------------------------------------------------------------------
(***************************************************************************)
(* Steps.                                                                  *)
(***************************************************************************)

\* The types of the other variables
Counters ==
    /\ present \in SUBSET Transports /\ stable \subseteq present
    /\ slots \in 0..MaxWatches /\ changes \in 0..MaxChanges /\ sessions \in 0..MaxSessions

\* TypeOK in two parts
LEMMA TypeIs == TypeOK <=> mgr \in Manager /\ Counters
<1>1. QED
  BY DEF TypeOK, Manager, Counters

\* A step that leads to y
LEMMA Leads ==
    ASSUME NEW y, mgr' = y, y \in Manager, Counters', slots' > 0 \/ Rested(y, present')
    PROVE  IInv'
<1>1. TypeOK'
  <2>1. (mgr \in Manager)'
    BY DEF Manager, Configs, Task, Sessions, NoSession
  <2>2. QED
    BY <2>1, TypeIs DEF TypeOK, Manager, Counters
<1>2. Rested(y, present') => Rested(mgr, present)'
  BY DEF Rested
<1>3. QED
  BY <1>1, <1>2 DEF IInv

\* What is true before a step
LEMMA Known ==
    ASSUME IInv
    PROVE  mgr \in Manager /\ Counters /\ (slots = 0 => Rested(mgr, present))
<1>1. QED
  BY TypeIs DEF IInv

\* A step that calls schedule()
LEMMA Scheduled ==
    ASSUME IInv, NEW x \in Manager, NEW fails \in BOOLEAN,
           mgr' = Schedule(x, present, stable, fails), Counters', present' = present
    PROVE  IInv'
<1>1. PICK y : y = Schedule(x, present, stable, fails)
  OBVIOUS
<1>2. present \in SUBSET Transports
  BY Known DEF Counters
<1>3. y \in Manager /\ Rested(y, present)
  BY <1>1, <1>2, ScheduleIs
<1>4. QED
  BY <1>1, <1>3, Leads

\* The manager with another task for c
LEMMA OtherTask ==
    ASSUME NEW x \in Manager, NEW c \in Configs, NEW k \in Task
    PROVE  [x EXCEPT !.task = [x.task EXCEPT ![c] = k]] \in Manager
<1>1. PICK task : task = [x.task EXCEPT ![c] = k]
  OBVIOUS
<1>2. task \in [Configs -> Task]
  BY <1>1 DEF Manager
<1>3. [x EXCEPT !.task = task] \in Manager
  BY <1>2 DEF Manager
<1>4. QED
  BY <1>1, <1>3

\* initConfig()
LEMMA InitConfigKeeps ==
    ASSUME IInv, NEW c \in Configs, InitConfig(c)
    PROVE  IInv'
<1>1. PICK s \in Settings, recent \in BOOLEAN, fails \in BOOLEAN :
          mgr' = Schedule(LockAutoTerm([mgr EXCEPT !.task[c] = [@ EXCEPT !.known = TRUE,
                          !.interval = s.interval, !.delay = s.delay, !.urls = s.urls,
                          !.failure = FALSE, !.recent = recent]]), present, stable, fails)
  BY DEF InitConfig
<1>2. PICK k : k = [mgr.task[c] EXCEPT !.known = TRUE, !.interval = s.interval, !.delay = s.delay,
                                       !.urls = s.urls, !.failure = FALSE, !.recent = recent]
  OBVIOUS
<1>3. mgr \in Manager /\ mgr.task[c] \in Task
  BY Known DEF Manager
<1>4. s.interval \in BOOLEAN /\ s.delay \in BOOLEAN /\ s.urls \in Seq(Transports \cup {Other})
  BY AutoSyncAssumption
<1>5. k \in Task
  BY <1>2, <1>3, <1>4 DEF Task
<1>6. PICK x : x = [mgr EXCEPT !.task = [mgr.task EXCEPT ![c] = k]]
  OBVIOUS
<1>7. x \in Manager
  BY <1>3, <1>5, <1>6, OtherTask
<1>8. PICK b \in BOOLEAN : b = PreventTerm(x)
  BY DEF PreventTerm
<1>9. PICK y : y = LockAutoTerm(x)
  OBVIOUS
<1>10. y = [x EXCEPT !.autoTermLocked = b]
  BY <1>8, <1>9 DEF LockAutoTerm
<1>11. y \in Manager
  BY <1>7, <1>10 DEF Manager
<1>12. mgr' = Schedule(y, present, stable, fails)
  BY <1>1, <1>2, <1>6, <1>9
<1>13. Counters' /\ present' = present
  BY Known, AutoSyncAssumption DEF InitConfig, Counters
<1>14. QED
  BY <1>11, <1>12, <1>13, Scheduled

\* m_intervalTimeout, m_httpTimeout and m_btTimeout
LEMMA TimersKeep ==
    ASSUME IInv, NEW c \in Configs, IntervalTimer(c) \/ \E t \in Transports : UrlTimer(c, t)
    PROVE  IInv'
<1>1. mgr \in Manager /\ mgr.task[c] \in Task /\ Counters
  BY Known DEF Manager
<1>2. Counters' /\ present' = present
  BY <1>1 DEF IntervalTimer, UrlTimer, Counters
<1>3. CASE IntervalTimer(c)
  <2>1. PICK fails \in BOOLEAN : mgr' = Schedule([mgr EXCEPT !.task[c].timer = FALSE], present, stable, fails)
    BY <1>3 DEF IntervalTimer
  <2>2. PICK k : k = [mgr.task[c] EXCEPT !.timer = FALSE]
    OBVIOUS
  <2>3. k \in Task
    BY <1>1, <2>2 DEF Task
  <2>4. PICK x : x = [mgr EXCEPT !.task = [mgr.task EXCEPT ![c] = k]]
    OBVIOUS
  <2>5. x \in Manager
    BY <1>1, <2>3, <2>4, OtherTask
  <2>6. mgr' = Schedule(x, present, stable, fails)
    BY <2>1, <2>2, <2>4
  <2>7. QED
    BY <1>2, <2>5, <2>6, Scheduled
<1>4. ASSUME NEW t \in Transports, UrlTimer(c, t)
      PROVE  IInv'
  <2>1. PICK fails \in BOOLEAN : mgr' = Schedule([mgr EXCEPT !.task[c].urlTimers = @ \ {t}], present, stable, fails)
    BY <1>4 DEF UrlTimer
  <2>2. PICK k : k = [mgr.task[c] EXCEPT !.urlTimers = @ \ {t}]
    OBVIOUS
  <2>3. k \in Task
    BY <1>1, <2>2 DEF Task
  <2>4. PICK x : x = [mgr EXCEPT !.task = [mgr.task EXCEPT ![c] = k]]
    OBVIOUS
  <2>5. x \in Manager
    BY <1>1, <2>3, <2>4, OtherTask
  <2>6. mgr' = Schedule(x, present, stable, fails)
    BY <2>1, <2>2, <2>4
  <2>7. QED
    BY <1>2, <2>5, <2>6, Scheduled
<1>5. QED
  BY <1>3, <1>4

\* Time passes.
LEMMA TimePasses ==
    ASSUME IInv, (\E c \in Configs : IntervalPasses(c)) \/ (\E t \in Transports : DelayPasses(t))
    PROVE  IInv'
<1>1. mgr \in Manager /\ Counters /\ slots = 0 /\ Rested(mgr, present)
  BY Known DEF IntervalPasses, DelayPasses, MainLoop
<1>2. Counters' /\ present' = present
  BY <1>1 DEF IntervalPasses, DelayPasses, Counters
<1>3. ASSUME NEW c \in Configs, IntervalPasses(c)
      PROVE  IInv'
  <2>1. PICK k : k = [mgr.task[c] EXCEPT !.recent = FALSE]
    OBVIOUS
  <2>2. mgr.task[c] \in Task /\ mgr.unseen \in SUBSET Configs
    BY <1>1 DEF Manager
  <2>3. k \in Task /\ k.interval = mgr.task[c].interval /\ k.failure = mgr.task[c].failure
        /\ k.urls = mgr.task[c].urls /\ k.timer = mgr.task[c].timer /\ k.urlTimers = mgr.task[c].urlTimers
    BY <2>1, <2>2 DEF Task
  <2>4. MightRun(k) => MightRun(mgr.task[c])
    BY <2>3 DEF MightRun
  <2>5. PICK y : y = mgr'
    OBVIOUS
  <2>6. y = [mgr EXCEPT !.task = [mgr.task EXCEPT ![c] = k], !.unseen = mgr.unseen]
    BY <1>1, <1>3, <2>1, <2>5 DEF IntervalPasses, Manager
  <2>10. Retasked(mgr, c, k, mgr.unseen, y)
    BY <2>2, <2>3, <2>4, <2>6 DEF Retasked
  <2>7. Keeps(mgr, y) /\ y.active = mgr.active /\ y.waiting = mgr.waiting
    BY <1>1, <2>10, TaskKeeps DEF SessionRel
  <2>8. Rested(y, present)
    <3>1. IsIdle(mgr) \/ ~IsIdle(y)
      BY <2>7 DEF IsIdle
    <3>2. QED
      BY <1>1, <2>7, <3>1, KeepsRested
  <2>9. QED
    BY <1>2, <2>5, <2>7, <2>8, Leads DEF Keeps
<1>4. ASSUME NEW t \in Transports, DelayPasses(t)
      PROVE  IInv'
  <2>1. mgr' = mgr
    BY <1>4 DEF DelayPasses
  <2>2. QED
    BY <1>1, <1>2, <2>1, Leads
<1>5. QED
  BY <1>3, <1>4

\* A transport appears or disappears. Without any connection nobody relies on that.
LEMMA PresenceKeeps ==
    ASSUME IInv, NEW t \in Transports, PresenceChanges(t)
    PROVE  IInv'
<1>1. mgr \in Manager /\ Counters /\ mgr' = mgr /\ Rested(mgr, present) /\ slots' = mgr.watches[t]
  BY Known DEF PresenceChanges, MainLoop
<1>2. mgr.watches[t] \in 0..MaxWatches /\ MaxWatches \in Nat
  BY <1>1, AutoSyncAssumption DEF Manager
<1>3. Counters'
  BY <1>1, <1>2 DEF Counters, PresenceChanges
<1>4. \A u : u # t => (u \in present' <=> u \in present)
  BY DEF PresenceChanges
<1>5. ASSUME ~(slots' > 0)
      PROVE  Rested(mgr, present')
  <2>1. ~(mgr.watches[t] > 0)
    BY <1>1, <1>5
  <2>2. \A c \in Configs : Watched(mgr.task[c], present, mgr.watches) => Watched(mgr.task[c], present', mgr.watches)
    BY <1>4, <2>1 DEF Watched
  <2>3. QED
    BY <1>1, <2>2 DEF Rested
<1>6. QED
  BY <1>1, <1>3, <1>5, Leads

\* The presence signal calls schedule().
LEMMA SlotKeeps ==
    ASSUME IInv, PresenceSlot
    PROVE  IInv'
<1>1. mgr \in Manager /\ Counters
  BY Known
<1>2. PICK fails \in BOOLEAN : mgr' = Schedule(mgr, present, stable, fails)
  BY DEF PresenceSlot
<1>3. Counters' /\ present' = present
  BY <1>1, AutoSyncAssumption DEF PresenceSlot, Counters
<1>4. QED
  BY <1>1, <1>2, <1>3, Scheduled

\* A client starts a session.
LEMMA ClientSessionKeeps ==
    ASSUME IInv, NEW c \in Configs, ClientSession(c)
    PROVE  IInv'
<1>1. mgr \in Manager /\ Counters /\ mgr.waiting = NoSession /\ Rested(mgr, present)
  BY Known DEF ClientSession, MainLoop
<1>2. Counters' /\ present' = present /\ present \in SUBSET Transports
  BY <1>1, AutoSyncAssumption DEF ClientSession, Counters
<1>3. PICK s : s = [config |-> c, auto |-> FALSE, syncing |-> FALSE]
  OBVIOUS
<1>4. s \in Sessions
  BY <1>3 DEF Sessions
<1>5. CASE mgr.active = NoSession
  <2>1. PICK x : x = [mgr EXCEPT !.active = s]
    OBVIOUS
  <2>2. PICK fails \in BOOLEAN : mgr' = IdleSignal(x, present, stable, fails)
    BY <1>3, <1>5, <2>1 DEF ClientSession
  <2>3. x \in Manager
    BY <1>1, <1>4, <2>1 DEF Manager
  <2>4. /\ x.task = mgr.task /\ x.unseen = mgr.unseen /\ x.idleConnection = mgr.idleConnection
        /\ x.watches = mgr.watches
    BY <1>1, <2>1 DEF Manager
  <2>5. Keeps(mgr, x) /\ IsIdle(mgr)
    BY <1>1, <1>5, <2>3, <2>4 DEF Keeps, Due, IsIdle
  <2>6. Rested(x, present)
    BY <1>1, <2>5, KeepsRested
  <2>7. PICK y : y = IdleSignal(x, present, stable, fails)
    OBVIOUS
  <2>8. y \in Manager /\ (Rested(y, present) \/ y = x)
    BY <1>2, <2>3, <2>7, IdleIs
  <2>9. QED
    BY <1>2, <2>2, <2>6, <2>7, <2>8, Leads
<1>6. CASE mgr.active # NoSession
  <2>1. PICK y : y = [mgr EXCEPT !.waiting = s]
    OBVIOUS
  <2>2. mgr' = y
    BY <1>3, <1>6, <2>1 DEF ClientSession
  <2>3. y \in Manager
    BY <1>1, <1>4, <2>1 DEF Manager
  <2>4. /\ y.task = mgr.task /\ y.unseen = mgr.unseen /\ y.idleConnection = mgr.idleConnection
        /\ y.watches = mgr.watches /\ y.active = mgr.active
    BY <1>1, <2>1 DEF Manager
  <2>5. Keeps(mgr, y) /\ ~IsIdle(y)
    BY <1>6, <2>3, <2>4 DEF Keeps, Due, IsIdle
  <2>6. Rested(y, present)
    BY <1>1, <2>5, KeepsRested
  <2>7. QED
    BY <1>2, <2>2, <2>3, <2>6, Leads
<1>7. QED
  BY <1>5, <1>6

\* A client runs a sync.
LEMMA ClientSyncKeeps ==
    ASSUME IInv, ClientSync
    PROVE  IInv'
<1>1. mgr \in Manager /\ Counters /\ mgr.active # NoSession /\ Rested(mgr, present)
  BY Known DEF ClientSync, MainLoop
<1>2. Counters' /\ present' = present
  BY <1>1 DEF ClientSync, Counters
<1>3. PICK c : c = mgr.active.config
  OBVIOUS
<1>4. mgr.active \in Sessions /\ c \in Configs
  BY <1>1, <1>3 DEF Manager, Sessions
<1>5. PICK a : a = [mgr.active EXCEPT !.syncing = TRUE]
  OBVIOUS
<1>6. a \in Sessions /\ a # NoSession
  <2>1. a \in Sessions
    BY <1>4, <1>5 DEF Sessions
  <2>2. a.config = c
    BY <1>3, <1>4, <1>5 DEF Sessions
  <2>3. NoSession.config = 0
    BY DEF NoSession
  <2>4. c # 0
    BY <1>4, AutoSyncAssumption DEF Configs
  <2>5. QED
    BY <2>1, <2>2, <2>3, <2>4
<1>7. PICK x : x = [mgr EXCEPT !.active = a]
  OBVIOUS
<1>8. x \in Manager
  BY <1>1, <1>6, <1>7 DEF Manager
<1>9. /\ x.task = mgr.task /\ x.unseen = mgr.unseen /\ x.idleConnection = mgr.idleConnection
      /\ x.watches = mgr.watches /\ x.active = a
  BY <1>1, <1>7 DEF Manager
<1>10. Keeps(mgr, x) /\ ~IsIdle(x)
  BY <1>6, <1>8, <1>9 DEF Keeps, Due, IsIdle
<1>11. Rested(x, present)
  BY <1>1, <1>10, KeepsRested
<1>12. PICK y : y = SessionStarted(x, c)
  OBVIOUS
<1>13. mgr' = y
  BY <1>3, <1>5, <1>7, <1>12 DEF ClientSync
<1>14. Keeps(x, y) /\ y.active = x.active
  BY <1>4, <1>8, <1>12, StartedIs DEF SessionRel
<1>15. ~IsIdle(y)
  BY <1>6, <1>9, <1>14 DEF IsIdle
<1>16. Rested(y, present)
  BY <1>11, <1>14, <1>15, KeepsRested
<1>17. QED
  BY <1>2, <1>13, <1>14, <1>16, Leads DEF Keeps

\* A session ends, with or without a sync.
LEMMA EndKeeps ==
    ASSUME IInv, NEW x \in Manager, Rested(x, present), NEW fails \in BOOLEAN,
           mgr' = Dequeue(x, present, stable, fails), UNCHANGED <<present, stable, slots, changes, sessions>>
    PROVE  IInv'
<1>1. Counters /\ present \in SUBSET Transports
  BY Known DEF Counters
<1>2. Counters'
  BY <1>1 DEF Counters
<1>3. PICK y : y = Dequeue(x, present, stable, fails)
  OBVIOUS
<1>4. y \in Manager /\ Rested(y, present)
  BY <1>1, <1>3, DequeueIs
<1>5. QED
  BY <1>2, <1>3, <1>4, Leads

\* detach()
LEMMA DetachKeeps ==
    ASSUME IInv, ClientDetach
    PROVE  IInv'
<1>1. mgr \in Manager /\ Rested(mgr, present)
  BY Known DEF ClientDetach, MainLoop
<1>2. PICK fails \in BOOLEAN : mgr' = Dequeue(mgr, present, stable, fails)
  BY DEF ClientDetach
<1>3. UNCHANGED <<present, stable, slots, changes, sessions>>
  BY DEF ClientDetach
<1>4. QED
  BY <1>1, <1>2, <1>3, EndKeeps

\* doneCb()
LEMMA SyncDoneKeeps ==
    ASSUME IInv, NEW status, SyncDone(status)
    PROVE  IInv'
<1>1. mgr \in Manager /\ mgr.active # NoSession /\ Rested(mgr, present)
  BY Known DEF SyncDone, MainLoop
<1>2. PICK c : c = mgr.active.config
  OBVIOUS
<1>3. mgr.active \in Sessions /\ c \in Configs
  BY <1>1, <1>2 DEF Manager, Sessions
<1>4. PICK x : x = IF mgr.task[c].known THEN AnySyncDone(mgr, c, status) ELSE mgr
  OBVIOUS
<1>5. PICK fails \in BOOLEAN : mgr' = Dequeue(x, present, stable, fails)
  BY <1>2, <1>4 DEF SyncDone
<1>6. UNCHANGED <<present, stable, slots, changes, sessions>>
  BY DEF SyncDone
<1>7. x \in Manager /\ Rested(x, present)
  <2>1. CASE ~mgr.task[c].known
    BY <1>1, <1>4, <2>1
  <2>2. CASE mgr.task[c].known
    <3>1. SessionRel(mgr, c, x)
      BY <1>1, <1>3, <1>4, <2>2, DoneIs
    <3>2. Keeps(mgr, x) /\ (IsIdle(x) <=> IsIdle(mgr))
      BY <3>1 DEF SessionRel, IsIdle
    <3>3. QED
      BY <1>1, <3>2, KeepsRested DEF Keeps
  <2>3. QED
    BY <2>1, <2>2
<1>8. QED
  BY <1>5, <1>6, <1>7, EndKeeps

-----------------------------------------------------------------------------
(***************************************************************************)
(* The inductive invariant and what follows from it.                       *)
(***************************************************************************)

\* A manager without tasks
LEMMA Initially == Init => IInv
<1> SUFFICES ASSUME Init
             PROVE  IInv
  OBVIOUS
<1>1. NoTask \in Task /\ ~MightRun(NoTask)
  <2>1. <<>> \in Seq(Transports \cup {Other})
    OBVIOUS
  <2>2. NoTask \in Task
    BY <2>1 DEF NoTask, Task
  <2>3. QED
    BY <2>2 DEF NoTask, MightRun
<1>2. PICK task : task = [c \in Configs |-> NoTask]
  OBVIOUS
<1>3. PICK w : w = [t \in Transports |-> 0]
  OBVIOUS
<1>4. task \in [Configs -> Task] /\ w \in [Transports -> 0..MaxWatches] /\ \A c \in Configs : ~MightRun(task[c])
  BY <1>1, <1>2, <1>3, AutoSyncAssumption
<1>5. mgr = [task |-> task, watches |-> w, idleConnection |-> FALSE, autoTermLocked |-> FALSE,
             active |-> NoSession, waiting |-> NoSession, unseen |-> {}]
  BY <1>2, <1>3 DEF Init
<1>6. mgr \in Manager /\ mgr.task = task
  BY <1>4, <1>5 DEF Manager
<1>7. Counters
  BY AutoSyncAssumption DEF Init, Counters
<1>8. TypeOK
  BY <1>6, <1>7, TypeIs
<1>9. Rested(mgr, present)
  BY <1>4, <1>6 DEF Rested, Due
<1>10. QED
  BY <1>8, <1>9 DEF IInv

\* Every event of the main loop keeps it.
LEMMA Inductive == IInv /\ [Next]_vars => IInv'
<1> SUFFICES ASSUME IInv, [Next]_vars
             PROVE  IInv'
  OBVIOUS
<1>1. ASSUME NEW c \in Configs, InitConfig(c) \/ IntervalTimer(c) \/ IntervalPasses(c) \/ ClientSession(c)
      PROVE  IInv'
  BY <1>1, InitConfigKeeps, TimersKeep, TimePasses, ClientSessionKeeps
<1>2. ASSUME NEW c \in Configs, NEW t \in Transports, UrlTimer(c, t)
      PROVE  IInv'
  BY <1>2, TimersKeep
<1>3. ASSUME NEW t \in Transports, DelayPasses(t) \/ PresenceChanges(t)
      PROVE  IInv'
  BY <1>3, TimePasses, PresenceKeeps
<1>4. CASE PresenceSlot \/ ClientSync \/ ClientDetach
  BY <1>4, SlotKeeps, ClientSyncKeeps, DetachKeeps
<1>5. ASSUME NEW status, SyncDone(status)
      PROVE  IInv'
  BY <1>5, SyncDoneKeeps
<1>6. CASE UNCHANGED vars
  <2>1. mgr' = mgr /\ present' = present /\ stable' = stable /\ slots' = slots /\ changes' = changes
        /\ sessions' = sessions
    BY <1>6 DEF vars
  <2>2. Counters'
    BY <2>1, Known DEF Counters
  <2>3. slots' > 0 \/ Rested(mgr, present')
    BY <2>1 DEF IInv
  <2>4. QED
    BY <2>1, <2>2, <2>3, Known, Leads
<1>7. QED
  BY <1>1, <1>2, <1>3, <1>4, <1>5, <1>6 DEF Next

\* The inductive invariant of the manager
LEMMA Always == Spec => []IInv
<1>1. QED
  BY Initially, Inductive, PTL DEF Spec

\* The manager keeps tasks, timers and connections of their types: in particular, a
\* transport that has been present for long enough is present.
THEOREM TypeCorrect == Spec => []TypeOK
<1>1. IInv => TypeOK
  BY DEF IInv
<1>2. QED
  BY <1>1, Always, PTL

\* No enabled task is ever forgotten by schedule(), in whatever order timers fire,
\* transports come and go, configs change, sessions run and helpers fail to start.  The
\* tasks of mgr.unseen are the only exception: those behind one that could not be
\* started, and those a client's sync has enabled, until schedule() is called.
THEOREM WakeupPendingHolds == Spec => []WakeupPending
<1>1. ASSUME IInv
      PROVE  WakeupPending
  <2>1. slots > 0 \/ Rested(mgr, present)
    BY <1>1 DEF IInv
  <2>2. CASE slots > 0
    BY <2>2 DEF WakeupPending, Wakeup
  <2>3. CASE Rested(mgr, present)
    BY <2>3 DEF WakeupPending, Wakeup, Rested, Due, Watched
  <2>4. QED
    BY <2>1, <2>2, <2>3
<1>2. QED
  BY <1>1, Always, PTL
=============================================================================
