---------------------------- MODULE LifecycleInv ----------------------------
(***************************************************************************)
(* The inductive invariant of Lifecycle, what its use counts mean (the     *)
(* count of an object is the cardinality of the set of threads that hold   *)
(* it), and a lemma for each action that opens or deletes a database or    *)
(* changes its completeness: it keeps the invariant.                       *)
(***************************************************************************)
EXTENDS Lifecycle, FiniteSetTheorems, TLAPS

OpeningLabels == {"spawn", "spawned", "opening", "opened", "scheduled"}
ClosingLabels == {"closing", "closed"}

\* Which labels the threads of each kind go through.
Labels ==
    /\ \A c \in Clients :
          pc[c] \in {"idle", "acquired", "spawn", "waiting", "using", "release"}
    /\ \A k \in Creators :
          pc[k] \in {"idle", "creating", "spawn", "waiting", "release"}
    /\ \A t \in IdleClosers \cup Closers :
          pc[t] \in {"idle", "acquired", "closing", "closed", "release"}
    /\ \A o \in Openers :
          pc[o] \in {"idle", "spawned", "opening", "opened", "scheduled", "done",
                     "failing", "doneFailing", "ok", "failed"}

\* When a thread holds an object, and when an opener has one to open.
HeldInv ==
    \A t \in Threads :
        held[t] = NoDB <=> pc[t] \in {"idle", "creating", "spawned", "ok", "failed"}
ArgInv ==
    \A o \in Openers :
        /\ arg[o] = NoDB <=> pc[o] \in {"idle", "ok", "failed"}
        /\ held[o] # NoDB => held[o] = arg[o]

\* The state of the object that a thread is opening or closing.
ChargeInv ==
    \A t \in Threads :
        /\ pc[t] \in OpeningLabels => dbState[Target(t)] = "Opening"
        /\ pc[t] \in ClosingLabels => dbState[Target(t)] = "Closing"
SoleCharge ==
    \A x, y \in Threads :
        /\ pc[x] \in OpeningLabels \cup ClosingLabels
        /\ pc[y] \in OpeningLabels \cup ClosingLabels
        /\ Target(x) = Target(y)
        => x = y

\* An open database has a handle, and so has one that is nearly open.
HandleInv ==
    /\ \A d \in DBs : dbState[d] = "Open" => handle[d]
    /\ \A o \in Openers : pc[o] \in {"opened", "scheduled"} => handle[arg[o]]

UsingInv == \A c \in Clients : pc[c] = "using" => dbState[held[c]] = "Open"

\* A waiter waits for an opener of its own, which runs or has an answer, and
\* which was started for the waiter's object.  When the opener has succeeded the
\* object is open, and stays so because the waiter holds it.
WaitLabel == \A w \in Waiters : opener[w] # NoOpener <=> pc[w] = "waiting"
WaitAlive == \A w \in Waiters : pc[w] = "waiting" => pc[opener[w]] # "idle"
WaitArg ==
    \A w \in Waiters :
        pc[w] = "waiting" /\ arg[opener[w]] # NoDB => arg[opener[w]] = held[w]
WaitOpen ==
    \A w \in Waiters :
        pc[w] = "waiting" /\ pc[opener[w]] \in {"done", "ok"} => dbState[held[w]] = "Open"
WaitSole ==
    \A v, w \in Waiters : opener[v] = opener[w] /\ opener[v] # NoOpener => v = w

\* The object that a remover deletes is out of envActive, and nobody but an
\* opener whose waiters were cancelled gets hold of it any more.
RemoverInv ==
    \A r \in Removers :
        /\ rdb[r] # NoDB => active # rdb[r]
        /\ rpc[r] \in {"waiting", "closing"} => rdb[r] # NoDB
        /\ rpc[r] = "closing" => \A t \in Threads \ Openers : held[t] # rdb[r]

\* The inductive invariant.
Inv ==
    /\ TypeOK
    /\ UseCounts
    /\ Labels
    /\ HeldInv
    /\ ArgInv
    /\ ChargeInv
    /\ SoleCharge
    /\ HandleInv
    /\ UsingInv
    /\ WaitLabel
    /\ WaitAlive
    /\ WaitArg
    /\ WaitOpen
    /\ WaitSole
    /\ RemoverInv

\* The kinds of threads are disjoint.
LEMMA Kinds ==
    /\ Clients \subseteq Waiters /\ Creators \subseteq Waiters
    /\ Waiters \subseteq Threads /\ Openers \subseteq Threads
    /\ IdleClosers \cup Closers \subseteq Threads
    /\ Waiters \cap Openers = {}
    /\ Clients \cap Creators = {}
    /\ (IdleClosers \cup Closers) \cap (Waiters \cup Openers) = {}
    /\ NoDB \notin DBs /\ NoOpener \notin Openers
  BY ThreadsAssumption DEF Threads, Waiters

\* The part of the type invariant that most steps below need.
LEMMA TypesUsed ==
    ASSUME TypeOK
    PROVE  /\ pc \in [Threads -> ThreadLabels]
           /\ held \in [Threads -> DBs \cup {NoDB}]
           /\ arg \in [Openers -> DBs \cup {NoDB}]
           /\ opener \in [Waiters -> Openers \cup {NoOpener}]
           /\ dbState \in [DBs -> {"Closed", "Opening", "Open", "Closing"}]
  BY DEF TypeOK

-----------------------------------------------------------------------------
(* Use counts.                                                             *)

\* The holders of an object are finitely many, so that they can be counted.
LEMMA HoldersFinite == \A d : IsFiniteSet(Holders(d))
<1> TAKE d
<1>1. Holders(d) \subseteq Threads
  BY DEF Holders
<1> QED BY <1>1, ThreadsAssumption, FS_Subset

\* Nothing is acquired or released.
LEMMA CountSame == UseCounts /\ UNCHANGED <<held, dbUsers>> => UseCounts'
  BY DEF UseCounts, Holders

\* acquireDB counts its thread.
LEMMA CountAcquire ==
    ASSUME TypeOK, UseCounts, NEW t \in Threads, NEW d \in DBs, held[t] = NoDB,
           held' = [held EXCEPT ![t] = d],
           dbUsers' = [dbUsers EXCEPT ![d] = dbUsers[d] + 1]
    PROVE  UseCounts' /\ dbUsers' \in [DBs -> Nat]
<1>1. dbUsers' \in [DBs -> Nat]
  BY DEF TypeOK
<1>2. ASSUME NEW e \in DBs PROVE dbUsers'[e] = Cardinality(Holders(e)')
  <2>1. CASE e = d
    <3>1. Holders(d)' = Holders(d) \cup {t}
      BY DEF Holders, TypeOK
    <3>2. t \notin Holders(d)
      BY ThreadsAssumption DEF Holders
    <3>3. Cardinality(Holders(d)') = Cardinality(Holders(d)) + 1
      BY ZenonT(30), <3>1, <3>2, HoldersFinite, FS_AddElement
    <3> QED BY <2>1, <3>3 DEF UseCounts, TypeOK
  <2>2. CASE e # d
    <3>1. Holders(e)' = Holders(e)
      BY <2>2, ThreadsAssumption DEF Holders, TypeOK
    <3> QED BY <2>2, <3>1 DEF UseCounts, TypeOK
  <2> QED BY <2>1, <2>2
<1> QED BY <1>1, <1>2 DEF UseCounts

\* releaseDB takes it back, and the count doesn't become negative.
LEMMA CountRelease ==
    ASSUME TypeOK, UseCounts, NEW t \in Threads, NEW d \in DBs, held[t] = d,
           held' = [held EXCEPT ![t] = NoDB],
           dbUsers' = [dbUsers EXCEPT ![d] = dbUsers[d] - 1]
    PROVE  UseCounts' /\ dbUsers' \in [DBs -> Nat]
<1>1. t \in Holders(d) /\ Holders(d)' = Holders(d) \ {t}
  BY ThreadsAssumption DEF Holders, TypeOK
<1>2. /\ Cardinality(Holders(d)') = Cardinality(Holders(d)) - 1
      /\ Cardinality(Holders(d)') \in Nat
  BY <1>1, HoldersFinite, FS_RemoveElement, FS_CardinalityType
<1>3. ASSUME NEW e \in DBs
      PROVE  dbUsers'[e] = Cardinality(Holders(e)') /\ dbUsers'[e] \in Nat
  <2>1. CASE e = d
    BY <2>1, <1>2 DEF UseCounts, TypeOK
  <2>2. CASE e # d
    <3>1. Holders(e)' = Holders(e)
      BY <2>2, ThreadsAssumption DEF Holders, TypeOK
    <3> QED BY <2>2, <3>1 DEF UseCounts, TypeOK
  <2> QED BY <2>1, <2>2
<1> QED BY <1>3 DEF UseCounts, TypeOK

\* A thread that finds the count at 1 and holds the object is its only holder.
LEMMA SoleHolder ==
    ASSUME UseCounts, NEW d \in DBs, dbUsers[d] = 1,
           NEW x \in Threads, NEW y \in Threads, held[x] = d, held[y] = d
    PROVE  x = y
<1>1. PICK z : Holders(d) = {z}
  BY HoldersFinite, FS_Singleton DEF UseCounts
<1>2. x \in Holders(d) /\ y \in Holders(d)
  BY DEF Holders
<1> QED BY <1>1, <1>2

\* Nobody holds an object whose count is 0, and the other way round.
LEMMA NoHolder ==
    ASSUME UseCounts, NEW d \in DBs
    PROVE  dbUsers[d] = 0 <=> \A t \in Threads : held[t] # d
<1>1. dbUsers[d] = 0 <=> Holders(d) = {}
  BY HoldersFinite, FS_EmptySet DEF UseCounts
<1> QED BY <1>1 DEF Holders

\* A recycled object has no users.
LEMMA FreshUnused ==
    ASSUME UseCounts, NEW d \in DBs, Unreachable(d)
    PROVE  dbUsers[d] = 0
  BY NoHolder DEF Unreachable

\* An object that is made for a thread has that thread as its only user.
LEMMA CountFresh ==
    ASSUME TypeOK, UseCounts, NEW t \in Threads, NEW d \in DBs, Unreachable(d),
           held[t] = NoDB, held' = [held EXCEPT ![t] = d],
           dbUsers' = [dbUsers EXCEPT ![d] = 1]
    PROVE  UseCounts' /\ dbUsers' \in [DBs -> Nat]
<1>1. dbUsers[d] = 0
  BY FreshUnused
<1>2. dbUsers' = [dbUsers EXCEPT ![d] = dbUsers[d] + 1]
  BY <1>1
<1> QED BY ZenonT(30), <1>2, CountAcquire

-----------------------------------------------------------------------------
(* Steps that change little.                                               *)

\* What the invariant says of the threads, but for where the clients are.
ThreadInv ==
    /\ HeldInv /\ ArgInv /\ ChargeInv /\ SoleCharge
    /\ WaitLabel /\ WaitAlive /\ WaitArg /\ WaitOpen /\ WaitSole

\* Nothing happens to the threads and to the objects.
LEMMA ThreadsSame ==
    ASSUME Inv, UNCHANGED <<pc, held, arg, opener, dbState, handle>>
    PROVE  Labels' /\ ThreadInv' /\ HandleInv' /\ UsingInv'
<1>1. Labels' /\ HeldInv' /\ ArgInv'
  BY DEF Inv, Labels, HeldInv, ArgInv
<1>2. ChargeInv' /\ SoleCharge'
  BY DEF Inv, ChargeInv, SoleCharge, Target
<1>3. HandleInv' /\ UsingInv'
  BY DEF Inv, HandleInv, UsingInv
<1>4. WaitLabel' /\ WaitAlive' /\ WaitArg' /\ WaitOpen' /\ WaitSole'
  BY DEF Inv, WaitLabel, WaitAlive, WaitArg, WaitOpen, WaitSole
<1> QED BY <1>1, <1>2, <1>3, <1>4 DEF ThreadInv

\* A thread goes on to a label at which it has the same objects and locks.
LEMMA ThreadMoves ==
    ASSUME Inv, NEW t \in Threads, NEW l, pc' = [pc EXCEPT ![t] = l],
           UNCHANGED <<held, arg, opener, dbState>>,
           pc[t] # "waiting", l # "waiting",
           pc[t] \in {"idle", "creating", "spawned", "ok", "failed"}
             <=> l \in {"idle", "creating", "spawned", "ok", "failed"},
           l \in OpeningLabels => pc[t] \in OpeningLabels,
           l \in ClosingLabels => pc[t] \in ClosingLabels,
           t \in Openers => /\ pc[t] \notin {"idle", "ok", "failed"}
                            /\ l \notin {"idle", "ok", "failed", "done"}
    PROVE  ThreadInv'
<1>1. HeldInv' /\ ArgInv'
  BY Kinds, TypesUsed DEF Inv, HeldInv, ArgInv
<1>2. ChargeInv'
  BY Kinds, TypesUsed DEF Inv, ChargeInv, Target
<1>3. SoleCharge'
  BY Kinds, TypesUsed DEF Inv, SoleCharge, Target
<1>4. WaitLabel' /\ WaitAlive'
  BY Kinds, TypesUsed DEF Inv, WaitLabel, WaitAlive
<1>5. WaitArg' /\ WaitOpen' /\ WaitSole'
  BY Kinds, TypesUsed DEF Inv, WaitArg, WaitOpen, WaitSole, WaitLabel
<1> QED BY <1>1, <1>2, <1>3, <1>4, <1>5 DEF ThreadInv

\* An opener goes on to another of its labels.
LEMMA OpenerLabels ==
    ASSUME Inv, NEW o \in Openers,
           NEW l \in {"opening", "opened", "scheduled", "done", "failing", "doneFailing"},
           pc' = [pc EXCEPT ![o] = l]
    PROVE  Labels'
<1>1. pc'[o] = l /\ \A x \in Threads \ {o} : pc'[x] = pc[x]
  BY Kinds, TypesUsed DEF Inv
<1> QED BY <1>1, Kinds DEF Inv, Labels

\* A waiter has its answer or is cancelled; an opener that is done is forgotten.
LEMMA WaitEnds ==
    ASSUME Inv, NEW w \in Waiters, NEW l \in {"using", "release"}, pc[w] = "waiting",
           pc' = [pc EXCEPT ![w] = l,
                            ![opener[w]] = IF @ \in {"ok", "failed"} THEN "idle" ELSE @],
           opener' = [opener EXCEPT ![w] = NoOpener],
           UNCHANGED <<held, arg, dbState, handle>>
    PROVE  ThreadInv' /\ HandleInv'
<1>1. opener[w] \in Openers /\ opener[w] # w
  BY Kinds, TypesUsed DEF Inv, WaitLabel
<1>2. /\ pc' \in [Threads -> ThreadLabels]
      /\ pc'[w] = l
      /\ pc'[opener[w]] = IF pc[opener[w]] \in {"ok", "failed"} THEN "idle" ELSE pc[opener[w]]
      /\ \A t \in Threads \ {w, opener[w]} : pc'[t] = pc[t]
  BY <1>1, Kinds, TypesUsed DEF Inv, ThreadLabels
<1>3. HeldInv' /\ ArgInv'
  BY <1>1, <1>2, Kinds, TypesUsed DEF Inv, HeldInv, ArgInv
<1>4. \A t \in Threads : pc'[t] \in OpeningLabels \cup ClosingLabels => pc'[t] = pc[t]
  BY <1>1, <1>2, Kinds DEF OpeningLabels, ClosingLabels
<1>5. ChargeInv' /\ SoleCharge'
  BY ZenonT(30), <1>4 DEF Inv, ChargeInv, SoleCharge, Target
<1>6. HandleInv'
  BY <1>1, <1>2, Kinds, TypesUsed DEF Inv, HandleInv
<1>7. WaitSole' /\ WaitLabel'
  BY <1>1, <1>2, Kinds, TypesUsed DEF Inv, WaitSole, WaitLabel
<1>8. ASSUME NEW v \in Waiters, pc'[v] = "waiting"
      PROVE  pc[v] = "waiting" /\ opener'[v] = opener[v] /\ pc'[opener[v]] = pc[opener[v]]
  <2>1. v # w /\ v # opener[w] /\ v \in Threads
    BY <1>1, <1>2, <1>8, Kinds
  <2>2. pc[v] = "waiting" /\ opener'[v] = opener[v]
    BY <1>2, <1>8, <2>1, TypesUsed DEF Inv
  <2>3. opener[v] \in Openers /\ opener[v] # opener[w]
    BY <2>1, <2>2, Kinds, TypesUsed DEF Inv, WaitSole, WaitLabel
  <2> QED BY <1>2, <2>2, <2>3, Kinds
<1>9. WaitAlive'
  <2> SUFFICES ASSUME NEW v \in Waiters, pc'[v] = "waiting"
               PROVE  pc'[opener'[v]] # "idle"
    BY ZenonT(30) DEF WaitAlive
  <2>1. pc[v] = "waiting" /\ pc'[opener'[v]] = pc[opener[v]]
    BY ZenonT(30), <1>8
  <2> QED BY <2>1 DEF Inv, WaitAlive
<1>10. WaitArg'
  BY <1>8 DEF Inv, WaitArg
<1>11. WaitOpen'
  BY <1>8 DEF Inv, WaitOpen
<1> QED BY <1>3, <1>5, <1>6, <1>7, <1>9, <1>10, <1>11 DEF ThreadInv

\* A thread that opens or closes an object has one.
LEMMA TargetKnown ==
    ASSUME Inv, NEW t \in Threads, pc[t] \in OpeningLabels \cup ClosingLabels
    PROVE  Target(t) \in DBs
<1>1. CASE t \in Openers
  <2>1. arg[t] # NoDB
    BY <1>1 DEF Inv, ArgInv, OpeningLabels, ClosingLabels
  <2> QED BY <1>1, <2>1, TypesUsed DEF Inv, Target
<1>2. CASE t \notin Openers
  <2>1. pc[t] # "spawned"
    BY <1>2 DEF Inv, Labels, Threads, Waiters
  <2>2. held[t] # NoDB
    BY <2>1 DEF Inv, HeldInv, OpeningLabels, ClosingLabels
  <2> QED BY <1>2, <2>2, TypesUsed DEF Inv, Target
<1> QED BY <1>1, <1>2

\* A database in use stays open in a step that closes none that is held, and so
\* does one whose opener has succeeded.
LEMMA StaysInUse ==
    ASSUME Inv, KeepsOpen,
           \A c \in Clients : pc'[c] = "using" => pc[c] = "using" /\ held'[c] = held[c]
    PROVE  UsingInv'
<1> SUFFICES ASSUME NEW c \in Clients, pc'[c] = "using"
             PROVE  dbState'[held'[c]] = "Open"
  BY DEF UsingInv
<1>1. pc[c] = "using" /\ held'[c] = held[c] /\ held[c] \in DBs
  BY Kinds, TypesUsed DEF Inv, HeldInv
<1>2. dbState[held[c]] = "Open"
  BY <1>1 DEF Inv, UsingInv
<1> QED BY <1>1, <1>2, Kinds DEF KeepsOpen

\* A waiter whose opener is through still has its database open when no opener
\* gets through in this step.
LEMMA StaysOpened ==
    ASSUME Inv, KeepsOpen,
           \A w \in Waiters : pc'[w] = "waiting" /\ pc'[opener'[w]] \in {"done", "ok"} =>
              /\ pc[w] = "waiting" /\ pc[opener[w]] \in {"done", "ok"}
              /\ held'[w] = held[w]
    PROVE  WaitOpen'
<1> SUFFICES ASSUME NEW w \in Waiters, pc'[w] = "waiting",
                    pc'[opener'[w]] \in {"done", "ok"}
             PROVE  dbState'[held'[w]] = "Open"
  BY DEF WaitOpen
<1>1. /\ pc[w] = "waiting" /\ pc[opener[w]] \in {"done", "ok"}
      /\ held'[w] = held[w] /\ held[w] \in DBs
  BY Kinds, TypesUsed DEF Inv, HeldInv
<1>2. dbState[held[w]] = "Open"
  BY <1>1 DEF Inv, WaitOpen
<1> QED BY <1>1, <1>2 DEF KeepsOpen

-----------------------------------------------------------------------------
(* Steps of a thread that is in charge of an object, or that lets it go.   *)

\* What a thread opens or closes isn't open, so nobody's open database changes.
LEMMA LockedKeepsOpen ==
    ASSUME Inv, NEW t \in Threads, pc[t] \in OpeningLabels \cup ClosingLabels,
           \A d \in DBs : d # Target(t) => dbState'[d] = dbState[d]
    PROVE  KeepsOpen
<1>1. dbState[Target(t)] # "Open"
  BY DEF Inv, ChargeInv
<1> QED BY <1>1 DEF KeepsOpen

\* The locks that are still held belong to the same threads.
LEMMA ChargeKept ==
    ASSUME Inv,
           \A x \in Threads : pc'[x] \in OpeningLabels \cup ClosingLabels =>
              /\ pc'[x] = pc[x] /\ Target(x)' = Target(x)
              /\ dbState'[Target(x)] = dbState[Target(x)]
    PROVE  ChargeInv' /\ SoleCharge'
<1>1. ChargeInv'
  BY DEF Inv, ChargeInv
<1>2. SoleCharge'
  BY DEF Inv, SoleCharge
<1> QED BY <1>1, <1>2

\* Waiters go on waiting for the same openers, of which none goes away, is
\* given another object, or succeeds without having opened the waiter's object.
LEMMA WaitsKept ==
    ASSUME Inv, KeepsOpen, opener' = opener,
           \A w \in Waiters : (pc'[w] = "waiting") = (pc[w] = "waiting"),
           \A w \in Waiters : pc[w] = "waiting" =>
              /\ held'[w] = held[w]
              /\ pc'[opener[w]] # "idle"
              /\ arg'[opener[w]] \in {arg[opener[w]], NoDB}
              /\ pc'[opener[w]] \in {"done", "ok"} =>
                    \/ pc[opener[w]] \in {"done", "ok"}
                    \/ dbState'[held[w]] = "Open"
    PROVE  WaitLabel' /\ WaitAlive' /\ WaitArg' /\ WaitOpen' /\ WaitSole'
<1>1. WaitLabel' /\ WaitAlive' /\ WaitSole'
  BY DEF Inv, WaitLabel, WaitAlive, WaitSole
<1>2. WaitArg'
  BY DEF Inv, WaitArg
<1>3. ASSUME NEW w \in Waiters, pc[w] = "waiting", pc'[opener[w]] \in {"done", "ok"}
      PROVE  dbState'[held'[w]] = "Open"
  <2>1. CASE dbState'[held[w]] = "Open"
    BY <1>3, <2>1
  <2>2. CASE pc[opener[w]] \in {"done", "ok"}
    <3>1. dbState[held[w]] = "Open" /\ held'[w] = held[w]
      BY <1>3, <2>2 DEF Inv, WaitOpen
    <3>2. held[w] \in DBs
      BY <1>3, Kinds, TypesUsed DEF Inv, HeldInv
    <3> QED BY <3>1, <3>2 DEF KeepsOpen
  <2> QED BY <1>3, <2>1, <2>2
<1>4. WaitOpen'
  BY <1>3 DEF WaitOpen
<1> QED BY <1>1, <1>2, <1>4

\* A thread goes on without a lock: if it had one, it gives it back, and only
\* then does the state of the object change.
LEMMA LockEnds ==
    ASSUME Inv, KeepsOpen, NEW t \in Threads,
           \A x \in Threads \ {t} : pc'[x] = pc[x] /\ held'[x] = held[x],
           \A o \in Openers \ {t} : arg'[o] = arg[o],
           opener' = opener,
           pc[t] # "waiting", pc'[t] # "waiting",
           pc'[t] \notin OpeningLabels \cup ClosingLabels,
           held'[t] = NoDB <=> pc'[t] \in {"idle", "creating", "spawned", "ok", "failed"},
           t \in Openers =>
              /\ arg'[t] = NoDB <=> pc'[t] \in {"idle", "ok", "failed"}
              /\ held'[t] # NoDB => held'[t] = arg'[t]
              /\ arg'[t] \in {arg[t], NoDB}
              /\ (\E w \in Waiters : opener[w] = t) => pc'[t] # "idle"
              /\ pc'[t] \in {"done", "ok"} =>
                    \/ pc[t] \in {"done", "ok"}
                    \/ arg[t] # NoDB /\ dbState'[arg[t]] = "Open",
           \A d \in DBs : d # Target(t) \/ pc[t] \notin OpeningLabels \cup ClosingLabels
                          => dbState'[d] = dbState[d]
    PROVE  ThreadInv'
<1>1. HeldInv' /\ ArgInv'
  BY Kinds DEF Inv, HeldInv, ArgInv
<1>2. ASSUME NEW x \in Threads, pc'[x] \in OpeningLabels \cup ClosingLabels
      PROVE  /\ pc'[x] = pc[x] /\ Target(x)' = Target(x)
             /\ dbState'[Target(x)] = dbState[Target(x)]
  <2>1. x # t /\ pc'[x] = pc[x] /\ Target(x)' = Target(x)
    BY <1>2 DEF Target
  <2>2. Target(x) \in DBs
    BY <1>2, <2>1, TargetKnown
  <2>3. Target(x) # Target(t) \/ pc[t] \notin OpeningLabels \cup ClosingLabels
    BY <1>2, <2>1 DEF Inv, SoleCharge
  <2> QED BY ZenonT(30), <2>1, <2>2, <2>3
<1>3. ChargeInv' /\ SoleCharge'
  BY <1>2, ChargeKept
<1>4. ASSUME NEW w \in Waiters, pc[w] = "waiting"
      PROVE  /\ held'[w] = held[w]
             /\ pc'[opener[w]] # "idle"
             /\ arg'[opener[w]] \in {arg[opener[w]], NoDB}
             /\ pc'[opener[w]] \in {"done", "ok"} =>
                   \/ pc[opener[w]] \in {"done", "ok"}
                   \/ dbState'[held[w]] = "Open"
  <2>1. w \in Threads /\ w # t /\ opener[w] \in Openers /\ opener[w] \in Threads
    BY <1>4, Kinds, TypesUsed DEF Inv, WaitLabel
  <2>2. /\ pc[opener[w]] # "idle"
        /\ arg[opener[w]] # NoDB => arg[opener[w]] = held[w]
    BY <1>4 DEF Inv, WaitAlive, WaitArg
  <2> QED BY <2>1, <2>2
<1>5. \A w \in Waiters : (pc'[w] = "waiting") = (pc[w] = "waiting")
  BY Kinds
<1>6. WaitLabel' /\ WaitAlive' /\ WaitArg' /\ WaitOpen' /\ WaitSole'
  BY <1>4, <1>5, WaitsKept
<1> QED BY <1>1, <1>3, <1>6 DEF ThreadInv

\* The handles stay, and no object is newly open or nearly open.
LEMMA HandlesSame ==
    ASSUME Inv, handle' = handle,
           \A d \in DBs : dbState'[d] = "Open" => dbState[d] = "Open",
           \A o \in Openers : pc'[o] \in {"opened", "scheduled"} =>
              pc[o] \in {"opened", "scheduled"} /\ arg'[o] = arg[o]
    PROVE  HandleInv'
  BY DEF Inv, HandleInv

\* The handle of an object goes away while a thread opens or closes it.
LEMMA HandleEnds ==
    ASSUME Inv, NEW t \in Threads, pc[t] \in OpeningLabels \cup ClosingLabels,
           pc'[t] \notin {"opened", "scheduled"},
           \A x \in Threads \ {t} : pc'[x] = pc[x],
           arg' = arg,
           dbState'[Target(t)] # "Open",
           \A d \in DBs : d # Target(t) => handle'[d] = handle[d] /\ dbState'[d] = dbState[d]
    PROVE  HandleInv'
<1>1. ASSUME NEW d \in DBs, dbState'[d] = "Open" PROVE handle'[d]
  BY <1>1 DEF Inv, HandleInv
<1>2. ASSUME NEW o \in Openers, pc'[o] \in {"opened", "scheduled"} PROVE handle'[arg'[o]]
  <2>1. o \in Threads /\ o # t /\ pc[o] \in {"opened", "scheduled"} /\ Target(o) = arg[o]
    BY ZenonT(30), <1>2, Kinds DEF Target
  <2>2. arg[o] # Target(t) /\ arg[o] \in DBs
    BY <2>1, TargetKnown DEF Inv, SoleCharge, OpeningLabels
  <2> QED BY <2>1, <2>2 DEF Inv, HandleInv
<1> QED BY <1>1, <1>2 DEF HandleInv

-----------------------------------------------------------------------------
(* Deleting a database, and what changes its completeness.                 *)

\* The remover takes the object out of envActive.
LEMMA DeleteActiveInv ==
    ASSUME Inv, NEW r \in Removers, DeleteActive(r)
    PROVE  Inv' /\ KeepsOpen
<1>1. UseCounts'
  BY CountSame DEF Inv, DeleteActive, objects, threads
<1>2. TypeOK'
  BY Kinds DEF Inv, TypeOK, DeleteActive, objects, threads, local, RemoverLabels,
     HeldInv, ArgInv
<1>3. KeepsOpen
  BY DEF KeepsOpen, DeleteActive, objects
<1>4. Labels' /\ ThreadInv' /\ HandleInv' /\ UsingInv'
  BY ThreadsSame DEF DeleteActive, objects, threads, local
<1>5. RemoverInv'
  BY Kinds DEF Inv, TypeOK, DeleteActive, objects, threads, local, RemoverInv,
     HeldInv, Labels
<1> QED BY <1>1, <1>2, <1>3, <1>4, <1>5 DEF Inv, ThreadInv

\* The remover makes an object of its own, which is never active.
LEMMA DeleteInactiveInv ==
    ASSUME Inv, NEW r \in Removers, DeleteInactive(r)
    PROVE  Inv' /\ KeepsOpen
<1>1. UseCounts' /\ dbUsers' \in [DBs -> Nat]
  BY FreshUnused, CountSame, Kinds DEF Inv, TypeOK, DeleteInactive, Unreachable,
     threads, local
<1>2. TypeOK'
  BY <1>1, Kinds DEF Inv, TypeOK, DeleteInactive, Unreachable, threads, local,
     RemoverLabels, HeldInv, ArgInv
<1>3. KeepsOpen
  BY Kinds, TypesUsed DEF Inv, KeepsOpen, DeleteInactive, Unreachable
<1>4. Labels' /\ HeldInv' /\ ArgInv'
  BY ZenonT(30) DEF Inv, DeleteInactive, threads, local, Labels, HeldInv, ArgInv
<1>5. SoleCharge'
  BY DEF Inv, DeleteInactive, threads, local, SoleCharge, Target
<1>6. WaitLabel' /\ WaitAlive' /\ WaitArg' /\ WaitSole'
  BY ZenonT(30) DEF Inv, DeleteInactive, threads, local, WaitLabel, WaitAlive, WaitArg,
     WaitSole
<1>7. ChargeInv'
  <2> SUFFICES ASSUME NEW t \in Threads, pc[t] \in OpeningLabels \cup ClosingLabels
               PROVE  dbState'[Target(t)] = dbState[Target(t)]
    BY ZenonT(30) DEF Inv, ChargeInv, DeleteInactive, threads, local, Target
  <2> QED BY TargetKnown, TypesUsed DEF Inv, DeleteInactive, Unreachable, Target
<1>8. HandleInv'
  BY Kinds DEF Inv, TypeOK, DeleteInactive, Unreachable, threads, local, HandleInv,
     Labels, ArgInv, HeldInv, ChargeInv, SoleCharge, Target, OpeningLabels,
     ClosingLabels
<1>9. UsingInv'
  BY ZenonT(30), <1>3, StaysInUse DEF DeleteInactive, threads
<1>10. WaitOpen'
  BY ZenonT(30), <1>3, StaysOpened DEF DeleteInactive, threads, local
<1>11. RemoverInv'
  BY Kinds DEF Inv, TypeOK, DeleteInactive, Unreachable, threads, local, RemoverInv,
     HeldInv, Labels
<1> QED BY ZenonT(30), <1>1, <1>2, <1>3, <1>4, <1>5, <1>6, <1>7, <1>8, <1>9, <1>10, <1>11 DEF
           Inv

\* Another remover is at work, or there is no such database.
LEMMA DeleteNothingInv ==
    ASSUME Inv, NEW r \in Removers, DeleteNothing(r)
    PROVE  Inv' /\ KeepsOpen
<1>1. UseCounts'
  BY CountSame DEF Inv, DeleteNothing, objects, threads
<1>2. TypeOK'
  BY DEF Inv, TypeOK, DeleteNothing, env, objects, threads, local, RemoverLabels
<1>3. KeepsOpen
  BY DEF KeepsOpen, DeleteNothing, objects
<1>4. Labels' /\ ThreadInv' /\ HandleInv' /\ UsingInv'
  BY ZenonT(30), ThreadsSame DEF DeleteNothing, objects, threads, local
<1>5. RemoverInv'
  BY Kinds DEF Inv, TypeOK, DeleteNothing, env, objects, threads, local, RemoverInv,
     HeldInv, Labels
<1> QED BY <1>1, <1>2, <1>3, <1>4, <1>5 DEF Inv, ThreadInv

\* The count is 0: nobody holds the remover's object.
LEMMA RemoveUnusedInv ==
    ASSUME Inv, NEW r \in Removers, RemoveUnused(r)
    PROVE  Inv' /\ KeepsOpen
<1>1. UseCounts'
  BY CountSame DEF Inv, RemoveUnused, objects, threads
<1>2. TypeOK'
  BY ZenonT(30) DEF Inv, TypeOK, RemoveUnused, env, objects, threads, local, RemoverLabels
<1>3. KeepsOpen
  BY DEF KeepsOpen, RemoveUnused, objects
<1>4. Labels' /\ ThreadInv' /\ HandleInv' /\ UsingInv'
  BY ThreadsSame DEF RemoveUnused, objects, threads, local
<1>5. RemoverInv'
  BY NoHolder DEF Inv, TypeOK, RemoveUnused, env, objects, threads, local,
     RemoverInv, Labels
<1> QED BY <1>1, <1>2, <1>3, <1>4, <1>5 DEF Inv, ThreadInv

\* The remover closes an object that nobody uses.
LEMMA RemoveCloseInv ==
    ASSUME Inv, NEW r \in Removers, RemoveClose(r)
    PROVE  Inv' /\ KeepsOpen
<1>1. UseCounts'
  BY CountSame DEF Inv, RemoveClose, threads
<1>2. TypeOK'
  BY ZenonT(30), Kinds DEF Inv, TypeOK, RemoveClose, env, threads, local, RemoverLabels
<1>3. KeepsOpen
  <2>1. rdb[r] \in DBs /\ \A w \in Waiters : held[w] # rdb[r]
    BY Kinds DEF Inv, TypeOK, RemoveClose, RemoverInv
  <2>2. \A d \in DBs : d # rdb[r] => dbState'[d] = dbState[d]
    BY ZenonT(30), TypesUsed DEF Inv, RemoveClose
  <2> QED BY ZenonT(30), <2>1, <2>2 DEF KeepsOpen
<1>4. Labels' /\ HeldInv' /\ ArgInv'
  BY DEF Inv, RemoveClose, env, threads, local, Labels, HeldInv, ArgInv
<1>5. SoleCharge'
  BY DEF Inv, RemoveClose, env, threads, local, SoleCharge, Target
<1>6. WaitLabel' /\ WaitAlive' /\ WaitArg' /\ WaitSole'
  BY DEF Inv, RemoveClose, env, threads, local, WaitLabel, WaitAlive, WaitArg,
     WaitSole
<1>7. ChargeInv'
  <2> SUFFICES ASSUME NEW t \in Threads, pc[t] \in OpeningLabels \cup ClosingLabels
               PROVE  dbState'[Target(t)] = dbState[Target(t)]
    BY DEF Inv, ChargeInv, RemoveClose, threads, local, Target
  <2>1. Target(t) # rdb[r]
    BY DEF Inv, ChargeInv, RemoveClose
  <2>2. Target(t) \in DBs
    BY TargetKnown
  <2> QED BY <2>1, <2>2, TypesUsed DEF Inv, RemoveClose
<1>8. HandleInv'
  <2>1. ASSUME NEW d \in DBs, dbState'[d] = "Open" PROVE handle'[d]
    <3>1. d # rdb[r] /\ dbState[d] = "Open"
      BY <2>1, TypesUsed DEF Inv, RemoveClose
    <3> QED BY <3>1 DEF Inv, TypeOK, HandleInv, RemoveClose
  <2>2. ASSUME NEW o \in Openers, pc'[o] \in {"opened", "scheduled"} PROVE handle'[arg'[o]]
    <3>1. /\ pc[o] \in OpeningLabels /\ Target(o) = arg[o] /\ o \in Threads
          /\ arg' = arg /\ handle[arg[o]]
      BY ZenonT(30), <2>2, Kinds DEF Inv, HandleInv, RemoveClose, threads, local, OpeningLabels, Target
    <3>2. arg[o] # rdb[r] /\ arg[o] \in DBs
      BY <3>1, TargetKnown DEF Inv, ChargeInv, RemoveClose
    <3> QED BY ZenonT(30), <3>1, <3>2 DEF Inv, TypeOK, RemoveClose
  <2> QED BY <2>1, <2>2 DEF HandleInv
<1>9. UsingInv'
  BY <1>3, StaysInUse DEF RemoveClose, threads
<1>10. WaitOpen'
  BY ZenonT(30), <1>3, StaysOpened DEF RemoveClose, threads, local
<1>11. RemoverInv'
  BY Kinds DEF Inv, TypeOK, RemoveClose, env, threads, local, RemoverInv, HeldInv,
     Labels
<1> QED BY ZenonT(30), <1>1, <1>2, <1>3, <1>4, <1>5, <1>6, <1>7, <1>8, <1>9, <1>10, <1>11 DEF
           Inv

\* There is nothing to close.
LEMMA RemoveNotOpenInv ==
    ASSUME Inv, NEW r \in Removers, RemoveNotOpen(r)
    PROVE  Inv' /\ KeepsOpen
<1>1. UseCounts'
  BY CountSame DEF Inv, RemoveNotOpen, objects, threads
<1>2. TypeOK'
  BY DEF Inv, TypeOK, RemoveNotOpen, env, objects, threads, local, RemoverLabels
<1>3. KeepsOpen
  BY DEF KeepsOpen, RemoveNotOpen, objects
<1>4. Labels' /\ ThreadInv' /\ HandleInv' /\ UsingInv'
  BY ZenonT(30), ThreadsSame DEF RemoveNotOpen, objects, threads, local
<1>5. RemoverInv'
  BY Kinds DEF Inv, TypeOK, RemoveNotOpen, env, objects, threads, local, RemoverInv,
     HeldInv, Labels
<1> QED BY <1>1, <1>2, <1>3, <1>4, <1>5 DEF Inv, ThreadInv

\* The entry is taken out of the catalog.
LEMMA RemoveEntryInv ==
    ASSUME Inv, NEW r \in Removers, RemoveEntry(r)
    PROVE  Inv' /\ KeepsOpen
<1>1. UseCounts'
  BY ZenonT(30), CountSame DEF Inv, RemoveEntry, objects, threads
<1>2. TypeOK'
  BY ZenonT(30), Kinds DEF Inv, TypeOK, RemoveEntry, objects, threads, local, RemoverLabels
<1>3. KeepsOpen
  BY DEF KeepsOpen, RemoveEntry, objects
<1>4. Labels' /\ ThreadInv' /\ HandleInv' /\ UsingInv'
  BY ZenonT(30), ThreadsSame DEF RemoveEntry, objects, threads, local
<1>5. RemoverInv'
  BY Kinds DEF Inv, TypeOK, RemoveEntry, threads, RemoverInv, HeldInv
<1> QED BY <1>1, <1>2, <1>3, <1>4, <1>5 DEF Inv, ThreadInv

\* The catalog has forgotten the repo.
LEMMA EntryRemovedInv ==
    ASSUME Inv, NEW r \in Removers, EntryRemoved(r)
    PROVE  Inv' /\ KeepsOpen
<1>1. UseCounts'
  BY CountSame DEF Inv, EntryRemoved, objects, threads
<1>2. TypeOK'
  BY DEF Inv, TypeOK, EntryRemoved, objects, threads, local, RemoverLabels
<1>3. KeepsOpen
  BY DEF KeepsOpen, EntryRemoved, objects
<1>4. Labels' /\ ThreadInv' /\ HandleInv' /\ UsingInv'
  BY ThreadsSame DEF EntryRemoved, objects, threads, local
<1>5. RemoverInv'
  BY DEF Inv, EntryRemoved, threads, RemoverInv
<1> QED BY <1>1, <1>2, <1>3, <1>4, <1>5 DEF Inv, ThreadInv

\* The files are deleted.
LEMMA RemoveStorageInv ==
    ASSUME Inv, NEW r \in Removers, RemoveStorage(r)
    PROVE  Inv' /\ KeepsOpen
<1>1. UseCounts'
  BY CountSame DEF Inv, RemoveStorage, objects, threads
<1>2. TypeOK'
  BY ZenonT(30), Kinds DEF Inv, TypeOK, RemoveStorage, objects, threads, local, RemoverLabels
<1>3. KeepsOpen
  BY DEF KeepsOpen, RemoveStorage, objects
<1>4. Labels' /\ ThreadInv' /\ HandleInv' /\ UsingInv'
  BY ZenonT(30), ThreadsSame DEF RemoveStorage, objects, threads, local
<1>5. RemoverInv'
  BY Kinds DEF Inv, TypeOK, RemoveStorage, objects, threads, local, RemoverInv,
     HeldInv, Labels
<1> QED BY <1>1, <1>2, <1>3, <1>4, <1>5 DEF Inv, ThreadInv

\* envDeleting forgets the repo.
LEMMA RemoveFinallyInv ==
    ASSUME Inv, NEW r \in Removers, RemoveFinally(r)
    PROVE  Inv' /\ KeepsOpen
<1>1. UseCounts'
  BY CountSame DEF Inv, RemoveFinally, objects, threads
<1>2. TypeOK'
  BY ZenonT(30), Kinds DEF Inv, TypeOK, RemoveFinally, objects, threads, local, RemoverLabels,
     HeldInv, ArgInv
<1>3. KeepsOpen
  BY DEF KeepsOpen, RemoveFinally, objects
<1>4. Labels' /\ ThreadInv' /\ HandleInv' /\ UsingInv'
  BY ZenonT(30), ThreadsSame DEF RemoveFinally, objects, threads, local
<1>5. RemoverInv'
  BY Kinds DEF Inv, RemoveFinally, threads, local, RemoverInv
<1> QED BY <1>1, <1>2, <1>3, <1>4, <1>5 DEF Inv, ThreadInv

\* The last task has finished; an open database becomes read-only.
LEMMA WorkFinishedInv ==
    ASSUME Inv, WorkFinished
    PROVE  Inv' /\ KeepsOpen
<1>1. UseCounts'
  BY CountSame DEF Inv, WorkFinished, threads
<1>2. TypeOK'
  BY ZenonT(30) DEF Inv, TypeOK, WorkFinished, threads, removers, local
<1>3. KeepsOpen
  BY DEF KeepsOpen, WorkFinished
<1>4. Labels' /\ ThreadInv' /\ HandleInv' /\ UsingInv'
  BY ThreadsSame DEF WorkFinished, threads, local
<1>5. RemoverInv'
  BY DEF Inv, WorkFinished, threads, removers, local, RemoverInv
<1> QED BY ZenonT(30), <1>1, <1>2, <1>3, <1>4, <1>5 DEF Inv, ThreadInv

\* A failed task makes the database broken.
LEMMA TaskFailedInv ==
    ASSUME Inv, TaskFailed
    PROVE  Inv' /\ KeepsOpen
<1>1. UseCounts'
  BY ZenonT(30), CountSame DEF Inv, TaskFailed, objects, threads
<1>2. TypeOK'
  BY DEF Inv, TypeOK, TaskFailed, objects, threads, removers, local
<1>3. KeepsOpen
  BY DEF KeepsOpen, TaskFailed, objects
<1>4. Labels' /\ ThreadInv' /\ HandleInv' /\ UsingInv'
  BY ThreadsSame DEF TaskFailed, objects, threads, local
<1>5. RemoverInv'
  BY DEF Inv, TaskFailed, objects, threads, removers, local, RemoverInv
<1> QED BY <1>1, <1>2, <1>3, <1>4, <1>5 DEF Inv, ThreadInv

\* The backuper has finalized the database.
LEMMA FinalizedInv ==
    ASSUME Inv, Finalized
    PROVE  Inv' /\ KeepsOpen
<1>1. UseCounts'
  BY CountSame DEF Inv, Finalized, objects, threads
<1>2. TypeOK'
  BY DEF Inv, TypeOK, Finalized, objects, threads, removers, local
<1>3. KeepsOpen
  BY DEF KeepsOpen, Finalized, objects
<1>4. Labels' /\ ThreadInv' /\ HandleInv' /\ UsingInv'
  BY ThreadsSame DEF Finalized, objects, threads, local
<1>5. RemoverInv'
  BY DEF Inv, Finalized, objects, threads, removers, local, RemoverInv
<1> QED BY <1>1, <1>2, <1>3, <1>4, <1>5 DEF Inv, ThreadInv

-----------------------------------------------------------------------------
(* Opening a database: the openers.                                        *)

\* The opener becomes a user of its object.
LEMMA OpenerAcquireInv ==
    ASSUME Inv, NEW o \in Openers, OpenerAcquire(o)
    PROVE  Inv' /\ KeepsOpen
<1>1. UseCounts' /\ dbUsers' \in [DBs -> Nat]
  BY ZenonT(30), CountAcquire, Kinds DEF Inv, TypeOK, OpenerAcquire, AcquireDB, env, local,
     removers, HeldInv, ArgInv
<1>2. TypeOK'
  BY <1>1, Kinds DEF Inv, TypeOK, OpenerAcquire, AcquireDB, env, local, removers,
     ThreadLabels, HeldInv, ArgInv
<1>3. KeepsOpen
  BY DEF KeepsOpen, OpenerAcquire
<1>4. /\ o \in Threads /\ o \notin Waiters /\ pc[o] = "spawned" /\ held[o] = NoDB
      /\ pc'[o] = "opening" /\ held'[o] = arg[o] /\ arg[o] # NoDB
      /\ \A x \in Threads \ {o} : pc'[x] = pc[x] /\ held'[x] = held[x]
  BY Kinds, TypesUsed DEF Inv, OpenerAcquire, AcquireDB, HeldInv, ArgInv
<1>5. /\ dbState' = dbState /\ handle' = handle /\ arg' = arg /\ opener' = opener
      /\ rpc' = rpc /\ rdb' = rdb /\ active' = active
  BY DEF OpenerAcquire, env, local, removers
<1>6. Labels'
  BY ZenonT(30), OpenerLabels DEF OpenerAcquire, AcquireDB
<1>7. HeldInv' /\ ArgInv'
  BY ZenonT(30), <1>4, <1>5, Kinds DEF Inv, HeldInv, ArgInv
<1>8. \A x \in Threads : /\ Target(x)' = Target(x)
                         /\ pc'[x] \in OpeningLabels <=> pc[x] \in OpeningLabels
                         /\ pc'[x] \in ClosingLabels <=> pc[x] \in ClosingLabels
  BY ZenonT(30), <1>4, <1>5 DEF Target, OpeningLabels, ClosingLabels
<1>9. ChargeInv' /\ SoleCharge'
  BY ZenonT(30), <1>5, <1>8 DEF Inv, ChargeInv, SoleCharge
<1>10. HandleInv'
  BY ZenonT(30), <1>4, <1>5, Kinds DEF Inv, HandleInv
<1>11. UsingInv'
  BY ZenonT(30), <1>4, <1>5, Kinds DEF Inv, UsingInv
<1>12. \A w \in Waiters : pc'[w] = pc[w] /\ held'[w] = held[w]
  BY ZenonT(30), <1>4, Kinds
<1>13. WaitLabel' /\ WaitArg' /\ WaitSole'
  BY ZenonT(30), <1>5, <1>12 DEF Inv, WaitLabel, WaitArg, WaitSole
<1>14. \A w \in Waiters :
          pc[w] = "waiting" => opener[w] \in Threads /\ (opener[w] # o => pc'[opener[w]] = pc[opener[w]])
  BY ZenonT(30), <1>4, Kinds, TypesUsed DEF Inv, WaitLabel
<1>15. WaitAlive' /\ WaitOpen'
  BY ZenonT(30), <1>4, <1>5, <1>12, <1>14 DEF Inv, WaitAlive, WaitOpen
<1>16. RemoverInv'
  BY ZenonT(30), <1>4, <1>5 DEF Inv, RemoverInv
<1> QED BY ZenonT(30), <1>1, <1>2, <1>3, <1>6, <1>7, <1>9, <1>10, <1>11, <1>13, <1>15, <1>16 DEF Inv

\* The storage is opened under the Opening lock.
LEMMA StorageOpenInv ==
    ASSUME Inv, NEW o \in Openers, StorageOpen(o)
    PROVE  Inv' /\ KeepsOpen
<1>1. UseCounts'
  BY CountSame DEF Inv, StorageOpen
<1>2. TypeOK'
  BY ZenonT(30), Kinds DEF Inv, TypeOK, StorageOpen, local, removers, ThreadLabels
<1>3. KeepsOpen
  BY DEF KeepsOpen, StorageOpen
<1>4. Labels'
  BY ZenonT(30), OpenerLabels DEF StorageOpen
<1>5. ThreadInv'
  BY ZenonT(30), ThreadMoves, Kinds DEF StorageOpen, local, OpeningLabels, ClosingLabels
<1>6. HandleInv'
  BY Kinds DEF Inv, TypeOK, StorageOpen, local, removers, HandleInv, Labels, ArgInv,
     HeldInv, ChargeInv, SoleCharge, Target, OpeningLabels, ClosingLabels
<1>7. UsingInv'
  BY ZenonT(30), Kinds, TypesUsed DEF Inv, StorageOpen, local, removers, UsingInv, HeldInv,
     Labels
<1>8. RemoverInv'
  BY ZenonT(30) DEF Inv, StorageOpen, local, removers, RemoverInv
<1> QED BY ZenonT(30), <1>1, <1>2, <1>3, <1>4, <1>5, <1>6, <1>7, <1>8 DEF Inv, ThreadInv

\* kickOffDatabase schedules the tasks of the new database.
LEMMA OpenOnSuccessInv ==
    ASSUME Inv, NEW o \in Openers, OpenOnSuccess(o)
    PROVE  Inv' /\ KeepsOpen
<1>1. UseCounts'
  BY ZenonT(30), CountSame DEF Inv, OpenOnSuccess, objects
<1>2. TypeOK'
  BY ZenonT(30), Kinds DEF Inv, TypeOK, OpenOnSuccess, objects, local, removers, ThreadLabels
<1>3. KeepsOpen
  BY DEF KeepsOpen, OpenOnSuccess, objects
<1>4. Labels'
  BY ZenonT(30), OpenerLabels DEF OpenOnSuccess
<1>5. ThreadInv'
  BY ZenonT(30), ThreadMoves, Kinds DEF OpenOnSuccess, objects, local, OpeningLabels,
     ClosingLabels
<1>6. HandleInv'
  BY Kinds DEF Inv, TypeOK, OpenOnSuccess, objects, local, removers, HandleInv,
     Labels, ArgInv, HeldInv, ChargeInv, SoleCharge, Target, OpeningLabels,
     ClosingLabels
<1>7. UsingInv'
  BY ZenonT(30), Kinds, TypesUsed DEF Inv, OpenOnSuccess, objects, local, removers, UsingInv,
     HeldInv, Labels
<1>8. RemoverInv'
  BY ZenonT(30) DEF Inv, OpenOnSuccess, objects, local, removers, RemoverInv
<1> QED BY <1>1, <1>2, <1>3, <1>4, <1>5, <1>6, <1>7, <1>8 DEF Inv, ThreadInv

\* The lock is given back and the object is Open: its waiter may rely on it.
LEMMA OpenDoneInv ==
    ASSUME Inv, NEW o \in Openers, OpenDone(o)
    PROVE  Inv' /\ KeepsOpen
<1>1. UseCounts'
  BY ZenonT(30), CountSame DEF Inv, OpenDone
<1>2. TypeOK'
  BY ZenonT(30), Kinds DEF Inv, TypeOK, OpenDone, env, local, removers, ThreadLabels
<1>3. /\ o \in Threads /\ Target(o) = arg[o]
      /\ pc[o] \in {"opened", "scheduled"} /\ pc[o] \in OpeningLabels \cup ClosingLabels
  BY ZenonT(30), Kinds DEF OpenDone, OpeningLabels, Target
<1>4. arg[o] \in DBs /\ held[o] # NoDB /\ held[o] = arg[o] /\ handle[arg[o]]
  BY ZenonT(30), <1>3, TargetKnown DEF Inv, HeldInv, ArgInv, HandleInv
<1>5. pc'[o] = "done" /\ \A x \in Threads \ {o} : pc'[x] = pc[x]
  BY ZenonT(30), <1>3, TypesUsed DEF Inv, OpenDone
<1>6. dbState'[arg[o]] = "Open" /\ \A d \in DBs : d # arg[o] => dbState'[d] = dbState[d]
  BY ZenonT(30), <1>4, TypesUsed DEF Inv, OpenDone
<1>7. held' = held /\ arg' = arg /\ opener' = opener /\ handle' = handle
  BY DEF OpenDone, local
<1>8. KeepsOpen
  BY <1>3, <1>6, LockedKeepsOpen
<1>9. Labels'
  BY ZenonT(30), OpenerLabels DEF OpenDone
<1>10. ThreadInv'
  <2>1. pc[o] # "waiting" /\ pc'[o] \notin OpeningLabels \cup ClosingLabels
    BY <1>3, <1>5 DEF OpeningLabels, ClosingLabels
  <2> QED BY ZenonT(30), <1>3, <1>4, <1>5, <1>6, <1>7, <1>8, <2>1, Kinds, LockEnds
<1>11. HandleInv'
  BY ZenonT(30), <1>4, <1>5, <1>6, <1>7, Kinds DEF Inv, HandleInv
<1>12. UsingInv'
  BY ZenonT(30), <1>5, <1>7, <1>8, StaysInUse, Kinds
<1>13. RemoverInv'
  BY ZenonT(30) DEF Inv, OpenDone, env, removers, RemoverInv
<1> QED BY <1>1, <1>2, <1>8, <1>9, <1>10, <1>11, <1>12, <1>13 DEF Inv, ThreadInv

\* The lock is given back and the object is Closed: nobody uses it yet.
LEMMA OpenFailInv ==
    ASSUME Inv, NEW o \in Openers, OpenFail(o)
    PROVE  Inv' /\ KeepsOpen
<1>1. UseCounts'
  BY ZenonT(30), CountSame DEF Inv, OpenFail
<1>2. TypeOK'
  BY ZenonT(30), Kinds DEF Inv, TypeOK, OpenFail, env, local, removers, ThreadLabels
<1>3. /\ o \in Threads /\ Target(o) = arg[o]
      /\ pc[o] \in {"opening", "opened"} /\ pc[o] \in OpeningLabels \cup ClosingLabels
  BY ZenonT(30), Kinds DEF OpenFail, OpeningLabels, Target
<1>4. arg[o] \in DBs /\ held[o] # NoDB /\ held[o] = arg[o]
  BY ZenonT(30), <1>3, TargetKnown DEF Inv, HeldInv, ArgInv
<1>5. pc'[o] = "failing" /\ \A x \in Threads \ {o} : pc'[x] = pc[x]
  BY ZenonT(30), <1>3, TypesUsed DEF Inv, OpenFail
<1>6. /\ dbState'[arg[o]] = "Closed"
      /\ \A d \in DBs : d # arg[o] => dbState'[d] = dbState[d] /\ handle'[d] = handle[d]
  BY ZenonT(30), <1>4 DEF Inv, TypeOK, OpenFail
<1>7. held' = held /\ arg' = arg /\ opener' = opener
  BY DEF OpenFail, local
<1>8. KeepsOpen
  BY <1>3, <1>6, LockedKeepsOpen
<1>9. Labels'
  BY ZenonT(30), OpenerLabels DEF OpenFail
<1>10. ThreadInv'
  <2>1. pc[o] # "waiting" /\ pc'[o] \notin OpeningLabels \cup ClosingLabels
    BY ZenonT(30), <1>3, <1>5 DEF OpeningLabels, ClosingLabels
  <2> QED BY ZenonT(30), <1>3, <1>4, <1>5, <1>6, <1>7, <1>8, <2>1, Kinds, LockEnds
<1>11. HandleInv'
  BY ZenonT(30), <1>3, <1>5, <1>6, <1>7, HandleEnds
<1>12. UsingInv'
  BY ZenonT(30), <1>5, <1>7, <1>8, StaysInUse, Kinds
<1>13. RemoverInv'
  BY ZenonT(30) DEF Inv, OpenFail, env, removers, RemoverInv
<1> QED BY <1>1, <1>2, <1>8, <1>9, <1>10, <1>11, <1>12, <1>13 DEF Inv, ThreadInv

\* kickOffDatabase marks the new database as broken.
LEMMA OpenOnFailureInv ==
    ASSUME Inv, NEW o \in Openers, OpenOnFailure(o)
    PROVE  Inv' /\ KeepsOpen
<1>1. UseCounts'
  BY ZenonT(30), CountSame DEF Inv, OpenOnFailure, objects
<1>2. TypeOK'
  BY ZenonT(30), Kinds DEF Inv, TypeOK, OpenOnFailure, objects, local, removers, ThreadLabels
<1>3. KeepsOpen
  BY DEF KeepsOpen, OpenOnFailure, objects
<1>4. Labels'
  BY ZenonT(30), OpenerLabels DEF OpenOnFailure
<1>5. ThreadInv'
  BY ZenonT(30), ThreadMoves, Kinds DEF OpenOnFailure, objects, local, OpeningLabels,
     ClosingLabels
<1>6. HandleInv'
  BY ZenonT(30), HandlesSame, Kinds, TypesUsed DEF Inv, OpenOnFailure, objects, local
<1>7. UsingInv'
  BY <1>3, StaysInUse, Kinds, TypesUsed DEF Inv, OpenOnFailure
<1>8. RemoverInv'
  BY ZenonT(30) DEF Inv, OpenOnFailure, objects, local, removers, RemoverInv
<1> QED BY <1>1, <1>2, <1>3, <1>4, <1>5, <1>6, <1>7, <1>8 DEF Inv, ThreadInv

\* The opener releases its object and leaves its answer.
LEMMA OpenerReleaseInv ==
    ASSUME Inv, NEW o \in Openers, OpenerRelease(o)
    PROVE  Inv' /\ KeepsOpen
<1>1. UseCounts' /\ dbUsers' \in [DBs -> Nat]
  BY ZenonT(30), CountRelease, Kinds DEF Inv, TypeOK, OpenerRelease, ReleaseDB, HeldInv
<1>2. TypeOK'
  BY ZenonT(30), <1>1, Kinds DEF Inv, TypeOK, OpenerRelease, ReleaseDB, removers, ThreadLabels
<1>3. /\ o \in Threads /\ pc[o] \in {"done", "doneFailing"}
      /\ pc'[o] \in {"ok", "failed", "idle"} /\ held'[o] = NoDB /\ arg'[o] = NoDB
      /\ (\E w \in Waiters : opener[w] = o) => pc'[o] # "idle"
      /\ pc'[o] = "ok" => pc[o] = "done"
  BY ZenonT(30), Kinds, TypesUsed DEF Inv, OpenerRelease, ReleaseDB
<1>4. /\ \A x \in Threads \ {o} : pc'[x] = pc[x] /\ held'[x] = held[x]
      /\ \A p \in Openers \ {o} : arg'[p] = arg[p]
  BY ZenonT(30), TypesUsed DEF Inv, OpenerRelease, ReleaseDB
<1>5. /\ opener' = opener /\ handle' = handle /\ dbState' = dbState
      /\ rpc' = rpc /\ rdb' = rdb /\ active' \in {active, NoDB}
  BY DEF OpenerRelease, ReleaseDB, removers
<1>6. KeepsOpen
  BY ZenonT(30), <1>5 DEF KeepsOpen
<1>7. Labels'
  BY ZenonT(30), <1>3, <1>4, Kinds DEF Inv, Labels
<1>8. ThreadInv'
  <2>1. /\ pc[o] # "waiting" /\ pc'[o] # "waiting"
        /\ pc'[o] \notin OpeningLabels \cup ClosingLabels
        /\ pc[o] \notin OpeningLabels \cup ClosingLabels
    BY ZenonT(30), <1>3 DEF OpeningLabels, ClosingLabels
  <2> QED BY <1>3, <1>4, <1>5, <1>6, <2>1, LockEnds
<1>9. HandleInv'
  BY ZenonT(30), <1>3, <1>4, <1>5, HandlesSame, Kinds
<1>10. UsingInv'
  BY ZenonT(30), <1>4, <1>6, StaysInUse, Kinds
<1>11. RemoverInv'
  BY <1>4, <1>5, Kinds DEF Inv, RemoverInv
<1> QED BY <1>1, <1>2, <1>6, <1>7, <1>8, <1>9, <1>10, <1>11 DEF Inv, ThreadInv

=============================================================================
