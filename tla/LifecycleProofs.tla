-------------------------- MODULE LifecycleProofs ---------------------------
(***************************************************************************)
(* Theorems about Lifecycle, for any number of threads and DB objects, with*)
(* cancellation and with any number of concurrent deletions: use counts are*)
(* exact, a database is never closed under a thread that uses it, and one  *)
(* thread at most opens or closes a database.                              *)
(***************************************************************************)
EXTENDS LifecycleInv

-----------------------------------------------------------------------------
(* Closing and creating a database: the closers and the creators.          *)

\* The closer is the only user, so nobody's database is closed.
LEMMA StartClosingInv ==
    ASSUME Inv, NEW t \in IdleClosers \cup Closers, StartClosing(t)
    PROVE  Inv' /\ KeepsOpen
<1>1. UseCounts'
  BY CountSame DEF Inv, StartClosing
<1>2. TypeOK'
  BY ZenonT(30), Kinds DEF Inv, TypeOK, StartClosing, env, local, removers, ThreadLabels
<1>3. /\ t \in Threads /\ t \notin Openers /\ t \notin Waiters /\ Target(t) = held[t]
      /\ pc[t] = "acquired" /\ held[t] \in DBs /\ dbState[held[t]] = "Open"
  BY Kinds, TypesUsed DEF Inv, StartClosing, HeldInv, Target
<1>4. \A w \in Waiters : held[w] # held[t]
  BY <1>3, SoleHolder, Kinds DEF Inv, StartClosing
<1>5. pc'[t] = "closing" /\ \A x \in Threads \ {t} : pc'[x] = pc[x]
  BY <1>3, TypesUsed DEF Inv, StartClosing
<1>6. /\ dbState'[held[t]] = "Closing"
      /\ \A d \in DBs : d # held[t] => dbState'[d] = dbState[d]
  BY <1>3, TypesUsed DEF Inv, StartClosing
<1>7. held' = held /\ arg' = arg /\ opener' = opener /\ handle' = handle
  BY DEF StartClosing, local
<1>8. KeepsOpen
  BY <1>4, <1>6 DEF KeepsOpen
<1>9. Labels'
  BY <1>3, <1>5, Kinds DEF Inv, Labels
<1>10. HeldInv' /\ ArgInv'
  BY <1>3, <1>5, <1>7, Kinds DEF Inv, HeldInv, ArgInv
<1>11. \A x \in Threads : Target(x)' = Target(x)
  BY <1>7 DEF Target
<1>12. ASSUME NEW x \in Threads, x # t, pc'[x] \in OpeningLabels \cup ClosingLabels
       PROVE  /\ pc[x] = pc'[x] /\ Target(x) # held[t]
              /\ dbState'[Target(x)] = dbState[Target(x)]
  <2>1. pc[x] = pc'[x] /\ dbState[Target(x)] # "Open" /\ Target(x) \in DBs
    BY <1>5, <1>12, TargetKnown DEF Inv, ChargeInv
  <2> QED BY <1>3, <1>6, <2>1
<1>13. ChargeInv'
  BY <1>3, <1>5, <1>6, <1>11, <1>12 DEF Inv, ChargeInv, OpeningLabels, ClosingLabels
<1>14. SoleCharge'
  BY <1>3, <1>11, <1>12 DEF Inv, SoleCharge
<1>15. HandleInv'
  BY <1>3, <1>5, <1>6, <1>7, HandlesSame, Kinds
<1>16. UsingInv'
  BY <1>3, <1>5, <1>7, <1>8, StaysInUse, Kinds
<1>17. WaitLabel' /\ WaitAlive' /\ WaitArg' /\ WaitOpen' /\ WaitSole'
  <2>1. \A w \in Waiters : pc'[w] = pc[w]
    BY <1>3, <1>5, Kinds
  <2>2. ASSUME NEW w \in Waiters, pc[w] = "waiting"
        PROVE  pc'[opener[w]] = pc[opener[w]] /\ pc[opener[w]] # "idle"
    <3>1. opener[w] \in Openers
      BY <2>2, TypesUsed DEF Inv, WaitLabel
    <3> QED BY <1>3, <1>5, <2>2, <3>1, Kinds DEF Inv, WaitAlive
  <2> QED BY <1>7, <1>8, <2>1, <2>2, WaitsKept
<1>18. RemoverInv'
  BY <1>7 DEF Inv, StartClosing, env, removers, RemoverInv
<1> QED BY <1>1, <1>2, <1>8, <1>9, <1>10, <1>13, <1>14, <1>15, <1>16, <1>17,
           <1>18 DEF Inv

\* The database is not open, or used by others.
LEMMA SkipClosingInv ==
    ASSUME Inv, NEW t \in IdleClosers \cup Closers, SkipClosing(t)
    PROVE  Inv' /\ KeepsOpen
<1>1. UseCounts'
  BY CountSame DEF Inv, SkipClosing, objects
<1>2. TypeOK'
  BY Kinds DEF Inv, TypeOK, SkipClosing, env, objects, local, removers, ThreadLabels
<1>3. KeepsOpen
  BY DEF KeepsOpen, SkipClosing, objects
<1>4. Labels'
  BY DEF Inv, SkipClosing, Labels
<1>5. ThreadInv'
  BY ZenonT(30), ThreadMoves, Kinds DEF SkipClosing, objects, local, OpeningLabels,
     ClosingLabels
<1>6. HandleInv'
  BY HandlesSame, Kinds, TypesUsed DEF Inv, SkipClosing, objects, local
<1>7. UsingInv'
  BY <1>3, StaysInUse, Kinds, TypesUsed DEF Inv, SkipClosing
<1>8. RemoverInv'
  BY DEF Inv, SkipClosing, env, objects, local, removers, RemoverInv
<1> QED BY <1>1, <1>2, <1>3, <1>4, <1>5, <1>6, <1>7, <1>8 DEF Inv, ThreadInv

\* The storage is closed under the Closing lock.
LEMMA CloseHandleInv ==
    ASSUME Inv, NEW t \in IdleClosers \cup Closers, CloseHandle(t)
    PROVE  Inv' /\ KeepsOpen
<1>1. UseCounts'
  BY CountSame DEF Inv, CloseHandle
<1>2. TypeOK'
  BY ZenonT(30), Kinds DEF Inv, TypeOK, CloseHandle, env, local, removers, ThreadLabels
<1>3. KeepsOpen
  BY DEF KeepsOpen, CloseHandle
<1>4. Labels'
  BY DEF Inv, CloseHandle, Labels
<1>5. ThreadInv'
  BY ZenonT(30), ThreadMoves, Kinds DEF CloseHandle, local, OpeningLabels, ClosingLabels
<1>6. HandleInv'
  <2>1. /\ t \in Threads /\ t \notin Openers /\ pc[t] = "closing" /\ Target(t) = held[t]
        /\ pc[t] \in OpeningLabels \cup ClosingLabels
    BY Kinds DEF CloseHandle, ClosingLabels, Target
  <2>2. /\ pc'[t] = "closed" /\ \A x \in Threads \ {t} : pc'[x] = pc[x]
        /\ arg' = arg /\ dbState' = dbState
    BY <2>1, TypesUsed DEF Inv, CloseHandle, local
  <2>3. /\ dbState'[Target(t)] # "Open"
        /\ \A d \in DBs : d # Target(t) => handle'[d] = handle[d]
    BY <2>1, <2>2 DEF Inv, TypeOK, CloseHandle, ChargeInv
  <2> QED BY <2>1, <2>2, <2>3, HandleEnds
<1>7. UsingInv'
  BY DEF Inv, CloseHandle, UsingInv
<1>8. RemoverInv'
  BY DEF Inv, CloseHandle, env, local, removers, RemoverInv
<1> QED BY <1>1, <1>2, <1>3, <1>4, <1>5, <1>6, <1>7, <1>8 DEF Inv, ThreadInv

\* The Closing lock is given back.
LEMMA MarkClosedInv ==
    ASSUME Inv, NEW t \in IdleClosers \cup Closers, MarkClosed(t)
    PROVE  Inv' /\ KeepsOpen
<1>1. UseCounts'
  BY CountSame DEF Inv, MarkClosed
<1>2. TypeOK'
  BY ZenonT(30), Kinds DEF Inv, TypeOK, MarkClosed, env, local, removers, ThreadLabels
<1>3. /\ t \in Threads /\ t \notin Openers /\ t \notin Waiters /\ Target(t) = held[t]
      /\ pc[t] = "closed" /\ pc[t] \in OpeningLabels \cup ClosingLabels
  BY Kinds DEF MarkClosed, ClosingLabels, Target
<1>4. held[t] \in DBs /\ held[t] # NoDB
  BY <1>3, TargetKnown, Kinds
<1>5. pc'[t] = "release" /\ \A x \in Threads \ {t} : pc'[x] = pc[x]
  BY <1>3, TypesUsed DEF Inv, MarkClosed
<1>6. /\ dbState'[held[t]] = "Closed"
      /\ \A d \in DBs : d # held[t] => dbState'[d] = dbState[d]
  BY <1>4, TypesUsed DEF Inv, MarkClosed
<1>7. held' = held /\ arg' = arg /\ opener' = opener /\ handle' = handle
  BY DEF MarkClosed, local
<1>8. KeepsOpen
  BY <1>3, <1>6, LockedKeepsOpen
<1>9. Labels'
  BY <1>3, <1>5, Kinds DEF Inv, Labels
<1>10. ThreadInv'
  <2>1. pc[t] # "waiting" /\ pc'[t] \notin OpeningLabels \cup ClosingLabels
    BY <1>3, <1>5 DEF OpeningLabels, ClosingLabels
  <2> QED BY <1>3, <1>4, <1>5, <1>6, <1>7, <1>8, <2>1, LockEnds
<1>11. HandleInv'
  BY <1>3, <1>5, <1>6, <1>7, HandleEnds
<1>12. UsingInv'
  BY <1>3, <1>5, <1>7, <1>8, StaysInUse, Kinds
<1>13. RemoverInv'
  BY ZenonT(30) DEF Inv, MarkClosed, env, removers, RemoverInv
<1> QED BY <1>1, <1>2, <1>8, <1>9, <1>10, <1>11, <1>12, <1>13 DEF Inv, ThreadInv

\* The name of the new database is reserved.
LEMMA KickOffInv ==
    ASSUME Inv, NEW k \in Creators, KickOff(k)
    PROVE  Inv' /\ KeepsOpen
<1>1. UseCounts'
  BY CountSame DEF Inv, KickOff, objects
<1>2. TypeOK'
  BY Kinds DEF Inv, TypeOK, KickOff, objects, local, removers, ThreadLabels
<1>3. KeepsOpen
  BY DEF KeepsOpen, KickOff, objects
<1>4. Labels'
  BY Kinds DEF Inv, KickOff, objects, Labels
<1>5. ThreadInv'
  BY ZenonT(30), ThreadMoves, Kinds DEF KickOff, objects, local, OpeningLabels, ClosingLabels
<1>6. HandleInv'
  BY Kinds, TypesUsed DEF Inv, KickOff, objects, local, HandleInv
<1>7. UsingInv'
  <2>1. \A c \in Clients : pc'[c] = "using" => pc[c] = "using" /\ held'[c] = held[c]
    BY Kinds, TypesUsed DEF Inv, KickOff
  <2> QED BY <1>3, <2>1, StaysInUse
<1>8. RemoverInv'
  BY DEF Inv, KickOff, objects, local, removers, RemoverInv
<1> QED BY <1>1, <1>2, <1>3, <1>4, <1>5, <1>6, <1>7, <1>8 DEF Inv, ThreadInv

\* The creator gets a new object that is Opening, and has the lock.
LEMMA CreateEntryInv ==
    ASSUME Inv, NEW k \in Creators, CreateEntry(k)
    PROVE  Inv' /\ KeepsOpen
<1>1. UseCounts' /\ dbUsers' \in [DBs -> Nat]
  BY ZenonT(30), CountFresh, Kinds DEF Inv, TypeOK, CreateEntry, HeldInv
<1>2. PICK d \in DBs :
        /\ pc[k] = "creating" /\ Unreachable(d) /\ active' = d
        /\ dbState' = [dbState EXCEPT ![d] = "Opening"]
        /\ held' = [held EXCEPT ![k] = d]
        /\ pc' = [pc EXCEPT ![k] = "spawn"]
  BY ZenonT(30) DEF CreateEntry
<1>3. TypeOK'
  <2>1. /\ catalog' = "live" /\ meta' = "Incomplete" /\ active' \in DBs
        /\ UNCHANGED <<deleting, files, odbWriting, handle, arg, opener, rpc, rdb>>
    BY DEF CreateEntry, removers
  <2>2. /\ dbState' \in [DBs -> {"Closed", "Opening", "Open", "Closing"}]
        /\ held' \in [Threads -> DBs \cup {NoDB}]
        /\ pc' \in [Threads -> ThreadLabels]
    BY ZenonT(30), <1>2, TypesUsed DEF Inv, ThreadLabels
  <2>3. mode' \in [Waiters \cup Openers -> {"ReadOnly", "ReadWrite", "Create"}]
    BY ZenonT(30) DEF Inv, TypeOK, CreateEntry
  <2> QED BY <1>1, <2>1, <2>2, <2>3 DEF Inv, TypeOK
<1>4. /\ k \in Threads /\ k \notin Openers /\ k \notin Clients
      /\ pc[k] = "creating" /\ pc'[k] = "spawn" /\ held'[k] = d /\ dbState'[d] = "Opening"
      /\ \A t \in Threads : t # k => pc'[t] = pc[t] /\ held'[t] = held[t]
      /\ \A e \in DBs : e # d => dbState'[e] = dbState[e]
  BY <1>2, Kinds, TypesUsed DEF Inv
<1>5. arg' = arg /\ opener' = opener /\ handle' = handle /\ rpc' = rpc /\ rdb' = rdb
  BY DEF CreateEntry, removers
<1>6. \A t \in Threads : held[t] # d /\ Target(t) # d
  BY <1>2 DEF Unreachable, Target
<1>7. KeepsOpen
  BY ZenonT(30), <1>4, <1>6, Kinds DEF KeepsOpen
<1>8. Labels'
  BY ZenonT(30), <1>4, Kinds DEF Inv, Labels
<1>9. HeldInv' /\ ArgInv'
  <2>1. HeldInv'
    BY ZenonT(30), <1>4, Kinds DEF Inv, HeldInv
  <2>2. ArgInv'
    BY ZenonT(30), <1>4, <1>5, Kinds DEF Inv, ArgInv
  <2> QED BY <2>1, <2>2
<1>10. ASSUME NEW t \in Threads, t # k
       PROVE  pc'[t] = pc[t] /\ Target(t)' = Target(t)
  BY ZenonT(30), <1>4, <1>5, <1>10 DEF Target
<1>11. Target(k)' = d
  BY ZenonT(30), <1>4 DEF Target
<1>12. ChargeInv'
  <2>1. ASSUME NEW t \in Threads, t # k, pc[t] \in OpeningLabels \cup ClosingLabels
        PROVE  dbState'[Target(t)'] = dbState[Target(t)]
    BY <1>4, <1>6, <1>10, <2>1, TargetKnown
  <2> QED BY <1>4, <1>10, <1>11, <2>1 DEF Inv, ChargeInv, OpeningLabels, ClosingLabels
<1>13. SoleCharge'
  BY <1>6, <1>10, <1>11 DEF Inv, SoleCharge
<1>14. HandleInv'
  BY <1>4, <1>5, Kinds DEF Inv, HandleInv
<1>15. UsingInv'
  BY <1>4, <1>7, Kinds, StaysInUse
<1>16. ASSUME NEW w \in Waiters, pc'[w] = "waiting"
       PROVE  /\ pc[w] = "waiting" /\ held'[w] = held[w]
              /\ opener[w] \in Openers /\ pc'[opener[w]] = pc[opener[w]]
  <2>1. w # k /\ pc[w] = "waiting" /\ held'[w] = held[w]
    BY <1>4, <1>16, Kinds
  <2>2. opener[w] \in Openers
    BY <2>1, TypesUsed DEF Inv, WaitLabel
  <2> QED BY <1>4, <2>1, <2>2, Kinds
<1>17. WaitLabel' /\ WaitSole'
  <2>1. \A w \in Waiters : (pc'[w] = "waiting") = (pc[w] = "waiting")
    BY <1>4, Kinds
  <2> QED BY <1>5, <2>1 DEF Inv, WaitLabel, WaitSole
<1>18. WaitAlive' /\ WaitArg'
  BY <1>5, <1>16 DEF Inv, WaitAlive, WaitArg
<1>19. WaitOpen'
  BY ZenonT(30), <1>5, <1>7, <1>16, StaysOpened
<1>20. RemoverInv'
  <2>1. active' = d /\ \A r \in Removers : rdb[r] # d
    BY <1>2 DEF Unreachable
  <2> QED BY <1>4, <1>5, <2>1 DEF Inv, RemoverInv
<1> QED BY ZenonT(30), <1>1, <1>3, <1>7, <1>8, <1>9, <1>12, <1>13, <1>14, <1>15, <1>17, <1>18,
           <1>19, <1>20 DEF Inv

\* The name is given back.
LEMMA CreateEntryFailsInv ==
    ASSUME Inv, NEW k \in Creators, CreateEntryFails(k)
    PROVE  Inv' /\ KeepsOpen
<1>1. UseCounts'
  BY CountSame DEF Inv, CreateEntryFails, objects
<1>2. TypeOK'
  BY Kinds DEF Inv, TypeOK, CreateEntryFails, objects, local, removers, ThreadLabels
<1>3. KeepsOpen
  BY DEF KeepsOpen, CreateEntryFails, objects
<1>4. Labels'
  BY DEF Inv, CreateEntryFails, Labels
<1>5. ThreadInv'
  BY ZenonT(30), ThreadMoves, Kinds DEF CreateEntryFails, objects, local, OpeningLabels,
     ClosingLabels
<1>6. HandleInv'
  BY ZenonT(30), Kinds, TypesUsed DEF Inv, CreateEntryFails, objects, local, HandleInv
<1>7. UsingInv'
  BY ZenonT(30), Kinds, TypesUsed DEF Inv, CreateEntryFails, objects, local, removers, UsingInv,
     HeldInv, Labels
<1>8. RemoverInv'
  BY ZenonT(30) DEF Inv, CreateEntryFails, objects, local, removers, RemoverInv
<1> QED BY <1>1, <1>2, <1>3, <1>4, <1>5, <1>6, <1>7, <1>8 DEF Inv, ThreadInv

-----------------------------------------------------------------------------
(* Acquiring, releasing and waiting for a database: the clients and the    *)
(* waiters.  KeepsOpen is proved along with the invariant, since UsingInv  *)
(* and WaitOpen need it.                                                   *)

\* A thread other than an opener takes an object or gives it back, and has
\* neither a lock nor somebody to wait for.
LEMMA BracketMoves ==
    ASSUME Inv, NEW t \in Threads, t \notin Openers, NEW d, NEW l,
           pc' = [pc EXCEPT ![t] = l], held' = [held EXCEPT ![t] = d],
           UNCHANGED <<arg, opener, dbState, handle>>,
           pc[t] \in {"idle", "using", "release"}, l \in {"idle", "acquired"},
           d = NoDB <=> l = "idle"
    PROVE  ThreadInv' /\ HandleInv' /\ UsingInv'
<1>1. /\ pc'[t] = l /\ held'[t] = d
      /\ \A x \in Threads \ {t} : pc'[x] = pc[x] /\ held'[x] = held[x]
  BY TypesUsed DEF Inv
<1>2. HeldInv' /\ ArgInv'
  <2>1. HeldInv'
    BY <1>1 DEF Inv, HeldInv
  <2>2. ArgInv'
    BY <1>1, Kinds DEF Inv, ArgInv
  <2> QED BY <2>1, <2>2
<1>3. ASSUME NEW x \in Threads, pc'[x] \in OpeningLabels \cup ClosingLabels
      PROVE  /\ pc'[x] = pc[x] /\ Target(x)' = Target(x)
             /\ dbState'[Target(x)] = dbState[Target(x)]
  <2>1. x # t
    BY <1>1, <1>3 DEF OpeningLabels, ClosingLabels
  <2> QED BY <1>1, <2>1 DEF Target
<1>4. ChargeInv' /\ SoleCharge'
  BY <1>3, ChargeKept
<1>5. HandleInv'
  BY <1>1, Kinds DEF Inv, HandleInv
<1>6. UsingInv'
  BY <1>1, Kinds DEF Inv, UsingInv
<1>7. \A w \in Waiters : (pc'[w] = "waiting") = (pc[w] = "waiting")
  BY <1>1, Kinds
<1>8. ASSUME NEW w \in Waiters, pc[w] = "waiting"
      PROVE  /\ held'[w] = held[w]
             /\ pc'[opener[w]] = pc[opener[w]] /\ pc[opener[w]] # "idle"
  <2>1. opener[w] \in Openers
    BY <1>8, TypesUsed DEF Inv, WaitLabel
  <2> QED BY <1>1, <1>8, <2>1, Kinds DEF Inv, WaitAlive
<1>9. KeepsOpen
  BY DEF KeepsOpen
<1>10. WaitLabel' /\ WaitAlive' /\ WaitArg' /\ WaitOpen' /\ WaitSole'
  BY <1>7, <1>8, <1>9, WaitsKept
<1> QED BY <1>2, <1>4, <1>5, <1>6, <1>10 DEF ThreadInv

\* usingActiveDatabase counts a new user of the active object.
LEMMA AcquireActiveInv ==
    ASSUME Inv, NEW t \in Threads, AcquireActive(t)
    PROVE  Inv' /\ KeepsOpen
<1>1. UseCounts' /\ dbUsers' \in [DBs -> Nat]
  BY ZenonT(30), CountAcquire, Kinds DEF Inv, TypeOK, AcquireActive, AcquireDB, env, local,
     removers, HeldInv, ArgInv
<1>2. TypeOK'
  BY <1>1 DEF Inv, TypeOK, AcquireActive, AcquireDB, env, local, removers,
     ThreadLabels
<1>3. KeepsOpen
  BY DEF KeepsOpen, AcquireActive
<1>4. /\ t \notin Openers /\ t \notin Creators /\ pc[t] = "idle" /\ active # NoDB
      /\ pc' = [pc EXCEPT ![t] = "acquired"] /\ held' = [held EXCEPT ![t] = active]
      /\ UNCHANGED <<arg, opener, dbState, handle, rpc, rdb, active>>
  BY Kinds DEF AcquireActive, AcquireDB, env, local, removers
<1>5. /\ pc'[t] = "acquired" /\ held'[t] = active
      /\ \A x \in Threads \ {t} : pc'[x] = pc[x] /\ held'[x] = held[x]
  BY <1>4, TypesUsed DEF Inv
<1>6. Labels'
  BY <1>4, <1>5, Kinds DEF Inv, Labels
<1>7. ThreadInv' /\ HandleInv' /\ UsingInv'
  BY ZenonT(30), <1>4, BracketMoves
<1>8. RemoverInv'
  BY <1>4, <1>5, Kinds, TypesUsed DEF Inv, RemoverInv
<1> QED BY <1>1, <1>2, <1>3, <1>6, <1>7, <1>8 DEF Inv, ThreadInv

\* The end of a bracket: the count goes down, and nobody else is affected.
LEMMA ReleaseInv ==
    ASSUME Inv, NEW t \in Threads, Release(t)
    PROVE  Inv' /\ KeepsOpen
<1>1. UseCounts' /\ dbUsers' \in [DBs -> Nat]
  BY ZenonT(30), CountRelease, Kinds DEF Inv, TypeOK, Release, ReleaseDB, Incomplete, local,
     removers, HeldInv, Labels
<1>2. TypeOK'
  BY ZenonT(30), <1>1, Kinds DEF Inv, TypeOK, Release, ReleaseDB, Incomplete, local, removers,
     ThreadLabels, HeldInv, ArgInv
<1>3. KeepsOpen
  BY ZenonT(30) DEF KeepsOpen, Release
<1>4. /\ t \notin Openers /\ pc[t] \in {"using", "release"}
      /\ pc' = [pc EXCEPT ![t] = "idle"] /\ held' = [held EXCEPT ![t] = NoDB]
      /\ UNCHANGED <<arg, opener, dbState, handle, rpc, rdb>> /\ active' \in {active, NoDB}
  BY ZenonT(30) DEF Release, ReleaseDB, local, removers
<1>5. /\ pc'[t] = "idle" /\ held'[t] = NoDB
      /\ \A x \in Threads \ {t} : pc'[x] = pc[x] /\ held'[x] = held[x]
  BY <1>4, TypesUsed DEF Inv
<1>6. Labels'
  BY <1>4, <1>5, Kinds DEF Inv, Labels
<1>7. ThreadInv' /\ HandleInv' /\ UsingInv'
  BY ZenonT(30), <1>4, BracketMoves
<1>8. RemoverInv'
  BY <1>4, <1>5 DEF Inv, RemoverInv
<1> QED BY <1>1, <1>2, <1>3, <1>6, <1>7, <1>8 DEF Inv, ThreadInv

\* withActiveDatabase makes an object that nobody refers to active.
LEMMA ActivateNewInv ==
    ASSUME Inv, NEW c \in Clients, ActivateNew(c)
    PROVE  Inv' /\ KeepsOpen
<1>1. UseCounts' /\ dbUsers' \in [DBs -> Nat]
  BY ZenonT(30), CountFresh, Kinds DEF Inv, TypeOK, ActivateNew, HeldInv
<1>2. PICK d \in DBs :
        /\ pc[c] = "idle" /\ Unreachable(d) /\ active' = d
        /\ dbState' = [dbState EXCEPT ![d] = "Closed"]
        /\ held' = [held EXCEPT ![c] = d]
        /\ pc' = [pc EXCEPT ![c] = "acquired"]
  BY ZenonT(30) DEF ActivateNew
<1>3. TypeOK'
  <2>1. /\ active' \in DBs
        /\ UNCHANGED <<catalog, meta, deleting, files, odbWriting, handle>>
        /\ UNCHANGED <<arg, opener, mode, rpc, rdb>>
    BY DEF ActivateNew, removers, local
  <2>2. /\ dbState' \in [DBs -> {"Closed", "Opening", "Open", "Closing"}]
        /\ held' \in [Threads -> DBs \cup {NoDB}]
        /\ pc' \in [Threads -> ThreadLabels]
    BY ZenonT(30), <1>2, TypesUsed DEF Inv, ThreadLabels
  <2> QED BY <1>1, <2>1, <2>2 DEF Inv, TypeOK
<1>4. /\ c \in Threads /\ c \notin Openers
      /\ pc[c] = "idle" /\ pc'[c] = "acquired" /\ held'[c] = d /\ d # NoDB
      /\ \A t \in Threads \ {c} : pc'[t] = pc[t] /\ held'[t] = held[t]
      /\ \A e \in DBs : e # d => dbState'[e] = dbState[e]
  BY <1>2, Kinds, TypesUsed DEF Inv
<1>5. /\ arg' = arg /\ opener' = opener /\ handle' = handle /\ rpc' = rpc /\ rdb' = rdb
      /\ dbState'[d] = "Closed"
  BY <1>2, TypesUsed DEF Inv, ActivateNew, removers, local
<1>6. \A t \in Threads : held[t] # d /\ Target(t) # d
  BY ZenonT(30), <1>2 DEF Unreachable, Target
<1>7. KeepsOpen
  BY ZenonT(30), <1>4, <1>6, Kinds DEF KeepsOpen
<1>8. Labels'
  BY <1>4, Kinds DEF Inv, Labels
<1>9. HeldInv' /\ ArgInv'
  <2>1. HeldInv'
    BY ZenonT(30), <1>4 DEF Inv, HeldInv
  <2>2. ArgInv'
    BY ZenonT(30), <1>4, <1>5, Kinds DEF Inv, ArgInv
  <2> QED BY <2>1, <2>2
<1>10. ChargeInv' /\ SoleCharge'
  <2>1. ASSUME NEW x \in Threads, pc'[x] \in OpeningLabels \cup ClosingLabels
        PROVE  /\ pc'[x] = pc[x] /\ Target(x)' = Target(x)
               /\ dbState'[Target(x)] = dbState[Target(x)]
    <3>1. x # c
      BY ZenonT(30), <1>4, <2>1 DEF OpeningLabels, ClosingLabels
    <3>2. pc'[x] = pc[x] /\ Target(x)' = Target(x)
      BY <1>4, <1>5, <3>1 DEF Target
    <3> QED BY <1>4, <1>6, <2>1, <3>2, TargetKnown
  <2> QED BY <2>1, ChargeKept
<1>11. HandleInv'
  <2>1. \A e \in DBs : dbState'[e] = "Open" => dbState[e] = "Open"
    BY <1>4, <1>5
  <2>2. \A o \in Openers : pc'[o] = pc[o]
    BY <1>4, Kinds
  <2> QED BY <1>5, <2>1, <2>2, HandlesSame
<1>12. UsingInv'
  BY ZenonT(30), <1>4, <1>7, Kinds, StaysInUse
<1>13. WaitLabel' /\ WaitAlive' /\ WaitArg' /\ WaitOpen' /\ WaitSole'
  <2>1. \A w \in Waiters : (pc'[w] = "waiting") = (pc[w] = "waiting")
    BY <1>4, Kinds
  <2>2. ASSUME NEW w \in Waiters, pc[w] = "waiting"
        PROVE  /\ held'[w] = held[w]
               /\ pc'[opener[w]] = pc[opener[w]] /\ pc[opener[w]] # "idle"
    <3>1. opener[w] \in Openers
      BY <2>2, TypesUsed DEF Inv, WaitLabel
    <3> QED BY <1>4, <2>2, <3>1, Kinds DEF Inv, WaitAlive
  <2> QED BY ZenonT(30), <1>5, <1>7, <2>1, <2>2, WaitsKept
<1>14. RemoverInv'
  <2>1. active' = d /\ \A r \in Removers : rdb[r] # d
    BY ZenonT(30), <1>2 DEF Unreachable
  <2> QED BY <1>4, <1>5, <2>1 DEF Inv, RemoverInv
<1> QED BY <1>1, <1>3, <1>7, <1>8, <1>9, <1>10, <1>11, <1>12, <1>13, <1>14 DEF Inv

\* withOpenDatabase finds the database open.
LEMMA EnterOpenInv ==
    ASSUME Inv, NEW c \in Clients, EnterOpen(c)
    PROVE  Inv' /\ KeepsOpen
<1>1. UseCounts'
  BY ZenonT(30), CountSame DEF Inv, EnterOpen, objects
<1>2. TypeOK'
  BY Kinds DEF Inv, TypeOK, EnterOpen, env, objects, local, removers, ThreadLabels
<1>3. KeepsOpen
  BY ZenonT(30) DEF KeepsOpen, EnterOpen, objects
<1>4. Labels'
  BY Kinds DEF Inv, EnterOpen, objects, Labels
<1>5. ThreadInv'
  BY ZenonT(30), ThreadMoves, Kinds DEF EnterOpen, objects, local, OpeningLabels, ClosingLabels
<1>6. HandleInv'
  BY Kinds DEF Inv, EnterOpen, objects, local, removers, HandleInv, Labels, ArgInv,
     HeldInv, ChargeInv, SoleCharge, Target, OpeningLabels, ClosingLabels
<1>7. UsingInv'
  BY DEF Inv, EnterOpen, objects, UsingInv
<1>8. RemoverInv'
  BY DEF Inv, EnterOpen, env, objects, local, removers, RemoverInv
<1> QED BY <1>1, <1>2, <1>3, <1>4, <1>5, <1>6, <1>7, <1>8 DEF Inv, ThreadInv

\* It finds it closed, and takes the Opening lock for itself.
LEMMA ClaimOpeningInv ==
    ASSUME Inv, NEW c \in Clients, ClaimOpening(c)
    PROVE  Inv' /\ KeepsOpen
<1>1. UseCounts'
  BY CountSame DEF Inv, ClaimOpening
<1>2. TypeOK'
  BY ZenonT(30), Kinds DEF Inv, TypeOK, ClaimOpening, OpenMode, env, removers, ThreadLabels
<1>3. /\ c \in Threads /\ c \notin Openers /\ Target(c) = held[c]
      /\ pc[c] = "acquired" /\ held[c] \in DBs /\ dbState[held[c]] = "Closed"
  BY ZenonT(30), Kinds, TypesUsed DEF Inv, ClaimOpening, HeldInv, Target
<1>4. pc'[c] = "spawn" /\ \A x \in Threads \ {c} : pc'[x] = pc[x]
  BY <1>3, TypesUsed DEF Inv, ClaimOpening
<1>5. /\ dbState'[held[c]] = "Opening"
      /\ \A d \in DBs : d # held[c] => dbState'[d] = dbState[d]
  BY ZenonT(30), <1>3, TypesUsed DEF Inv, ClaimOpening
<1>6. held' = held /\ arg' = arg /\ opener' = opener /\ handle' = handle
  BY DEF ClaimOpening
<1>7. KeepsOpen
  BY ZenonT(30), <1>3, <1>5 DEF KeepsOpen
<1>8. Labels'
  BY ZenonT(30), <1>3, <1>4, Kinds DEF Inv, Labels
<1>9. HeldInv' /\ ArgInv'
  BY <1>3, <1>4, <1>6, Kinds DEF Inv, HeldInv, ArgInv
<1>10. \A x \in Threads : Target(x)' = Target(x)
  BY ZenonT(30), <1>6 DEF Target
<1>11. ASSUME NEW x \in Threads, x # c, pc'[x] \in OpeningLabels \cup ClosingLabels
       PROVE  /\ pc[x] = pc'[x] /\ Target(x) # held[c]
              /\ dbState'[Target(x)] = dbState[Target(x)]
  <2>1. pc[x] = pc'[x] /\ dbState[Target(x)] # "Closed" /\ Target(x) \in DBs
    BY ZenonT(30), <1>4, <1>11, TargetKnown DEF Inv, ChargeInv
  <2> QED BY ZenonT(30), <1>3, <1>5, <2>1
<1>12. ChargeInv'
  BY ZenonT(30), <1>3, <1>4, <1>5, <1>10, <1>11 DEF Inv, ChargeInv, OpeningLabels, ClosingLabels
<1>13. SoleCharge'
  BY <1>3, <1>10, <1>11 DEF Inv, SoleCharge
<1>14. HandleInv'
  <2>1. \A e \in DBs : dbState'[e] = "Open" => dbState[e] = "Open"
    BY <1>5
  <2>2. \A o \in Openers : pc'[o] = pc[o]
    BY <1>3, <1>4, Kinds
  <2> QED BY <1>6, <2>1, <2>2, HandlesSame
<1>15. UsingInv'
  BY ZenonT(30), <1>4, <1>6, <1>7, StaysInUse, Kinds
<1>16. WaitLabel' /\ WaitAlive' /\ WaitArg' /\ WaitOpen' /\ WaitSole'
  <2>1. \A w \in Waiters : (pc'[w] = "waiting") = (pc[w] = "waiting")
    BY ZenonT(30), <1>3, <1>4, Kinds
  <2>2. ASSUME NEW w \in Waiters, pc[w] = "waiting"
        PROVE  pc'[opener[w]] = pc[opener[w]] /\ pc[opener[w]] # "idle"
    <3>1. opener[w] \in Openers
      BY ZenonT(30), <2>2, TypesUsed DEF Inv, WaitLabel
    <3> QED BY <1>3, <1>4, <2>2, <3>1, Kinds DEF Inv, WaitAlive
  <2> QED BY ZenonT(30), <1>6, <1>7, <2>1, <2>2, WaitsKept
<1>17. RemoverInv'
  BY <1>6 DEF Inv, ClaimOpening, env, removers, RemoverInv
<1> QED BY ZenonT(30), <1>1, <1>2, <1>7, <1>8, <1>9, <1>12, <1>13, <1>14, <1>15, <1>16,
           <1>17 DEF Inv

\* It refuses to open it, and releases it.
LEMMA OpenRefusedInv ==
    ASSUME Inv, NEW c \in Clients, OpenRefused(c)
    PROVE  Inv' /\ KeepsOpen
<1>1. UseCounts' /\ dbUsers' \in [DBs -> Nat]
  BY ZenonT(30), CountRelease, Kinds DEF Inv, TypeOK, OpenRefused, ReleaseDB, HeldInv
<1>2. TypeOK'
  BY <1>1, Kinds DEF Inv, TypeOK, OpenRefused, ReleaseDB, removers, ThreadLabels
<1>3. /\ c \in Threads /\ c \notin Openers /\ pc[c] # "waiting"
      /\ pc'[c] = "idle" /\ held'[c] = NoDB
      /\ \A x \in Threads \ {c} : pc'[x] = pc[x] /\ held'[x] = held[x]
  BY ZenonT(30), Kinds, TypesUsed DEF Inv, OpenRefused, ReleaseDB
<1>4. /\ arg' = arg /\ opener' = opener /\ handle' = handle /\ dbState' = dbState
      /\ rpc' = rpc /\ rdb' = rdb /\ active' \in {active, NoDB}
  BY ZenonT(30) DEF OpenRefused, ReleaseDB, removers
<1>5. KeepsOpen
  BY ZenonT(30), <1>4 DEF KeepsOpen
<1>6. Labels'
  BY ZenonT(30), <1>3, Kinds DEF Inv, Labels
<1>7. ThreadInv'
  BY ZenonT(30), <1>3, <1>4, <1>5, LockEnds DEF OpeningLabels, ClosingLabels
<1>8. HandleInv'
  BY ZenonT(30), <1>3, <1>4, HandlesSame, Kinds
<1>9. UsingInv'
  BY ZenonT(30), <1>3, <1>5, StaysInUse, Kinds
<1>10. RemoverInv'
  BY ZenonT(30), <1>3, <1>4, Kinds DEF Inv, RemoverInv
<1> QED BY <1>1, <1>2, <1>5, <1>6, <1>7, <1>8, <1>9, <1>10 DEF Inv, ThreadInv

\* Its opener has succeeded: WaitOpen says that the object is open.
LEMMA AwaitClientInv ==
    ASSUME Inv, NEW c \in Clients, AwaitClient(c)
    PROVE  Inv' /\ KeepsOpen
<1>1. UseCounts'
  BY CountSame DEF Inv, AwaitClient, objects
<1>2. TypeOK'
  BY ZenonT(30), Kinds DEF Inv, TypeOK, AwaitClient, env, objects, removers, ThreadLabels
<1>3. KeepsOpen
  BY DEF KeepsOpen, AwaitClient, objects
<1>4. pc' = [pc EXCEPT ![c] = "using",
                       ![opener[c]] = IF @ \in {"ok", "failed"} THEN "idle" ELSE @]
  BY Kinds, TypesUsed DEF Inv, AwaitClient, WaitLabel
<1>5. ThreadInv' /\ HandleInv'
  BY ZenonT(30), <1>4, WaitEnds, Kinds DEF AwaitClient, objects
<1>6. Labels'
  BY <1>4, Kinds, TypesUsed DEF Inv, Labels, WaitLabel, AwaitClient
<1>7. UsingInv'
  <2>1. dbState[held[c]] = "Open"
    BY Kinds DEF Inv, AwaitClient, WaitOpen
  <2>2. /\ held' = held /\ dbState' = dbState
        /\ \A x \in Clients : pc'[x] = "using" => x = c \/ pc[x] = "using"
    BY Kinds, TypesUsed DEF Inv, AwaitClient, objects
  <2> QED BY ZenonT(30), <2>1, <2>2 DEF Inv, UsingInv
<1>8. RemoverInv'
  BY DEF Inv, AwaitClient, env, removers, RemoverInv
<1> QED BY <1>1, <1>2, <1>3, <1>4, <1>5, <1>6, <1>7, <1>8 DEF Inv, ThreadInv

\* The waiter hands the Opening lock to a new opener.
LEMMA SpawnOpenerInv ==
    ASSUME Inv, NEW w \in Waiters, SpawnOpener(w)
    PROVE  Inv' /\ KeepsOpen
<1>1. PICK o \in Openers :
        /\ pc[o] = "idle"
        /\ arg' = [arg EXCEPT ![o] = held[w]]
        /\ mode' = [mode EXCEPT ![o] = mode[w], ![w] = "ReadOnly"]
        /\ opener' = [opener EXCEPT ![w] = o]
        /\ pc' = [pc EXCEPT ![o] = "spawned", ![w] = "waiting"]
  BY ZenonT(30) DEF SpawnOpener
<1>2. /\ pc[w] = "spawn" /\ w \in Threads /\ o \in Threads /\ w # o /\ w \notin Openers
      /\ held[w] \in DBs
  BY Kinds, TypesUsed DEF Inv, SpawnOpener, HeldInv
<1>3. /\ UNCHANGED <<catalog, meta, active, deleting, files, held, dbUsers>>
      /\ UNCHANGED <<dbState, odbWriting, handle, rpc, rdb>>
  BY DEF SpawnOpener, env, objects, removers
<1>4. /\ pc'[w] = "waiting" /\ pc'[o] = "spawned"
      /\ \A x \in Threads \ {w, o} : pc'[x] = pc[x]
  BY <1>1, <1>2, TypesUsed DEF Inv
<1>5. /\ arg'[o] = held[w] /\ \A p \in Openers \ {o} : arg'[p] = arg[p]
      /\ opener'[w] = o /\ \A v \in Waiters \ {w} : opener'[v] = opener[v]
  BY <1>1, TypesUsed DEF Inv
<1>6. /\ pc' \in [Threads -> ThreadLabels]
      /\ arg' \in [Openers -> DBs \cup {NoDB}]
      /\ opener' \in [Waiters -> Openers \cup {NoOpener}]
  BY <1>1, <1>2, TypesUsed DEF Inv, ThreadLabels
<1>7. mode' \in [Openers \cup Waiters -> {"ReadOnly", "ReadWrite", "Create"}]
  BY ZenonT(30), <1>1 DEF Inv, TypeOK
<1>8. TypeOK'
  BY <1>3, <1>6, <1>7 DEF Inv, TypeOK
<1>9. UseCounts' /\ KeepsOpen /\ RemoverInv'
  BY ZenonT(30), <1>3, CountSame DEF Inv, KeepsOpen, RemoverInv
<1>10. Labels'
  BY ZenonT(30), <1>2, <1>4, Kinds DEF Inv, Labels
<1>11. held[o] = NoDB /\ arg[o] = NoDB
  BY <1>1, <1>2 DEF Inv, HeldInv, ArgInv
<1>12. HeldInv' /\ ArgInv'
  <2>1. HeldInv'
    BY ZenonT(30), <1>2, <1>3, <1>4, <1>11, Kinds DEF Inv, HeldInv
  <2>2. \A p \in Openers \ {o} : pc'[p] = pc[p] /\ arg'[p] = arg[p] /\ held'[p] = held[p]
    BY ZenonT(30), <1>2, <1>3, <1>4, <1>5, Kinds
  <2>3. pc'[o] = "spawned" /\ arg'[o] # NoDB /\ held'[o] = NoDB
    BY ZenonT(30), <1>2, <1>3, <1>4, <1>5, <1>11, Kinds
  <2>4. ArgInv'
    BY ZenonT(30), <2>2, <2>3 DEF Inv, ArgInv
  <2> QED BY <2>1, <2>4
<1>13. ASSUME NEW x \in Threads, pc'[x] \in OpeningLabels \cup ClosingLabels, x # o
       PROVE  x # w /\ pc'[x] = pc[x] /\ Target(x)' = Target(x)
  BY ZenonT(30), <1>3, <1>4, <1>5, <1>13 DEF Target, OpeningLabels, ClosingLabels
<1>14. Target(o)' = Target(w) /\ pc[w] \in OpeningLabels
  BY ZenonT(30), <1>2, <1>5 DEF Target, OpeningLabels
<1>15. ChargeInv'
  <2>1. /\ dbState'[Target(o)'] = "Opening"
        /\ pc'[o] \in OpeningLabels /\ pc'[o] \notin ClosingLabels
    BY ZenonT(30), <1>2, <1>3, <1>4, <1>14 DEF Inv, ChargeInv, OpeningLabels, ClosingLabels
  <2> QED BY ZenonT(30), <1>3, <1>13, <2>1 DEF Inv, ChargeInv
<1>16. SoleCharge'
  BY ZenonT(30), <1>2, <1>13, <1>14 DEF Inv, SoleCharge
<1>17. HandleInv'
  BY <1>3, <1>4, <1>5, <1>2, HandlesSame, Kinds
<1>18. UsingInv'
  BY ZenonT(30), <1>3, <1>4, <1>9, Kinds, StaysInUse
<1>19. ASSUME NEW v \in Waiters, v # w
       PROVE  /\ (pc'[v] = "waiting") = (pc[v] = "waiting") /\ opener'[v] = opener[v]
              /\ pc[v] = "waiting" =>
                   /\ opener[v] \in Openers \ {o} /\ pc'[opener[v]] = pc[opener[v]]
                   /\ arg'[opener[v]] = arg[opener[v]]
  <2>1. /\ v \in Threads \ {w, o} /\ pc'[v] = pc[v] /\ opener'[v] = opener[v]
    BY ZenonT(30), <1>4, <1>5, <1>19, Kinds
  <2>2. ASSUME pc[v] = "waiting"
        PROVE  opener[v] \in Openers \ {o} /\ opener[v] \in Threads \ {w, o}
    BY <1>1, <1>2, <2>2, Kinds, TypesUsed DEF Inv, WaitLabel, WaitAlive
  <2> QED BY ZenonT(30), <1>4, <1>5, <2>1, <2>2
<1>20. WaitLabel'
  <2>1. pc'[w] = "waiting" /\ opener'[w] # NoOpener
    BY <1>4, <1>5, Kinds
  <2> QED BY ZenonT(30), <1>19, <2>1 DEF Inv, WaitLabel
<1>21. WaitSole'
  <2>1. \A v \in Waiters : v # w => opener'[v] = opener[v] /\ opener[v] # o
    BY <1>19, Kinds DEF Inv, WaitLabel
  <2>2. opener'[w] = o
    BY ZenonT(30), <1>5
  <2> QED BY ZenonT(30), <2>1, <2>2 DEF Inv, WaitSole
<1>22. WaitAlive' /\ WaitArg'
  <2>1. pc'[opener'[w]] # "idle"
    BY ZenonT(30), <1>4, <1>5
  <2>2. ASSUME NEW v \in Waiters, v # w, pc'[v] = "waiting"
        PROVE  pc'[opener'[v]] # "idle"
    BY <1>19, <2>2 DEF Inv, WaitAlive
  <2>3. WaitAlive'
    BY ZenonT(30), <2>1, <2>2 DEF WaitAlive
  <2>4. WaitArg'
    BY ZenonT(30), <1>3, <1>5, <1>19 DEF Inv, WaitArg
  <2> QED BY <2>3, <2>4
<1>23. WaitOpen'
  <2>1. pc'[opener'[w]] \notin {"done", "ok"}
    BY ZenonT(30), <1>4, <1>5
  <2> QED BY ZenonT(30), <1>3, <1>19, <2>1 DEF Inv, WaitOpen
<1> QED BY <1>8, <1>9, <1>10, <1>12, <1>15, <1>16, <1>17, <1>18, <1>20, <1>21,
           <1>22, <1>23 DEF Inv

\* The opener has an answer, and the waiter has no use for the database.
LEMMA AwaitReleaseInv ==
    ASSUME Inv, NEW w \in Waiters, AwaitRelease(w)
    PROVE  Inv' /\ KeepsOpen
<1>1. UseCounts'
  BY CountSame DEF Inv, AwaitRelease, objects
<1>2. TypeOK'
  BY ZenonT(30), Kinds DEF Inv, TypeOK, AwaitRelease, env, objects, removers, ThreadLabels
<1>3. KeepsOpen
  BY DEF KeepsOpen, AwaitRelease, objects
<1>4. pc' = [pc EXCEPT ![w] = "release",
                       ![opener[w]] = IF @ \in {"ok", "failed"} THEN "idle" ELSE @]
  BY ZenonT(30), Kinds, TypesUsed DEF Inv, AwaitRelease, WaitLabel
<1>5. ThreadInv' /\ HandleInv'
  BY ZenonT(30), <1>4, WaitEnds, Kinds DEF AwaitRelease, objects
<1>6. Labels'
  BY ZenonT(30), Kinds, TypesUsed DEF Inv, AwaitRelease, Labels
<1>7. UsingInv'
  BY ZenonT(30), Kinds, TypesUsed DEF Inv, AwaitRelease, objects, UsingInv
<1>8. RemoverInv'
  BY DEF Inv, AwaitRelease, env, removers, RemoverInv
<1> QED BY ZenonT(30), <1>1, <1>2, <1>3, <1>4, <1>5, <1>6, <1>7, <1>8 DEF Inv, ThreadInv

\* A cancelled waiter leaves its opener alone with the Opening lock.
LEMMA CancelWaitInv ==
    ASSUME Inv, NEW w \in Waiters, CancelWait(w)
    PROVE  Inv' /\ KeepsOpen
<1>1. UseCounts'
  BY CountSame DEF Inv, CancelWait, objects
<1>2. TypeOK'
  BY ZenonT(30), Kinds DEF Inv, TypeOK, CancelWait, env, objects, removers, ThreadLabels
<1>3. KeepsOpen
  BY DEF KeepsOpen, CancelWait, objects
<1>4. ThreadInv' /\ HandleInv'
  BY ZenonT(30), WaitEnds, Kinds DEF CancelWait, objects
<1>5. Labels'
  BY Kinds, TypesUsed DEF Inv, CancelWait, env, objects, removers, Labels
<1>6. UsingInv'
  BY ZenonT(30), Kinds, TypesUsed DEF Inv, CancelWait, env, objects, removers, UsingInv,
     HeldInv, Labels
<1>7. RemoverInv'
  BY DEF Inv, CancelWait, env, removers, RemoverInv
<1> QED BY <1>1, <1>2, <1>3, <1>4, <1>5, <1>6, <1>7 DEF Inv, ThreadInv

-----------------------------------------------------------------------------
(* The invariant and the theorems.                                         *)

\* At the start no database is open, and no thread has begun.
LEMMA InitInv == Init => Inv
<1> SUFFICES ASSUME Init PROVE Inv
  OBVIOUS
<1>1. TypeOK
  BY ZenonT(30), Kinds DEF Init, TypeOK, ThreadLabels, RemoverLabels
<1>2. UseCounts
  <2>1. ASSUME NEW d \in DBs PROVE Holders(d) = {}
    BY Kinds DEF Init, Holders
  <2> QED BY ZenonT(30), <2>1, FS_EmptySet DEF Init, UseCounts
<1>3. Labels /\ HeldInv /\ ArgInv /\ RemoverInv
  BY Kinds DEF Init, Labels, HeldInv, ArgInv, RemoverInv
<1>4. ChargeInv /\ SoleCharge /\ HandleInv /\ UsingInv
  BY Kinds DEF Init, ChargeInv, SoleCharge, HandleInv, UsingInv, OpeningLabels, ClosingLabels
<1>5. WaitLabel /\ WaitAlive /\ WaitArg /\ WaitOpen /\ WaitSole
  BY Kinds DEF Init, WaitLabel, WaitAlive, WaitArg, WaitOpen, WaitSole
<1> QED BY <1>1, <1>2, <1>3, <1>4, <1>5 DEF Inv

\* A step in which nothing happens.
LEMMA StutterInv == Inv /\ UNCHANGED vars => Inv' /\ KeepsOpen
<1> SUFFICES ASSUME Inv, UNCHANGED vars PROVE Inv' /\ KeepsOpen
  OBVIOUS
<1>1. UNCHANGED <<pc, held, arg, opener, dbState, handle, dbUsers, rpc, rdb, active>>
  BY DEF vars, env, objects, threads, local, removers
<1>2. TypeOK'
  BY DEF Inv, TypeOK, vars, env, objects, threads, local, removers
<1>3. UseCounts'
  BY <1>1, CountSame DEF Inv
<1>4. Labels' /\ ThreadInv' /\ HandleInv' /\ UsingInv'
  BY <1>1, ThreadsSame
<1>5. RemoverInv' /\ KeepsOpen
  BY <1>1 DEF Inv, RemoverInv, KeepsOpen
<1> QED BY <1>2, <1>3, <1>4, <1>5 DEF Inv, ThreadInv

\* Every step keeps the invariant, and no held database is closed in it.
LEMMA NextInv == Inv /\ [Next]_vars => Inv' /\ KeepsOpen
<1> SUFFICES ASSUME Inv, [Next]_vars PROVE Inv' /\ KeepsOpen
  OBVIOUS
<1>1. ASSUME NEW t \in Threads, AcquireActive(t) \/ Release(t)
      PROVE  Inv' /\ KeepsOpen
  BY <1>1, AcquireActiveInv, ReleaseInv
<1>2. ASSUME NEW c \in Clients, ActivateNew(c) \/ ClientStep(c)
      PROVE  Inv' /\ KeepsOpen
  BY <1>2, ActivateNewInv, EnterOpenInv, ClaimOpeningInv, OpenRefusedInv, AwaitClientInv
     DEF ClientStep
<1>3. ASSUME NEW w \in Waiters, WaiterStep(w) \/ CancelWait(w)
      PROVE  Inv' /\ KeepsOpen
  BY <1>3, SpawnOpenerInv, AwaitReleaseInv, CancelWaitInv DEF WaiterStep
<1>4. ASSUME NEW o \in Openers, OpenerStep(o)
      PROVE  Inv' /\ KeepsOpen
  BY <1>4, OpenerAcquireInv, StorageOpenInv, OpenOnSuccessInv, OpenDoneInv, OpenFailInv,
     OpenOnFailureInv, OpenerReleaseInv DEF OpenerStep
<1>5. ASSUME NEW t \in IdleClosers \cup Closers, CloserStep(t)
      PROVE  Inv' /\ KeepsOpen
  BY <1>5, StartClosingInv, SkipClosingInv, CloseHandleInv, MarkClosedInv DEF CloserStep
<1>6. ASSUME NEW k \in Creators, KickOff(k) \/ CreatorStep(k)
      PROVE  Inv' /\ KeepsOpen
  BY <1>6, KickOffInv, CreateEntryInv, CreateEntryFailsInv DEF CreatorStep
<1>7. ASSUME NEW r \in Removers, AsyncDelete(r) \/ RemoverStep(r)
      PROVE  Inv' /\ KeepsOpen
  BY <1>7, DeleteActiveInv, DeleteInactiveInv, DeleteNothingInv, RemoveUnusedInv,
     RemoveCloseInv, RemoveNotOpenInv, RemoveEntryInv, EntryRemovedInv, RemoveStorageInv,
     RemoveFinallyInv DEF AsyncDelete, RemoverStep
<1>8. CASE WorkFinished \/ TaskFailed \/ Finalized
  BY <1>8, WorkFinishedInv, TaskFailedInv, FinalizedInv
<1>9. CASE UNCHANGED vars
  BY <1>9, StutterInv
<1> QED BY <1>1, <1>2, <1>3, <1>4, <1>5, <1>6, <1>7, <1>8, <1>9 DEF Next

\* The invariant holds in every reachable state of the lifecycle of a database.
THEOREM Invariance == Spec => []Inv
<1>1. Inv /\ [Next]_vars => Inv'
  BY NextInv
<1> QED BY InitInv, <1>1, PTL DEF Spec

\* The variables of the lifecycle have their types; in particular no use count
\* (dbUsers, which releaseDB decrements) is ever negative.
THEOREM TypeCorrect == Spec => []TypeOK
<1>1. Inv => TypeOK
  BY DEF Inv
<1> QED BY Invariance, <1>1, PTL

\* dbUsers is the number of threads between acquireDB and releaseDB.
THEOREM CountsExact == Spec => []UseCounts
<1>1. Inv => UseCounts
  BY ZenonT(30) DEF Inv
<1> QED BY Invariance, <1>1, PTL

\* A thread inside withOpenDatabase has an open database with an open handle,
\* whatever openers, closers and removers do meanwhile.
THEOREM NeverClosedInUse == Spec => []UsingOpenHandle
<1>1. Inv => UsingOpenHandle
  BY Kinds, TypesUsed DEF Inv, UsingInv, HandleInv, HeldInv, UsingOpenHandle
<1> QED BY Invariance, <1>1, PTL

\* Opening and Closing are locks: one thread at most opens or closes an object.
THEOREM OneThreadInCharge == Spec => []OneInCharge
<1>1. ASSUME Inv, NEW d \in DBs, NEW x \in InCharge(d), NEW y \in InCharge(d)
      PROVE  x = y /\ dbState[d] \in {"Opening", "Closing"}
  <2>1. /\ x \in Threads /\ pc[x] \in OpeningLabels \cup ClosingLabels /\ Target(x) = d
        /\ y \in Threads /\ pc[y] \in OpeningLabels \cup ClosingLabels /\ Target(y) = d
    BY DEF InCharge, OpeningLabels, ClosingLabels
  <2> QED BY <1>1, <2>1 DEF Inv, SoleCharge, ChargeInv
<1>2. Inv => OneInCharge
  BY <1>1 DEF OneInCharge
<1> QED BY Invariance, <1>2, PTL

\* A step never closes a database that a client or a creator goes on holding:
\* neither closeIf nor removeDatabase takes it away from them.
THEOREM OpenWhileHeld == Spec => HeldStaysOpen
<1>1. Inv /\ [Next]_vars => [KeepsOpen]_vars
  BY NextInv
<1> QED BY Invariance, <1>1, PTL DEF Spec, HeldStaysOpen

=============================================================================
