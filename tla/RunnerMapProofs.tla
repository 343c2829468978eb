-------------------------- MODULE RunnerMapProofs --------------------------
(***************************************************************************)
(* The runners map for any number of passes, respawns and runner objects.  *)
(***************************************************************************)
EXTENDS RunnerMap, FiniteSetTheorems, TLAPS

\* The initial state satisfies the inductive invariant.
LEMMA InitInv == Init => MapInv
<1> SUFFICES ASSUME Init PROVE MapInv OBVIOUS
<1> USE NoneAssumption, BoundsAssumption DEF Init
<1>1. TypeOK BY DEF TypeOK, Answer
<1>2. OneRespawn /\ Victims /\ Exclusive /\ SpawnTold
  BY DEF OneRespawn, Victims, Exclusive, SpawnTold, Busy, Tasks
<1>3. NoStrayRunner /\ ConfigApplied /\ NoDeadEntry
  BY DEF NoStrayRunner, ConfigApplied, NoDeadEntry
<1> QED BY <1>1, <1>2, <1>3 DEF MapInv

\* The runner of a map that is subscribed is one of those that hear of a save.
LEMMA SomeReaction ==
    ASSUME MapInv
    PROVE  Reactions \in Nat /\ (entry \in live => Reactions > 0)
<1>1. IsFiniteSet(live) BY RunnersAssumption, FS_Subset DEF MapInv, TypeOK
<1>2. Cardinality(live) \in Nat BY <1>1, FS_CardinalityType
<1>3. live # {} => Cardinality(live) # 0 BY <1>1, FS_EmptySet
<1> QED BY <1>2, <1>3 DEF Reactions

-----------------------------------------------------------------------------
(* Every action keeps the inductive invariant.                             *)

\* The configuration is saved: its notification is under way.
LEMMA SaveConfigInv ==
    ASSUME MapInv, SaveConfig PROVE MapInv'
<1> USE TasksAssumption, NoneAssumption, BoundsAssumption DEF MapInv
<1>1. TypeOK' BY DEF SaveConfig, process, runner, TypeOK
<1>2. OneRespawn' BY DEF SaveConfig, OneRespawn
<1>3. Victims' BY DEF SaveConfig, Victims
<1>4. Exclusive' BY DEF SaveConfig, process, runner, Exclusive
<1>5. SpawnTold' BY DEF SaveConfig, SpawnTold, TypeOK
<1>6. NoStrayRunner' BY DEF SaveConfig, runner, NoStrayRunner
<1>7. ConfigApplied' BY DEF SaveConfig, ConfigApplied, TypeOK
<1>8. NoDeadEntry' BY DEF SaveConfig, process, runner, NoDeadEntry
<1> QED BY <1>1, <1>2, <1>3, <1>4, <1>5, <1>6, <1>7, <1>8

\* The configuration is provisioned or withdrawn.
LEMMA ProvisionInv ==
    ASSUME MapInv, NEW answer \in Answer, Provision(answer) PROVE MapInv'
<1> USE TasksAssumption, NoneAssumption, BoundsAssumption DEF MapInv
<1>1. TypeOK' BY DEF Provision, process, runner, TypeOK
<1>2. OneRespawn' BY DEF Provision, OneRespawn
<1>3. Victims' BY DEF Provision, Victims
<1>4. Exclusive' BY DEF Provision, process, runner, Exclusive
<1>5. SpawnTold' BY DEF Provision, SpawnTold
<1>6. NoStrayRunner' BY DEF Provision, runner, NoStrayRunner
<1>7. ConfigApplied' BY DEF Provision, process, runner, ConfigApplied
<1>8. NoDeadEntry' BY DEF Provision, process, runner, NoDeadEntry
<1> QED BY <1>1, <1>2, <1>3, <1>4, <1>5, <1>6, <1>7, <1>8

\* A save is heard of by every runner that is subscribed.
LEMMA ConfigNotifiedInv ==
    ASSUME MapInv, ConfigNotified PROVE MapInv'
<1> USE TasksAssumption, NoneAssumption, BoundsAssumption DEF MapInv
<1>1. TypeOK'
  BY SomeReaction DEF ConfigNotified, settings, process, runner, TypeOK, Answer
<1>2. OneRespawn' BY DEF ConfigNotified, OneRespawn
<1>3. Victims' BY DEF ConfigNotified, Victims
<1>4. Exclusive' BY DEF ConfigNotified, process, runner, Exclusive
<1>5. SpawnTold' BY DEF ConfigNotified, HalfWay, settings, SpawnTold
<1>6. NoStrayRunner' BY DEF ConfigNotified, runner, NoStrayRunner
<1>7. ConfigApplied'
  <2>1. entry \in live => due' > 0 BY SomeReaction DEF ConfigNotified, TypeOK
  <2> QED BY <2>1 DEF ConfigNotified, runner, ConfigApplied
<1>8. NoDeadEntry' BY DEF ConfigNotified, process, runner, NoDeadEntry
<1> QED BY <1>1, <1>2, <1>3, <1>4, <1>5, <1>6, <1>7, <1>8

\* spawnRunner() reads the configuration.
LEMMA SpawnReadInv ==
    ASSUME MapInv, NEW t \in Tasks, SpawnRead(t) PROVE MapInv'
<1> USE TasksAssumption, NoneAssumption, BoundsAssumption DEF MapInv
<1>1. TypeOK'
  BY DEF SpawnRead, Loaded, Enter, settings, process, runner, TypeOK, Answer, Busy
<1>2. OneRespawn' BY DEF SpawnRead, Enter, OneRespawn
<1>3. Victims' BY DEF SpawnRead, Enter, Victims
<1>4. Exclusive' BY DEF SpawnRead, Enter, process, runner, Exclusive, TypeOK
<1>5. SpawnTold' BY DEF SpawnRead, Loaded, Enter, settings, SpawnTold, TypeOK
<1>6. NoStrayRunner' BY DEF SpawnRead, Enter, runner, NoStrayRunner
<1>7. ConfigApplied' BY DEF SpawnRead, settings, process, runner, ConfigApplied
<1>8. NoDeadEntry' BY DEF SpawnRead, process, runner, NoDeadEntry
<1> QED BY <1>1, <1>2, <1>3, <1>4, <1>5, <1>6, <1>7, <1>8

\* spawnRunner() has returned a runner or none: the caller had the map for itself, or
\* something crossed.
LEMMA SpawnedInv ==
    ASSUME MapInv, NEW t \in Tasks, pc[t] \in {"reading", "building"}, NEW r \in Unused \cup {NoRunner},
           r # NoRunner => pc[t] = "building", Spawned(t, r) PROVE MapInv'
<1> USE TasksAssumption, NoneAssumption, BoundsAssumption DEF MapInv
<1>1. TypeOK'
  BY DEF Spawned, Unsubscribe, Subscribe, Enter, Unused, settings, process, TypeOK,
     Answer, Busy
<1>2. OneRespawn' BY DEF Spawned, Enter, OneRespawn
<1>3. Victims' BY DEF Spawned, Enter, Victims, TypeOK
<1>4. Exclusive' BY DEF Spawned, Unsubscribe, Enter, process, Exclusive, Busy, TypeOK
<1>5. SpawnTold' BY DEF Spawned, Enter, settings, SpawnTold, TypeOK
<1>6. NoStrayRunner'
  BY DEF Spawned, Unsubscribe, Subscribe, Enter, NoStrayRunner, Exclusive, TypeOK,
     Answer
<1>7. ConfigApplied'
  BY DEF Spawned, Again, Unsubscribe, Subscribe, Unused, settings, process,
     ConfigApplied, SpawnTold, TypeOK
<1>8. NoDeadEntry' BY DEF Spawned, Subscribe, process, NoDeadEntry, Victims, TypeOK
<1> QED BY <1>1, <1>2, <1>3, <1>4, <1>5, <1>6, <1>7, <1>8

\* A runner has stopped and its entry goes.
LEMMA TornDownInv ==
    ASSUME MapInv, NEW t \in Tasks, TornDown(t) PROVE MapInv'
<1> USE TasksAssumption, NoneAssumption, BoundsAssumption DEF MapInv
<1>1. TypeOK'
  BY DEF TornDown, AfterTearDown, Enter, settings, process, runner, TypeOK, Answer, Busy
<1>2. OneRespawn' BY DEF TornDown, Enter, OneRespawn
<1>3. Victims' BY DEF TornDown, Enter, Victims, TypeOK
<1>4. Exclusive' BY DEF TornDown, Enter, process, runner, Exclusive, TypeOK
<1>5. SpawnTold' BY DEF TornDown, Enter, settings, SpawnTold
<1>6. NoStrayRunner'
  BY DEF TornDown, Enter, runner, NoStrayRunner, Exclusive, TypeOK, Answer
<1>7. ConfigApplied' BY DEF TornDown, AfterTearDown, runner, ConfigApplied, TypeOK
<1>8. NoDeadEntry' BY DEF TornDown, AfterTearDown, NoDeadEntry
<1> QED BY <1>1, <1>2, <1>3, <1>4, <1>5, <1>6, <1>7, <1>8

\* A pass begins.
LEMMA ReconcileStartInv ==
    ASSUME MapInv, NEW t \in Tasks, ReconcileStart(t) PROVE MapInv'
<1> USE TasksAssumption, NoneAssumption, BoundsAssumption DEF MapInv
<1>1. TypeOK' BY DEF ReconcileStart, Enter, settings, process, runner, TypeOK, Busy
<1>2. OneRespawn' BY DEF ReconcileStart, Enter, OneRespawn
<1>3. Victims' BY DEF ReconcileStart, Enter, Victims
<1>4. Exclusive' BY DEF ReconcileStart, Enter, process, runner, Exclusive, Busy
<1>5. SpawnTold' BY DEF ReconcileStart, Enter, settings, SpawnTold
<1>6. NoStrayRunner' BY DEF ReconcileStart, Enter, runner, NoStrayRunner
<1>7. ConfigApplied' BY DEF ReconcileStart, settings, runner, ConfigApplied
<1>8. NoDeadEntry' BY DEF ReconcileStart, runner, NoDeadEntry
<1> QED BY <1>1, <1>2, <1>3, <1>4, <1>5, <1>6, <1>7, <1>8

\* The list has come: a pass tears down, spawns or ends.
LEMMA ListedInv ==
    ASSUME MapInv, NEW t \in Tasks, Listed(t) PROVE MapInv'
<1> USE TasksAssumption, NoneAssumption, BoundsAssumption DEF MapInv
<1>1. TypeOK'
  BY DEF Listed, TearDown, Unsubscribe, Enter, settings, process, runner, TypeOK,
     Answer, Busy
<1>2. OneRespawn' BY DEF Listed, TearDown, Enter, OneRespawn, TypeOK, Tasks
<1>3. Victims' BY DEF Listed, TearDown, Enter, Victims, TypeOK
<1>4. Exclusive'
  BY DEF Listed, TearDown, Unsubscribe, Enter, Crosses, process, runner, Exclusive,
     OneRespawn, NoStrayRunner, Busy, TypeOK
<1>5. SpawnTold' BY DEF Listed, TearDown, Enter, settings, SpawnTold, TypeOK
<1>6. NoStrayRunner' BY DEF Listed, TearDown, Unsubscribe, Enter, runner, NoStrayRunner
<1>7. ConfigApplied'
  BY DEF Listed, TearDown, Unsubscribe, settings, process, runner, ConfigApplied
<1>8. NoDeadEntry' BY DEF Listed, TearDown, process, runner, NoDeadEntry, TypeOK
<1> QED BY <1>1, <1>2, <1>3, <1>4, <1>5, <1>6, <1>7, <1>8

\* The list does not come.
LEMMA ListFailsInv ==
    ASSUME MapInv, NEW t \in Tasks, ListFails(t) PROVE MapInv'
<1> USE TasksAssumption, NoneAssumption, BoundsAssumption DEF MapInv
<1>1. TypeOK' BY DEF ListFails, Enter, settings, process, runner, TypeOK, Busy
<1>2. OneRespawn' BY DEF ListFails, Enter, OneRespawn
<1>3. Victims' BY DEF ListFails, Enter, Victims
<1>4. Exclusive' BY DEF ListFails, Enter, process, runner, Exclusive, Busy
<1>5. SpawnTold' BY DEF ListFails, Enter, settings, SpawnTold
<1>6. NoStrayRunner' BY DEF ListFails, Enter, runner, NoStrayRunner
<1>7. ConfigApplied' BY DEF ListFails, settings, process, runner, ConfigApplied
<1>8. NoDeadEntry' BY DEF ListFails, process, runner, NoDeadEntry
<1> QED BY <1>1, <1>2, <1>3, <1>4, <1>5, <1>6, <1>7, <1>8

\* A respawn begins when none is in flight.
LEMMA RespawnStartInv ==
    ASSUME MapInv, NEW t \in Tasks, RespawnStart(t) PROVE MapInv'
<1> USE TasksAssumption, NoneAssumption, BoundsAssumption DEF MapInv
<1>1. TypeOK'
  BY DEF RespawnStart, TearDown, Unsubscribe, Enter, settings, process, runner, TypeOK,
     Answer, Busy
<1>2. OneRespawn'
  BY DEF RespawnStart, InFlight, TearDown, Enter, OneRespawn, TypeOK, Tasks
<1>3. Victims' BY DEF RespawnStart, TearDown, Enter, Victims, TypeOK
<1>4. Exclusive'
  BY DEF RespawnStart, InFlight, TearDown, Unsubscribe, Enter, Crosses, process, runner,
     Exclusive, NoStrayRunner, TypeOK
<1>5. SpawnTold' BY DEF RespawnStart, TearDown, Enter, settings, SpawnTold, TypeOK
<1>6. NoStrayRunner'
  BY DEF RespawnStart, TearDown, Unsubscribe, Enter, runner, NoStrayRunner
<1>7. ConfigApplied'
  BY DEF RespawnStart, TearDown, Unsubscribe, runner, ConfigApplied, TypeOK
<1>8. NoDeadEntry' BY DEF RespawnStart, TearDown, NoDeadEntry, TypeOK
<1> QED BY <1>1, <1>2, <1>3, <1>4, <1>5, <1>6, <1>7, <1>8

\* A respawn is remembered or dropped.
LEMMA RespawnHeldBackInv ==
    ASSUME MapInv, RespawnHeldBack PROVE MapInv'
<1> USE TasksAssumption, NoneAssumption, BoundsAssumption DEF MapInv
<1>1. TypeOK' BY DEF RespawnHeldBack, settings, process, runner, TypeOK, Answer
<1>2. OneRespawn' BY DEF RespawnHeldBack, OneRespawn
<1>3. Victims' BY DEF RespawnHeldBack, Victims
<1>4. Exclusive' BY DEF RespawnHeldBack, process, runner, Exclusive
<1>5. SpawnTold' BY DEF RespawnHeldBack, settings, SpawnTold
<1>6. NoStrayRunner' BY DEF RespawnHeldBack, runner, NoStrayRunner
<1>7. ConfigApplied' BY DEF RespawnHeldBack, process, ConfigApplied
<1>8. NoDeadEntry' BY DEF RespawnHeldBack, process, runner, NoDeadEntry
<1> QED BY <1>1, <1>2, <1>3, <1>4, <1>5, <1>6, <1>7, <1>8

\* Shutdown begins.
LEMMA DestroyInv ==
    ASSUME MapInv, Destroy PROVE MapInv'
<1> USE TasksAssumption, NoneAssumption, BoundsAssumption DEF MapInv
<1>1. TypeOK' BY DEF Destroy, Unsubscribe, settings, TypeOK, Answer
<1>2. OneRespawn' BY DEF Destroy, OneRespawn
<1>3. Victims' BY DEF Destroy, Victims
<1>4. Exclusive' BY DEF Destroy, Unsubscribe, Exclusive, NoStrayRunner
<1>5. SpawnTold' BY DEF Destroy, settings, SpawnTold
<1>6. NoStrayRunner' BY DEF Destroy, Unsubscribe, NoStrayRunner
<1>7. ConfigApplied' BY DEF Destroy, ConfigApplied
<1>8. NoDeadEntry' BY DEF Destroy, NoDeadEntry
<1> QED BY <1>1, <1>2, <1>3, <1>4, <1>5, <1>6, <1>7, <1>8

\* Shutdown has stopped the runner of the map.
LEMMA DestroyedInv ==
    ASSUME MapInv, Destroyed PROVE MapInv'
<1> USE TasksAssumption, NoneAssumption, BoundsAssumption DEF MapInv
<1>1. TypeOK' BY DEF Destroyed, settings, runner, TypeOK
<1>2. OneRespawn' BY DEF Destroyed, OneRespawn
<1>3. Victims' BY DEF Destroyed, Victims
<1>4. Exclusive' BY DEF Destroyed, runner, Exclusive
<1>5. SpawnTold' BY DEF Destroyed, settings, SpawnTold
<1>6. NoStrayRunner' BY DEF Destroyed, runner, NoStrayRunner, Exclusive, TypeOK, Answer
<1>7. ConfigApplied' BY DEF Destroyed, ConfigApplied
<1>8. NoDeadEntry' BY DEF Destroyed, NoDeadEntry
<1> QED BY <1>1, <1>2, <1>3, <1>4, <1>5, <1>6, <1>7, <1>8

\* A new process takes over.
LEMMA ReplacedInv ==
    ASSUME MapInv, faults' \in 0 .. MaxFaults, Replaced PROVE MapInv'
<1> USE TasksAssumption, NoneAssumption, BoundsAssumption DEF MapInv
<1>1. TypeOK' BY DEF Replaced, Unsubscribe, settings, TypeOK, Answer
<1>2. OneRespawn' BY DEF Replaced, OneRespawn, Tasks
<1>3. Victims' BY DEF Replaced, Victims
<1>4. Exclusive' BY DEF Replaced, Exclusive, Busy
<1>5. SpawnTold' BY DEF Replaced, SpawnTold
<1>6. NoStrayRunner' BY DEF Replaced, Unsubscribe, NoStrayRunner
<1>7. ConfigApplied' BY DEF Replaced, Unsubscribe, ConfigApplied
<1>8. NoDeadEntry' BY DEF Replaced, NoDeadEntry
<1> QED BY <1>1, <1>2, <1>3, <1>4, <1>5, <1>6, <1>7, <1>8

\* A runner object is at hand for spawnRunner() to subscribe.
LEMMA SpawnDoneInv == ASSUME MapInv, NEW t \in Tasks, SpawnDone(t) PROVE MapInv'
<1>1. Fresh \in Unused BY DEF SpawnDone, Fresh
<1> QED BY <1>1, SpawnedInv DEF SpawnDone

\* spawnRunner() found no provider, or threw.
LEMMA SpawnFailsInv == ASSUME MapInv, NEW t \in Tasks, SpawnFails(t) PROVE MapInv'
BY SpawnedInv DEF SpawnFails

\* A restart after a shutdown, or a crash.
LEMMA RestartInv == ASSUME MapInv, Restart \/ Crash PROVE MapInv'
<1>1. faults' \in 0 .. MaxFaults
  BY BoundsAssumption DEF MapInv, TypeOK, Restart, Crash
<1> QED BY <1>1, ReplacedInv DEF Restart, Crash

\* Every step keeps the inductive invariant.
LEMMA NextInv == MapInv /\ [Next]_vars => MapInv'
<1> SUFFICES ASSUME MapInv, [Next]_vars PROVE MapInv' OBVIOUS
<1>1. CASE UNCHANGED vars
  BY <1>1 DEF vars, MapInv, TypeOK, OneRespawn, Victims, Exclusive, SpawnTold,
     NoStrayRunner, ConfigApplied, NoDeadEntry
<1>2. CASE Next
  BY <1>2, SaveConfigInv, ProvisionInv, ConfigNotifiedInv, SpawnReadInv, TornDownInv,
     ReconcileStartInv, ListedInv, ListFailsInv, RespawnStartInv, RespawnHeldBackInv,
     DestroyInv, DestroyedInv, SpawnDoneInv, SpawnFailsInv, RestartInv DEF Next
<1> QED BY <1>1, <1>2

\* The inductive invariant holds of every reachable state.
THEOREM MapInvariant == Spec => []MapInv
BY InitInv, NextInv, PTL DEF Spec

\* Respawns alone, whatever their order, never leave a runner behind; only a
\* reconcile pass that crosses another activation or the shutdown does.
THEOREM StrayNone == Spec => []NoStrayRunner
<1>1. MapInv => NoStrayRunner BY DEF MapInv
<1> QED BY MapInvariant, <1>1, PTL

\* A runner of an older configuration is about to be replaced, or the save fell
\* between a spawn's read and its subscription.
THEOREM AppliesConfig == Spec => []ConfigApplied
<1>1. MapInv => ConfigApplied BY DEF MapInv
<1> QED BY MapInvariant, <1>1, PTL

\* The map never keeps a runner that hears nothing and that nobody removes.
THEOREM DeadNone == Spec => []NoDeadEntry
<1>1. MapInv => NoDeadEntry BY DEF MapInv
<1> QED BY MapInvariant, <1>1, PTL
=============================================================================
