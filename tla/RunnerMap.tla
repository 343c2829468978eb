------------------------------ MODULE RunnerMap ------------------------------
(***************************************************************************)
(* How one replica starts, replaces and stops the runner of one agent      *)
(* configuration.  reconcile() passes, respawnRunner() calls and           *)
(* onModuleDestroy() change the runners map; a runner hears of events from *)
(* its subscription until it is unsubscribed, and asks for a respawn when  *)
(* the configuration is saved.                                             *)
(*                                                                         *)
(* Node runs one callback at a time, so what lies between two awaits is    *)
(* one action.  Passes are started by an interval that does not ask        *)
(* whether the last one has ended: each task is one activation.  What a    *)
(* pass does with the chat lock is in ReplicaLock.                         *)
(*                                                                         *)
(* Events come by LISTEN/NOTIFY.  The model assumes that a subscribed      *)
(* runner misses none; PostgreSQL drops those of a time when the listener  *)
(* has no connection.                                                      *)
(***************************************************************************)
EXTENDS Integers, FiniteSets

CONSTANTS
    Reconciles,  \* activations of reconcile()
    Respawns,    \* activations of respawnRunner()
    Runners,     \* identities of runner objects, reused once stopped
    NoRunner,    \* no runner
    MaxSaves,    \* bound: saves of the configuration
    MaxFlips,    \* bound: times the configuration is provisioned or withdrawn
    MaxFaults    \* bound: crashes and shutdowns of the replica

Tasks == Reconciles \cup Respawns

ASSUME TasksAssumption == Reconciles \cap Respawns = {}
ASSUME NoneAssumption == NoRunner \notin Runners
ASSUME RunnersAssumption == IsFiniteSet(Runners)
ASSUME BoundsAssumption == MaxSaves \in Nat /\ MaxFlips \in Nat /\ MaxFaults \in Nat

VARIABLES
    provisioned,  \* "yes" or "no": the id is listed by listProvisionedIds()
    config,       \* version of the saved configuration
    flips,        \* how often it was provisioned or withdrawn
    phase,        \* "up", "stopping", "down"
    faults,       \* crashes and shutdowns so far
    entry,        \* the entry of the runners map
    pending,      \* "yes" or "no": the id is in respawnPending
    due,          \* respawns handed to setImmediate
    wire,         \* agent.config.updated notifications under way
    live,         \* runners that are subscribed to the event bus
    built,        \* Runners -> version a runner was built from
    pc,           \* Tasks -> where the activation is
    victim,       \* Tasks -> runner it tears down
    read,         \* Tasks -> version that spawnRunner() read
    overlapped,   \* history, "yes" or "no": a pass crossed another activation
    missed        \* history, "yes" or "no": a save met a spawn half-way

settings == <<provisioned, config, flips>>
process == <<phase, faults>>
runner == <<live, built>>
vars == <<provisioned, config, flips, phase, faults, entry, pending, due, wire, live, built,
          pc, victim, read, overlapped, missed>>

Answer == {"yes", "no"}
Busy == {"tearing", "reading", "building"}

\* The type invariant.
TypeOK ==
    /\ provisioned \in Answer /\ pending \in Answer /\ overlapped \in Answer /\ missed \in Answer
    /\ config \in 1..(MaxSaves + 1) /\ flips \in 0..MaxFlips /\ faults \in 0..MaxFaults
    /\ phase \in {"up", "stopping", "down"}
    /\ entry \in Runners \cup {NoRunner}
    /\ due \in Nat /\ wire \in Nat
    /\ live \subseteq Runners
    /\ built \in [Runners -> 0..config]
    /\ pc \in [Tasks -> {"idle", "listing"} \cup Busy]
    /\ victim \in [Tasks -> Runners \cup {NoRunner}]
    /\ read \in [Tasks -> 0..config]

Init ==
    /\ provisioned = "yes" /\ config = 1 /\ flips = 0
    /\ phase = "up" /\ faults = 0
    /\ entry = NoRunner /\ pending = "no" /\ due = 0 /\ wire = 0
    /\ live = {} /\ built = [r \in Runners |-> 0]
    /\ pc = [t \in Tasks |-> "idle"]
    /\ victim = [t \in Tasks |-> NoRunner]
    /\ read = [t \in Tasks |-> 0]
    /\ overlapped = "no" /\ missed = "no"

-----------------------------------------------------------------------------
(* The configuration and its notifications.                                *)

SaveConfig ==
    /\ config <= MaxSaves
    /\ config' = config + 1
    /\ wire' = wire + 1
    /\ UNCHANGED <<provisioned, flips, process, entry, pending, due, runner, pc, victim, read,
                   overlapped, missed>>

Provision(answer) ==
    /\ flips < MaxFlips
    /\ provisioned # answer
    /\ flips' = flips + 1
    /\ provisioned' = answer
    /\ UNCHANGED <<config, process, entry, pending, due, wire, runner, pc, victim, read,
                   overlapped, missed>>

\* A spawn under way has read a configuration that is no longer the saved one.
HalfWay == \E t \in Tasks : pc[t] = "building" /\ read[t] # config

\* Mutant: the save of a configuration is not listened to.
Reactions_None == 0

\* Every subscribed runner asks for a respawn.  With nobody subscribed the
\* notification is gone.
Reactions == Cardinality(live)

ConfigNotified ==
    /\ wire > 0
    /\ wire' = wire - 1
    /\ due' = due + Reactions
    /\ missed' = IF HalfWay THEN "yes" ELSE missed
    /\ UNCHANGED <<settings, process, entry, pending, runner, pc, victim, read, overlapped>>

-----------------------------------------------------------------------------
(* Steps that reconcile() and respawnRunner() share.                       *)

\* t goes to work on the map while another activation is at it (respawns are
\* kept apart by respawnInFlight), or after shutdown began.
Crosses(t) ==
    \/ phase # "up"
    \/ \E u \in Tasks \ {t} : pc[u] \in Busy /\ ~ (t \in Respawns /\ u \in Respawns)

Enter(t, place) ==
    /\ pc' = [pc EXCEPT ![t] = place]
    /\ overlapped' = IF place \in Busy /\ Crosses(t) THEN "yes" ELSE overlapped

\* unsubscribe(): the runners no longer hear of events.
Unsubscribe(gone) ==
    /\ live' = live \ gone
    /\ built' = [r \in Runners |-> IF r \in gone THEN 0 ELSE built[r]]

\* eventBus.subscribe() for a new runner, if there is one.
Subscribe(r, version) ==
    /\ live' = live \cup ({r} \ {NoRunner})
    /\ built' = [x \in Runners |-> IF x = r THEN version ELSE built[x]]

\* The runner is unsubscribed at once; its handler, worker and sweeper stop later.
TearDown(t, r) ==
    /\ Unsubscribe({r})
    /\ victim' = [victim EXCEPT ![t] = r]
    /\ Enter(t, "tearing")

\* The configuration that spawnRunner() loads.
Loaded == config

SpawnRead(t) ==
    /\ pc[t] = "reading"
    /\ read' = [read EXCEPT ![t] = Loaded]
    /\ Enter(t, "building")
    /\ UNCHANGED <<settings, process, entry, pending, due, wire, runner, victim, missed>>

\* A runner object that is neither subscribed, nor in the map, nor torn down.
Unused == {r \in Runners : r \notin live /\ r # entry /\ \A t \in Tasks : victim[t] # r}

Fresh == CHOOSE r \in Unused : TRUE

\* The finally block of respawnRunner(): a respawn was asked for meanwhile.
Again(t) == t \in Respawns /\ pending = "yes" /\ phase = "up"

\* spawnRunner() subscribed r and returned it, or returned none or threw; the
\* caller sets the entry whatever it holds by then.  A reconcile pass ends; a
\* respawn ends, or starts over with what is now in the map.
Spawned(t, r) ==
    LET now == IF r = NoRunner THEN entry ELSE r
    IN  /\ entry' = now
        /\ IF Again(t) THEN Unsubscribe({now}) ELSE Subscribe(r, read[t])
        /\ victim' = [victim EXCEPT ![t] = IF Again(t) THEN now ELSE NoRunner]
        /\ Enter(t, IF ~Again(t) THEN "idle" ELSE IF now = NoRunner THEN "reading" ELSE "tearing")
        /\ pending' = IF t \in Respawns THEN "no" ELSE pending
        /\ read' = [read EXCEPT ![t] = 0]
        /\ UNCHANGED <<settings, process, due, wire, missed>>

SpawnDone(t) ==
    /\ pc[t] = "building"
    /\ Unused # {}
    /\ Spawned(t, Fresh)

\* No provider, or an exception, logged by recordSpawnFailure().
SpawnFails(t) ==
    /\ pc[t] \in {"reading", "building"}
    /\ Spawned(t, NoRunner)

\* Mutant: the runner is stopped and its entry left in the map.
AfterTearDown_Kept == entry

AfterTearDown == NoRunner

\* The entry is deleted, whatever it holds by then.
TornDown(t) ==
    /\ pc[t] = "tearing"
    /\ entry' = AfterTearDown
    /\ victim' = [victim EXCEPT ![t] = NoRunner]
    /\ Enter(t, IF t \in Reconciles THEN "idle" ELSE "reading")
    /\ UNCHANGED <<settings, process, pending, due, wire, runner, read, missed>>

-----------------------------------------------------------------------------
(* reconcile().                                                            *)

ReconcileStart(t) ==
    /\ t \in Reconciles
    /\ pc[t] = "idle" /\ phase = "up"
    /\ Enter(t, "listing")
    /\ UNCHANGED <<settings, process, entry, pending, due, wire, runner, victim, read, missed>>

\* The list of provisioned ids arrives: a runner that is not on it is stopped,
\* one that is missing is started.
Listed(t) ==
    /\ pc[t] = "listing"
    /\ IF provisioned = "no" /\ entry # NoRunner
       THEN TearDown(t, entry)
       ELSE /\ Enter(t, IF provisioned = "yes" /\ entry = NoRunner THEN "reading" ELSE "idle")
            /\ UNCHANGED <<runner, victim>>
    /\ UNCHANGED <<settings, process, entry, pending, due, wire, read, missed>>

ListFails(t) ==
    /\ pc[t] = "listing"
    /\ Enter(t, "idle")
    /\ UNCHANGED <<settings, process, entry, pending, due, wire, runner, victim, read, missed>>

-----------------------------------------------------------------------------
(* respawnRunner().                                                        *)

\* Mutant: no respawnInFlight.
InFlight_Forgotten == FALSE

InFlight == \E u \in Respawns : pc[u] # "idle"

RespawnStart(t) ==
    /\ t \in Respawns
    /\ pc[t] = "idle" /\ due > 0 /\ phase = "up" /\ ~InFlight
    /\ due' = due - 1
    /\ IF entry # NoRunner
       THEN TearDown(t, entry)
       ELSE Enter(t, "reading") /\ UNCHANGED <<runner, victim>>
    /\ UNCHANGED <<settings, process, entry, pending, wire, read, missed>>

\* After shutdown began nothing is respawned; while one respawn is in flight the
\* next is remembered.
RespawnHeldBack ==
    /\ due > 0 /\ (phase # "up" \/ InFlight)
    /\ due' = due - 1
    /\ pending' = IF phase = "up" THEN "yes" ELSE pending
    /\ UNCHANGED <<settings, process, entry, wire, runner, pc, victim, read, overlapped, missed>>

-----------------------------------------------------------------------------
(* Shutdown, crashes.                                                      *)

\* onModuleDestroy() unsubscribes the runner of the map and waits for it to stop.
Destroy ==
    /\ faults < MaxFaults
    /\ phase = "up"
    /\ faults' = faults + 1
    /\ phase' = "stopping"
    /\ Unsubscribe({entry})
    /\ overlapped' = IF \E t \in Tasks : pc[t] # "idle" THEN "yes" ELSE overlapped
    /\ UNCHANGED <<settings, entry, pending, due, wire, pc, victim, read, missed>>

Destroyed ==
    /\ phase = "stopping"
    /\ phase' = "down"
    /\ entry' = NoRunner
    /\ UNCHANGED <<settings, faults, pending, due, wire, runner, pc, victim, read, overlapped,
                   missed>>

\* The process is gone and another is started in its place.
Replaced ==
    /\ phase' = "up"
    /\ entry' = NoRunner /\ pending' = "no" /\ due' = 0 /\ wire' = 0
    /\ Unsubscribe(live)
    /\ pc' = [t \in Tasks |-> "idle"]
    /\ victim' = [t \in Tasks |-> NoRunner]
    /\ read' = [t \in Tasks |-> 0]
    /\ overlapped' = "no" /\ missed' = "no"
    /\ UNCHANGED settings

Restart == phase = "down" /\ Replaced /\ UNCHANGED faults

Crash == faults < MaxFaults /\ faults' = faults + 1 /\ Replaced

-----------------------------------------------------------------------------
Next ==
    \/ SaveConfig \/ ConfigNotified
    \/ \E answer \in Answer : Provision(answer)
    \/ \E t \in Tasks :
          \/ ReconcileStart(t) \/ Listed(t) \/ ListFails(t)
          \/ SpawnRead(t) \/ SpawnDone(t) \/ SpawnFails(t) \/ TornDown(t)
          \/ RespawnStart(t)
    \/ RespawnHeldBack
    \/ Destroy \/ Destroyed \/ Restart \/ Crash

Spec == Init /\ [][Next]_vars

-----------------------------------------------------------------------------
(* Properties.                                                             *)

\* Every runner that reacts to events is the one in the map, so that it can be
\* stopped, unless a reconcile pass crossed another activation or the shutdown:
\* respawns alone, whatever their order, never leave a runner behind.
NoStrayRunner == overlapped = "yes" \/ live \subseteq {entry}

\* The runner in the map was built from the configuration as saved, or the
\* notification or respawn that will replace it is under way; the exception is
\* a save that fell between a spawn's read and its subscription.
ConfigApplied ==
    phase = "up" /\ entry \in live /\ built[entry] # config =>
        wire > 0 \/ due > 0 \/ pending = "yes" \/ missed = "yes"

\* The map never names a runner that has been unsubscribed and that nobody is
\* about to remove, even where activations cross: such an entry would keep
\* reconcile() from starting another, and the agent would stay silent.
NoDeadEntry ==
    phase = "up" /\ entry # NoRunner /\ entry \notin live => \E t \in Tasks : victim[t] = entry

-----------------------------------------------------------------------------
(* The inductive invariant (module RunnerMapProofs).                       *)

\* respawnInFlight: one respawn at a time.
OneRespawn == \A t, u \in Respawns : pc[t] # "idle" /\ pc[u] # "idle" => t = u

\* A task has a runner to tear down while it waits for it to stop, and no longer.
Victims == \A t \in Tasks : victim[t] = NoRunner \/ pc[t] = "tearing"

\* As long as nothing crossed, one activation at a time changes the map, nobody
\* is subscribed meanwhile, and after shutdown began nothing is.
Exclusive ==
    overlapped = "no" =>
        /\ \A t, u \in Tasks : pc[t] \in Busy /\ pc[u] \in Busy => t = u
        /\ (\E t \in Tasks : pc[t] \in Busy) => live = {}
        /\ phase # "up" => live = {} /\ \A t \in Tasks : pc[t] = "idle"

\* A spawn that has read an older configuration is told of the newer, or missed it.
SpawnTold ==
    \A t \in Tasks :
        pc[t] = "building" /\ read[t] # config => wire > 0 \/ missed = "yes"

MapInv ==
    /\ TypeOK /\ OneRespawn /\ Victims /\ Exclusive /\ SpawnTold
    /\ NoStrayRunner /\ ConfigApplied /\ NoDeadEntry
=============================================================================
