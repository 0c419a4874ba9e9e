--------------------------- MODULE ManagedGateway ---------------------------
(* The managed model gateway: a child process with native clients of its own *)
(* on one profile directory, which at most one service, console or offline   *)
(* import may use at a time.                                                 *)
(*   managed-gateway.mjs   the profile lock, start and stop of one child     *)
(*   service-bridge.mjs    who owns the service within one host process      *)
(*   process-tree.mjs      how the child and its descendants are stopped     *)
(* A start takes several awaited steps and a stop may come between any two   *)
(* of them; a child, a client or the whole host may die at any time.         *)
EXTENDS Integers, FiniteSets

CONSTANTS
  Instances,    \* plugin loads: one bridge and one manager each
  ProcessOf,    \* [Instances -> host process]
  MaxStarts,    \* starts of services, a bound
  MaxCrashes,   \* crashes of host processes, a bound
  MaxForks,     \* native clients forked, a bound
  None,
  Importer,     \* an offline import or the console, as owner of the lock
  Orphan        \* a lock file whose writer is gone

Processes == {ProcessOf[i] : i \in Instances}

\* What the lock file may say of its owner can be told apart.
ASSUME OwnersAssumption ==
  /\ {None, Importer, Orphan} \cap Instances = {}
  /\ None # Importer /\ None # Orphan /\ Importer # Orphan

VARIABLES
  profile,   \* the lock file: its owner, or None
  registry,  \* [Processes -> the instance that owns the service, or None]
  bridge,    \* [Instances -> "none" | "owned" | "stopping" | "stuck"]
  manager,   \* [Instances -> what start and stop of the manager are at]
  tree,      \* the live processes of every child ever spawned
  ancestry,  \* of these, <<parent, child>>; whoever loses its parent has none of them
  late,      \* history: the live processes forked after the last look at their tree,
  orphans,   \* and those that had no living line to the root when it was looked at
  spawned,   \* children so far
  forks,     \* native clients so far
  starts, crashes

nativeVars == <<tree, ancestry, late, orphans, forks>>
gatewayVars == <<profile, registry, bridge, manager, tree, ancestry, late, orphans, forks, spawned, starts, crashes>>

Idle == [start |-> "idle", cancelled |-> FALSE, stop |-> "none", child |-> 0, ready |-> FALSE,
         locked |-> FALSE, captured |-> {}, cleanupFailed |-> FALSE]

GatewayInit ==
  /\ profile = None /\ registry = [p \in Processes |-> None]
  /\ bridge = [i \in Instances |-> "none"] /\ manager = [i \in Instances |-> Idle]
  /\ tree = {} /\ ancestry = {} /\ late = {} /\ orphans = {} /\ forks = 0 /\ spawned = 0 /\ starts = 0 /\ crashes = 0

\* Processes are named by the start that spawned their root, and among themselves.
Root(n) == [of |-> n, pid |-> 0]
Members(n) == {p \in tree : p.of = n}

\* descendantPids: what the parents' pids lead to from the root. A client whose parent
\* has died is a child of init and not among them, nor is what it forked.
Descendants(n) ==
  {p \in Members(n) \ {Root(n)} :
     \A S \in SUBSET Members(n) :
       Root(n) \in S /\ (\A e \in ancestry : e[1] \in S => e[2] \in S) => p \in S}

RootAlive(i) == Root(manager[i].child) \in tree

\* isReady of the manager and of the bridge, as any instance of process p sees it.
ManagerReady(i) == manager[i].ready /\ RootAlive(i)
BridgeReady(p) == registry[p] # None /\ bridge[registry[p]] = "owned" /\ ManagerReady(registry[p])

-----------------------------------------------------------------------------
(* stop                                                                      *)

\* manager.stop() as a new state of the manager: one stop at a time; without a
\* child there is only the lock to give back.
Stopped(m) ==
  LET cut == [m EXCEPT !.cancelled = TRUE, !.ready = FALSE]
  IN  IF m.stop # "none" \/ m.cleanupFailed THEN cut
      ELSE [cut EXCEPT !.stop = IF m.child # 0 THEN "snapshot" ELSE IF m.locked THEN "releasing" ELSE "none"]

\* The bridge of i is now in state b; the registry names it while it has a record.
Owns(i, b) ==
  /\ bridge' = [bridge EXCEPT ![i] = b]
  /\ registry' = [registry EXCEPT ![ProcessOf[i]] =
                    IF b # "none" THEN i ELSE IF @ = i THEN None ELSE @]

\* A stop has settled: the start that awaits it ends, and a bridge that awaits it,
\* itself or through that start, gives up its record if the cleanup is proved.
Settles(i, m, b) ==
  /\ manager' = [manager EXCEPT ![i] = [m EXCEPT !.start = IF @ = "failing" THEN "idle" ELSE @]]
  /\ IF b = "stopping" \/ (b = "owned" /\ m.start = "failing")
     THEN Owns(i, IF m.cleanupFailed THEN "stuck" ELSE "none")
     ELSE Owns(i, b)

\* manager.stop() is called from state m, while the bridge is in state b.
CallsStop(i, m, b) ==
  LET next == Stopped(m) IN
  IF next.stop = "none" THEN Settles(i, next, b)
  ELSE manager' = [manager EXCEPT ![i] = next] /\ Owns(i, b)

\* The host stops the service, or disposes of the plugin that owns it.
HostStop(i) ==
  /\ bridge[i] = "owned"
  /\ CallsStop(i, manager[i], "stopping")
  /\ UNCHANGED <<profile, nativeVars, spawned, starts, crashes>>

CleanupForgets(i) ==
  /\ Settles(i, [manager[i] EXCEPT !.stop = "none", !.cleanupFailed = TRUE, !.locked = FALSE], bridge[i])
  /\ profile' = IF profile = i THEN None ELSE profile
  /\ UNCHANGED <<spawned, starts, crashes>>

\* stopOwnedProcessTree cannot prove the tree gone: the lock and the child stay,
\* for ever. A live root is still killed where the code can do it.
CleanupFails(i) ==
  /\ Settles(i, [manager[i] EXCEPT !.stop = "none", !.cleanupFailed = TRUE], bridge[i])
  /\ UNCHANGED <<profile, spawned, starts, crashes>>

\* The first snapshot: an exited root has no ancestry left to read.
Snapshot(i) ==
  /\ manager[i].stop = "snapshot"
  /\ IF RootAlive(i)
     THEN /\ manager' = [manager EXCEPT ![i].stop = "recheck", ![i].captured = Descendants(manager[i].child)]
          /\ UNCHANGED <<profile, registry, bridge, nativeVars, spawned, starts, crashes>>
     ELSE CleanupFails(i) /\ UNCHANGED nativeVars

\* A process ends; what it had forked is left to init.
Gone(p) ==
  /\ tree' = tree \ {p} /\ ancestry' = {e \in ancestry : p \notin {e[1], e[2]}}
  /\ late' = late \ {p} /\ orphans' = orphans \ {p} /\ forks' = forks

\* The second snapshot adds what was forked in between, and keeps what has lost its
\* line since the first; then SIGTERM. A snapshot that fails kills the root alone.
Recheck(i) ==
  LET n == manager[i].child IN
  /\ manager[i].stop = "recheck"
  /\ \/ /\ RootAlive(i)
        /\ manager' = [manager EXCEPT ![i].stop = "signalled", ![i].captured = @ \cup Descendants(n)]
        /\ orphans' = orphans \cup (Members(n) \ ({Root(n)} \cup Descendants(n) \cup manager[i].captured))
        /\ UNCHANGED <<profile, registry, bridge, tree, ancestry, late, forks, spawned, starts, crashes>>
     \/ CleanupFails(i) /\ Gone(Root(n))

\* Every captured process is gone: the child is forgotten, then the lock goes.
\* If they are not seen gone by the deadline, or cannot be looked at, it fails.
Verified(i) ==
  LET n == manager[i].child IN
  /\ manager[i].stop = "signalled"
  /\ \/ /\ tree \cap ({Root(n)} \cup manager[i].captured) = {}
        /\ manager' = [manager EXCEPT ![i].stop = "releasing", ![i].child = 0, ![i].captured = {}]
        /\ UNCHANGED <<profile, registry, bridge, nativeVars, spawned, starts, crashes>>
     \/ CleanupFails(i) /\ UNCHANGED nativeVars

\* Never another owner's lock. A file that cannot be read or removed stays, and
\* nobody owns it.
Release(i) ==
  /\ manager[i].stop = "releasing"
  /\ profile' \in IF profile = i THEN {None, Orphan} ELSE {profile}
  /\ Settles(i, [manager[i] EXCEPT !.stop = "none", !.locked = FALSE], bridge[i])
  /\ UNCHANGED <<nativeVars, spawned, starts, crashes>>

-----------------------------------------------------------------------------
(* start                                                                     *)

\* The host starts the service of i. A manager that is still busy refuses, and the
\* bridge then stops what it has just registered.
HostStart(i) ==
  /\ starts < MaxStarts /\ bridge[i] = "none" /\ registry[ProcessOf[i]] = None
  /\ starts' = starts + 1
  /\ LET m == manager[i] IN
     IF m.child # 0 \/ m.start # "idle" \/ m.stop # "none" \/ m.cleanupFailed
     THEN CallsStop(i, m, "stopping")
     ELSE /\ manager' = [manager EXCEPT ![i] = [@ EXCEPT !.start = "verifying", !.cancelled = FALSE]]
          /\ Owns(i, "owned")
  /\ UNCHANGED <<profile, nativeVars, spawned, crashes>>

StartFails(i) == CallsStop(i, [manager[i] EXCEPT !.start = "failing"], bridge[i])

\* The binary and the private directories.
Verify(i) ==
  /\ manager[i].start = "verifying"
  /\ \/ StartFails(i)
     \/ manager' = [manager EXCEPT ![i].start = "locking"] /\ UNCHANGED <<bridge, registry>>
  /\ UNCHANGED <<profile, nativeVars, spawned, starts, crashes>>

\* The file is created exclusively; if it cannot be written it stays behind.
Lock(i) ==
  /\ manager[i].start = "locking"
  /\ \/ /\ profile = None /\ profile' = i
        /\ manager' = [manager EXCEPT ![i].start = "spawning", ![i].locked = TRUE]
        /\ UNCHANGED <<bridge, registry>>
     \/ profile = None /\ profile' = Orphan /\ StartFails(i)
     \/ StartFails(i) /\ UNCHANGED profile
  /\ UNCHANGED <<nativeVars, spawned, starts, crashes>>

\* The spending policy, the port, the key and the spawn may fail; a start that was
\* stopped meanwhile spawns nothing.
Spawn(i) ==
  /\ manager[i].start = "spawning"
  /\ \/ StartFails(i) /\ UNCHANGED <<nativeVars, spawned>>
     \/ /\ ~manager[i].cancelled /\ spawned' = spawned + 1
        /\ manager' = [manager EXCEPT ![i].start = "polling", ![i].child = spawned']
        /\ tree' = tree \cup {Root(spawned')}
        /\ UNCHANGED <<bridge, registry, ancestry, late, orphans, forks>>
  /\ UNCHANGED <<profile, starts, crashes>>

\* The child answers with the expected catalog, or has not when the time is up.
Poll(i) ==
  /\ manager[i].start = "polling"
  /\ \/ StartFails(i)
     \/ /\ RootAlive(i) /\ ~manager[i].cancelled
        /\ manager' = [manager EXCEPT ![i].start = "idle", ![i].ready = TRUE]
        /\ UNCHANGED <<bridge, registry>>
  /\ UNCHANGED <<profile, nativeVars, spawned, starts, crashes>>

-----------------------------------------------------------------------------
(* The processes, the host and the other owners of the profile               *)

\* The second look at the tree of child n is over.
LookedAt(n) == \E i \in Instances : manager[i].child = n /\ manager[i].stop = "signalled"

\* Any process of a child forks at any time, also while its root is being stopped. No
\* pid comes back: one that does is told apart by its start time.
Fork(p) ==
  /\ forks < MaxForks /\ forks' = forks + 1
  /\ LET q == [of |-> p.of, pid |-> forks'] IN
     /\ tree' = tree \cup {q} /\ ancestry' = ancestry \cup {<<p, q>>}
     /\ late' = IF LookedAt(p.of) \/ p \in late THEN late \cup {q} ELSE late
     /\ orphans' = IF p \in orphans THEN orphans \cup {q} ELSE orphans
  /\ UNCHANGED <<profile, registry, bridge, manager, spawned, starts, crashes>>

\* A signalled process, or one that ends by itself; the exit handler of the root
\* withdraws readiness.
Dies(p) ==
  /\ Gone(p)
  /\ manager' = [i \in Instances |-> IF p = Root(manager[i].child) THEN [manager[i] EXCEPT !.ready = FALSE]
                                     ELSE manager[i]]
  /\ UNCHANGED <<profile, registry, bridge, spawned, starts, crashes>>

\* The host process dies: the detached children and the lock file stay.
Crash(p) ==
  /\ crashes < MaxCrashes /\ crashes' = crashes + 1
  /\ registry' = [registry EXCEPT ![p] = None]
  /\ bridge' = [i \in Instances |-> IF ProcessOf[i] = p THEN "none" ELSE bridge[i]]
  /\ manager' = [i \in Instances |-> IF ProcessOf[i] = p THEN Idle ELSE manager[i]]
  /\ profile' = IF profile \in Instances /\ ProcessOf[profile] = p THEN Orphan ELSE profile
  /\ UNCHANGED <<nativeVars, spawned, starts>>

\* acquireManagedProfileLock of the offline import and of the console: taken while it
\* is free and given back; or left behind, when it cannot be written or removed.
Import ==
  /\ profile \in {None, Importer}
  /\ profile' \in {IF profile = Importer THEN None ELSE Importer, Orphan}
  /\ UNCHANGED <<registry, bridge, manager, nativeVars, spawned, starts, crashes>>

StopStep(i) == Snapshot(i) \/ Recheck(i) \/ Verified(i) \/ Release(i)
StartStep(i) == Verify(i) \/ Lock(i) \/ Spawn(i) \/ Poll(i)

GatewayNext ==
  \/ \E i \in Instances : HostStart(i) \/ HostStop(i) \/ StartStep(i) \/ StopStep(i)
  \/ \E p \in tree : Fork(p) \/ Dies(p)
  \/ \E p \in Processes : Crash(p)
  \/ Import

-----------------------------------------------------------------------------
(* Properties                                                                *)

\* The children one of the processes is of.
Using(processes) == {p.of : p \in processes}

\* At most one child uses the profile, itself or through a native client, and none
\* while an import does: neither a start that crosses a stop, nor a cleanup that
\* fails, a child that exits by itself or a host that dies lets a second one in.
\* Not counted are the clients that no look at the tree can find: those forked after the
\* second one, and those whose line to the root had died out before it was looked at.
NoOverlap ==
  LET using == Using(tree \ (late \cup orphans)) IN
  Cardinality(using) <= 1 /\ (profile = Importer => using = {})
=============================================================================
