---------------------------- MODULE RouterProofs ----------------------------
(* Proofs about the router and its managed gateway: one child at a time uses *)
(* the profile; a reserved route is earned by the last resolution; an        *)
(* automatic run attempts what was chosen for it; development tools run for  *)
(* current developers.                                                       *)
EXTENDS Router, FiniteSetTheorems, SequenceTheorems, WellFoundedInduction, TLAPS

(* The gateway: what a manager holds, what the lock says, what still runs.   *)

Children == [of : Nat \ {0}, pid : Nat]
Managers == [start : {"idle", "verifying", "locking", "spawning", "polling", "failing"},
             cancelled : BOOLEAN, stop : {"none", "snapshot", "recheck", "signalled", "releasing"},
             child : Nat, ready : BOOLEAN, locked : BOOLEAN, captured : SUBSET Children,
             cleanupFailed : BOOLEAN]
Owners == Instances \cup {None, Importer, Orphan}

GatewayTypes ==
  /\ profile \in Owners /\ manager \in [Instances -> Managers]
  /\ tree \subseteq Children /\ spawned \in Nat /\ forks \in Nat

\* The processes that no look at the tree has missed, all roots among them.
Found == tree \ (late \cup orphans)
RootsFound == \A p \in late \cup orphans : p.pid # 0

\* A step that starts no process.
NoneStarted ==
  /\ tree' \subseteq tree /\ Found' \subseteq Found /\ RootsFound'
  /\ UNCHANGED <<forks, spawned>>

\* A manager m of instance i holds the lock while it has a child and from its lock to
\* its spawn, unless a stop crossed it; a stop has seen every client before it waits.
Fits(m, i) ==
  /\ m.child # 0 => profile = i
  /\ m.stop # "none" => m.cancelled
  /\ m.stop = "releasing" => m.child = 0
  /\ m.start \in {"verifying", "locking", "spawning"} => m.child = 0
  /\ m.start = "spawning" /\ ~m.cancelled => profile = i
  /\ m.stop = "signalled" => \A p \in Found : p.of = m.child /\ p.pid # 0 => p \in m.captured
AllFit == \A i \in Instances : Fits(manager[i], i)

\* What runs is the child of the lock's owner, or the lock is an orphan for good.
Guarded == \A p \in Found : profile = Orphan \/ (profile \in Instances /\ manager[profile].child = p.of)
OneChild == \A p, q \in Found : p.of = q.of

GatewayInv == GatewayTypes /\ RootsFound /\ AllFit /\ Guarded /\ OneChild

-----------------------------------------------------------------------------
(* NoOverlap                                                                 *)

\* A set without two different members has at most one.
LEMMA AtMostOne ==
  ASSUME NEW S, \A x, y \in S : x = y
  PROVE  Cardinality(S) <= 1
<1>1. CASE S = {}
  BY <1>1, FS_EmptySet
<1>2. CASE S # {}
  <2>1. PICK x \in S : TRUE
    BY <1>2
  <2>2. S = {x}
    BY <2>1
  <2> QED BY <2>2, FS_Singleton
<1> QED BY <1>1, <1>2

\* The invariant says what the property asks.
LEMMA GatewayInvImplies == GatewayInv => NoOverlap
<1> SUFFICES ASSUME GatewayInv PROVE NoOverlap
  OBVIOUS
<1> DEFINE using == Using(tree \ (late \cup orphans))
<1>1. \A x, y \in using : x = y
  BY DEF GatewayInv, OneChild, Found, Using
<1>2. Cardinality(using) <= 1
  <2> HIDE DEF using
  <2> QED BY <1>1, AtMostOne
<1>3. profile = Importer => using = {}
  BY OwnersAssumption DEF GatewayInv, Guarded, Found, Using
<1> QED BY <1>2, <1>3 DEF NoOverlap

LEMMA GatewayInitInv == GatewayInit => GatewayInv
BY DEF GatewayInit, GatewayInv, GatewayTypes, RootsFound, AllFit, Fits, Guarded, OneChild, Found, Owners,
       Managers, Idle

\* The processes stay as they are, or one ends.
LEMMA StillTree ==
  ASSUME GatewayInv, UNCHANGED <<nativeVars, spawned>>
  PROVE  NoneStarted /\ Found' = Found
BY DEF nativeVars, NoneStarted, Found, RootsFound, GatewayInv

LEMMA GoneTree ==
  ASSUME GatewayInv, NEW p, Gone(p), spawned' = spawned
  PROVE  NoneStarted
BY DEF Gone, NoneStarted, Found, RootsFound, GatewayInv

\* A step of one manager that keeps its child, forks nothing and frees or takes the
\* lock only when nothing runs.
LEMMA ManagerMoves ==
  ASSUME GatewayInv, NEW i \in Instances, NEW m \in Managers,
         manager' = [manager EXCEPT ![i] = m], m.child = manager[i].child,
         NoneStarted, profile' \in Owners,
         profile' = profile \/ Found = {},
         \A j \in Instances \ {i} : profile = j => profile' = j,
         Fits(m, i)'
  PROVE  GatewayInv'
<1>1. manager' \in [Instances -> Managers] /\ manager'[i] = m
      /\ \A j \in Instances \ {i} : manager'[j] = manager[j]
  BY DEF GatewayInv, GatewayTypes
<1>2. Found' \subseteq Found
  BY DEF NoneStarted
<1>3. GatewayTypes' /\ RootsFound'
  BY <1>1 DEF GatewayInv, GatewayTypes, NoneStarted
<1>4. AllFit'
  <2> SUFFICES ASSUME NEW j \in Instances PROVE Fits(manager[j], j)'
    BY DEF AllFit
  <2>1. CASE j = i
    BY <2>1, <1>1
  <2>2. CASE j # i
    <3>1. Fits(manager[j], j) /\ manager'[j] = manager[j]
      BY <2>2, <1>1 DEF GatewayInv, AllFit
    <3> QED BY <3>1, <2>2, <1>2 DEF Fits
  <2> QED BY <2>1, <2>2
<1>5. Guarded'
  <2> SUFFICES ASSUME NEW p \in Found'
               PROVE  profile' = Orphan \/ (profile' \in Instances /\ manager'[profile'].child = p.of)
    BY DEF Guarded
  <2>1. p \in Found /\ profile' = profile
    BY <1>2
  <2> QED BY <2>1, <1>1 DEF GatewayInv, Guarded
<1>6. OneChild'
  BY <1>2 DEF GatewayInv, OneChild
<1> QED BY <1>3, <1>4, <1>5, <1>6 DEF GatewayInv

\* A manager that is stopped: the same child, cancelled, and a stop that fits.
Cut(m, n) ==
  /\ n \in Managers /\ n.child = m.child /\ n.captured = m.captured /\ n.cancelled
  /\ n.start \in {m.start, "idle"}
  /\ n.stop \in {m.stop, IF m.child # 0 THEN "snapshot" ELSE "releasing"}

LEMMA SettlesEffect ==
  ASSUME NEW i, NEW m \in Managers, NEW b, Settles(i, m, b)
  PROVE  \E n \in Managers : /\ manager' = [manager EXCEPT ![i] = n]
                             /\ n = [m EXCEPT !.start = n.start] /\ n.start \in {m.start, "idle"}
<1> DEFINE n == [m EXCEPT !.start = IF @ = "failing" THEN "idle" ELSE @]
<1>1. n \in Managers /\ n = [m EXCEPT !.start = n.start] /\ n.start \in {m.start, "idle"}
  BY DEF Managers
<1>2. manager' = [manager EXCEPT ![i] = n]
  BY DEF Settles
<1> QED BY <1>1, <1>2

LEMMA StopEffect ==
  ASSUME NEW i, NEW m \in Managers, NEW b, CallsStop(i, m, b)
  PROVE  \E n : Cut(m, n) /\ manager' = [manager EXCEPT ![i] = n]
<1> DEFINE s == Stopped(m)
<1>1. Cut(m, s) /\ s \in Managers /\ s.start = m.start
  BY DEF Stopped, Cut, Managers
<1>2. CASE s.stop = "none"
  <2>1. Settles(i, s, b)
    BY <1>2 DEF CallsStop
  <2> HIDE DEF s
  <2>2. PICK n \in Managers : /\ manager' = [manager EXCEPT ![i] = n]
                              /\ n = [s EXCEPT !.start = n.start] /\ n.start \in {s.start, "idle"}
    BY <2>1, <1>1, SettlesEffect
  <2>3. n.child = s.child /\ n.captured = s.captured /\ n.cancelled = s.cancelled /\ n.stop = s.stop
    BY <2>2, <1>1 DEF Managers
  <2>4. Cut(m, n)
    BY <2>2, <2>3, <1>1 DEF Cut
  <2> QED BY <2>2, <2>4
<1>3. CASE s.stop # "none"
  BY <1>1, <1>3 DEF CallsStop
<1> QED BY <1>2, <1>3

\* A stop, or a start that fails, with the lock as it was or newly an orphan.
LEMMA StopKeeps ==
  ASSUME GatewayInv, NEW i \in Instances, NEW m \in Managers, NEW b, CallsStop(i, m, b),
         m = [manager[i] EXCEPT !.start = m.start], m.start \in {manager[i].start, "failing"},
         UNCHANGED <<nativeVars, spawned>>, profile' = profile \/ (profile = None /\ profile' = Orphan)
  PROVE  GatewayInv'
<1>1. PICK n : Cut(m, n) /\ manager' = [manager EXCEPT ![i] = n]
  BY StopEffect
<1>2. manager[i] \in Managers /\ Fits(manager[i], i)
  BY DEF GatewayInv, GatewayTypes, AllFit
<1>3. m.child = manager[i].child /\ m.captured = manager[i].captured /\ m.stop = manager[i].stop
  BY <1>2 DEF Managers
<1>4. n \in Managers /\ n.child = manager[i].child /\ n.captured = manager[i].captured /\ n.cancelled
      /\ n.start \in {manager[i].start, "failing", "idle"}
      /\ n.stop \in {manager[i].stop, IF manager[i].child # 0 THEN "snapshot" ELSE "releasing"}
  BY <1>1, <1>3 DEF Cut
<1>5. Found' = Found /\ NoneStarted
  BY StillTree
<1>6. profile' \in Owners /\ (profile' = profile \/ Found = {})
      /\ \A j \in Instances : profile = j => profile' = j
  BY OwnersAssumption DEF GatewayInv, GatewayTypes, Owners, Guarded
<1>7. Fits(n, i)'
  BY <1>2, <1>4, <1>5, <1>6 DEF Fits
<1> QED BY <1>1, <1>4, <1>5, <1>6, <1>7, ManagerMoves

LEMMA HostKeeps ==
  ASSUME GatewayInv, NEW i \in Instances, HostStart(i) \/ HostStop(i)
  PROVE  GatewayInv'
<1> DEFINE m == manager[i]
<1>1. m \in Managers /\ Fits(m, i) /\ m = [manager[i] EXCEPT !.start = m.start]
  BY DEF GatewayInv, GatewayTypes, AllFit, Managers
<1>2. ASSUME NEW b, CallsStop(i, m, b), UNCHANGED <<profile, nativeVars, spawned>> PROVE GatewayInv'
  <2>1. UNCHANGED <<nativeVars, spawned>> /\ profile' = profile
    BY <1>2
  <2> QED BY <1>1, <1>2, <2>1, StopKeeps
<1>3. CASE HostStop(i)
  <2>1. CallsStop(i, m, "stopping") /\ UNCHANGED <<profile, nativeVars, spawned>>
    BY <1>3 DEF HostStop
  <2> QED BY <2>1, <1>2
<1>4. CASE HostStart(i)
  <2>1. UNCHANGED <<profile, nativeVars, spawned>>
    BY <1>4 DEF HostStart
  <2>2. CASE CallsStop(i, m, "stopping")
    BY <2>1, <2>2, <1>2
  <2>3. CASE ~CallsStop(i, m, "stopping")
    <3>0. PICK n : n = [m EXCEPT !.start = "verifying", !.cancelled = FALSE]
      OBVIOUS
    <3>1. m.child = 0 /\ m.stop = "none" /\ manager' = [manager EXCEPT ![i] = n]
      BY <1>4, <2>3, <3>0 DEF HostStart
    <3>2. n \in Managers /\ n.child = m.child /\ n.child = 0 /\ n.stop = "none" /\ n.start = "verifying"
      BY <1>1, <3>0, <3>1 DEF Managers
    <3>3. Fits(n, i)'
      BY <3>2 DEF Fits
    <3>4. NoneStarted
      BY <2>1, StillTree
    <3> QED BY <2>1, <3>1, <3>2, <3>3, <3>4, ManagerMoves DEF GatewayInv, GatewayTypes
  <2> QED BY <2>2, <2>3
<1> QED BY <1>3, <1>4

LEMMA StartFailsKeeps ==
  ASSUME GatewayInv, NEW i \in Instances, StartFails(i), UNCHANGED <<nativeVars, spawned>>,
         profile' = profile \/ (profile = None /\ profile' = Orphan)
  PROVE  GatewayInv'
<1> DEFINE m == [manager[i] EXCEPT !.start = "failing"]
<1>1. m \in Managers /\ m.start = "failing" /\ m = [manager[i] EXCEPT !.start = m.start]
  BY DEF GatewayInv, GatewayTypes, Managers
<1>2. CallsStop(i, m, bridge[i])
  BY DEF StartFails
<1> HIDE DEF m
<1> QED BY <1>1, <1>2, StopKeeps

\* A step of a start that is taken: the next state n of the manager keeps what it holds.
LEMMA StartMoves ==
  ASSUME GatewayInv, NEW i \in Instances, NEW n \in Managers, manager' = [manager EXCEPT ![i] = n],
         n.child = manager[i].child, n.stop = manager[i].stop, n.cancelled = manager[i].cancelled,
         n.captured = manager[i].captured, UNCHANGED <<nativeVars, spawned>>,
         profile' = profile \/ (profile = None /\ profile' = i),
         n.start \in {"verifying", "locking", "spawning"} => n.child = 0,
         n.start = "spawning" => profile' = i
  PROVE  GatewayInv'
<1>1. Fits(manager[i], i) /\ Found' = Found /\ NoneStarted
  BY StillTree DEF GatewayInv, AllFit
<1>2. profile' \in Owners /\ (profile' = profile \/ Found = {})
      /\ \A j \in Instances : profile = j => profile' = j
  BY OwnersAssumption DEF GatewayInv, GatewayTypes, Owners, Guarded
<1>3. Fits(n, i)'
  BY <1>1, <1>2 DEF Fits
<1> QED BY <1>1, <1>2, <1>3, ManagerMoves

LEMMA StartKeeps ==
  ASSUME GatewayInv, NEW i \in Instances, Verify(i) \/ Lock(i) \/ Poll(i)
  PROVE  GatewayInv'
<1> DEFINE m == manager[i]
<1>1. m \in Managers /\ Fits(m, i)
  BY DEF GatewayInv, GatewayTypes, AllFit
<1> DEFINE failed == StartFails(i) /\ (profile' = profile \/ (profile = None /\ profile' = Orphan))
<1>2. CASE failed
  <2>1. UNCHANGED <<nativeVars, spawned>>
    BY DEF Verify, Lock, Poll
  <2> QED BY <1>2, <2>1, StartFailsKeeps
<1>3. CASE ~failed
  <2> DEFINE n == IF Verify(i) THEN [m EXCEPT !.start = "locking"]
                  ELSE IF Lock(i) THEN [m EXCEPT !.start = "spawning", !.locked = TRUE]
                  ELSE [m EXCEPT !.start = "idle", !.ready = TRUE]
  <2>1. UNCHANGED <<nativeVars, spawned>> /\ manager' = [manager EXCEPT ![i] = n]
    <3>1. CASE Verify(i)
      BY <3>1, <1>3 DEF Verify
    <3>2. CASE Lock(i)
      BY <3>2, <1>3, <1>1 DEF Lock, Verify, Managers
    <3>3. CASE Poll(i)
      BY <3>3, <1>3, <1>1 DEF Poll, Verify, Lock, Managers
    <3> QED BY <3>1, <3>2, <3>3
  <2>2. /\ n \in Managers /\ n.child = m.child /\ n.stop = m.stop /\ n.cancelled = m.cancelled
        /\ n.captured = m.captured
    BY <1>1 DEF Managers
  <2>3. n.start \in {"verifying", "locking", "spawning"} => n.child = 0
    BY <1>1, <2>2 DEF Fits, Verify, Lock, Poll, Managers
  <2>4. profile' = profile \/ (profile = None /\ profile' = i)
    BY <1>3 DEF Verify, Lock, Poll
  <2>5. n.start = "spawning" => profile' = i
    BY <1>1, <1>3 DEF Verify, Lock, Managers
  <2> HIDE DEF n
  <2> QED BY <2>1, <2>2, <2>3, <2>4, <2>5, StartMoves
<1> QED BY <1>2, <1>3

\* A child is spawned under the lock, when nothing else runs.
LEMMA SpawnKeeps ==
  ASSUME GatewayInv, NEW i \in Instances, Spawn(i)
  PROVE  GatewayInv'
<1> DEFINE m == manager[i]
<1>1. m \in Managers /\ Fits(m, i) /\ m.start = "spawning" /\ UNCHANGED <<profile>>
  BY DEF GatewayInv, GatewayTypes, AllFit, Spawn
<1>2. CASE StartFails(i) /\ UNCHANGED <<nativeVars, spawned>>
  BY <1>1, <1>2, StartFailsKeeps
<1>3. CASE ~(StartFails(i) /\ UNCHANGED <<nativeVars, spawned>>)
  <2> DEFINE n == [m EXCEPT !.start = "polling", !.child = spawned + 1]
             root == [of |-> spawned + 1, pid |-> 0]
  <2>1. /\ ~m.cancelled /\ spawned' = spawned + 1 /\ manager' = [manager EXCEPT ![i] = n]
        /\ tree' = tree \cup {root} /\ UNCHANGED <<late, orphans, forks>>
    BY <1>3, <1>1 DEF Spawn, Root, Managers
  <2>2. m.child = 0 /\ profile = i /\ m.stop = "none"
    BY <1>1, <2>1 DEF Fits
  <2>3. Found = {}
    BY <2>2, OwnersAssumption DEF GatewayInv, Guarded, GatewayTypes, Children, Found
  <2>4. spawned \in Nat /\ root \in Children /\ root.of = spawned + 1
    BY DEF GatewayInv, GatewayTypes, Children
  <2>5. n \in Managers /\ n.child = spawned + 1 /\ n.start = "polling" /\ n.stop = "none"
    <3>1. spawned + 1 \in Nat
      BY <2>4
    <3> HIDE DEF m
    <3> QED BY <1>1, <2>2, <3>1 DEF Managers
  <2>6. Found' = {root}
    <3>1. root \notin late \cup orphans
      BY DEF GatewayInv, RootsFound
    <3> HIDE DEF root
    <3> QED BY <2>1, <2>3, <3>1 DEF Found
  <2> HIDE DEF root, n
  <2>8. manager' \in [Instances -> Managers] /\ manager'[i] = n
        /\ \A j \in Instances \ {i} : manager'[j] = manager[j]
    BY <2>1, <2>5 DEF GatewayInv, GatewayTypes
  <2>9. GatewayTypes' /\ RootsFound'
    BY <1>1, <2>1, <2>4, <2>8 DEF GatewayInv, GatewayTypes, RootsFound
  <2>10. AllFit'
    <3> SUFFICES ASSUME NEW j \in Instances PROVE Fits(manager[j], j)'
      BY DEF AllFit
    <3>1. CASE j = i
      BY <3>1, <2>2, <2>5, <2>8, <1>1 DEF Fits
    <3>2. CASE j # i
      <4>1. Fits(manager[j], j) /\ manager'[j] = manager[j] /\ manager[j] \in Managers
        BY <3>2, <2>8 DEF GatewayInv, AllFit, GatewayTypes
      <4>2. manager[j].child = 0
        BY <4>1, <3>2, <2>2 DEF Fits
      <4> QED BY <4>1, <4>2, <2>4, <2>6, <1>1 DEF Fits
    <3> QED BY <3>1, <3>2
  <2>11. Guarded' /\ OneChild'
    BY <1>1, <2>2, <2>4, <2>5, <2>6, <2>8 DEF Guarded, OneChild
  <2> QED BY <2>9, <2>10, <2>11 DEF GatewayInv
<1> QED BY <1>2, <1>3

LEMMA CleanupKeeps ==
  ASSUME GatewayInv, NEW i \in Instances, CleanupFails(i), NoneStarted
  PROVE  GatewayInv'
<1> PICK m : m = [manager[i] EXCEPT !.stop = "none", !.cleanupFailed = TRUE]
  OBVIOUS
<1>1. manager[i] \in Managers /\ Fits(manager[i], i)
  BY DEF GatewayInv, GatewayTypes, AllFit
<1>2. m \in Managers /\ m.child = manager[i].child /\ m.stop = "none" /\ m.start = manager[i].start
      /\ m.cancelled = manager[i].cancelled
  BY <1>1 DEF Managers
<1>3. Settles(i, m, bridge[i]) /\ profile' = profile /\ Found' \subseteq Found
  BY DEF CleanupFails, NoneStarted
<1>4. PICK n \in Managers : /\ manager' = [manager EXCEPT ![i] = n]
                            /\ n = [m EXCEPT !.start = n.start] /\ n.start \in {m.start, "idle"}
  BY <1>2, <1>3, SettlesEffect
<1>5. n.child = manager[i].child /\ n.stop = "none" /\ n.cancelled = manager[i].cancelled
      /\ n.start \in {manager[i].start, "idle"}
  BY <1>2, <1>4 DEF Managers
<1>6. Fits(n, i)'
  BY <1>1, <1>3, <1>5 DEF Fits
<1> QED BY <1>3, <1>4, <1>5, <1>6, ManagerMoves DEF GatewayInv, GatewayTypes

\* The first look, or the second, after which every client that was not missed is captured.
LEMMA LookKeeps ==
  ASSUME GatewayInv, NEW i \in Instances, Snapshot(i) \/ Recheck(i)
  PROVE  GatewayInv'
<1> DEFINE m == manager[i]
<1>1. m \in Managers /\ Fits(m, i) /\ tree \subseteq Children
  BY DEF GatewayInv, GatewayTypes, AllFit
<1> DEFINE failed == CleanupFails(i) /\ (UNCHANGED nativeVars \/ Gone(Root(m.child)))
<1>2. CASE failed
  <2>1. spawned' = spawned
    BY <1>2 DEF CleanupFails
  <2>2. NoneStarted
    BY <1>2, <2>1, StillTree, GoneTree
  <2> QED BY <1>2, <2>2, CleanupKeeps
<1>3. CASE ~failed
  <2> DEFINE c == Descendants(m.child) \cup (IF Recheck(i) THEN m.captured ELSE {})
  <2>1. PICK n : n = [m EXCEPT !.stop = IF Recheck(i) THEN "signalled" ELSE "recheck", !.captured = c]
    OBVIOUS
  <2>2. c \subseteq Children
    BY <1>1 DEF Descendants, Members, Managers
  <2>3. /\ n \in Managers /\ n.child = m.child /\ n.start = m.start /\ n.cancelled = m.cancelled
        /\ n.captured = c /\ n.stop = IF Recheck(i) THEN "signalled" ELSE "recheck"
    BY <1>1, <2>1, <2>2 DEF Managers
  <2>4. CASE Recheck(i)
    <3>1. /\ manager' = [manager EXCEPT ![i].stop = "signalled", ![i].captured = @ \cup Descendants(m.child)]
          /\ orphans' = orphans \cup (Members(m.child) \ ({Root(m.child)} \cup Descendants(m.child) \cup m.captured))
          /\ UNCHANGED <<profile, tree, late, forks, spawned>> /\ m.stop = "recheck"
      BY <2>4, <1>3 DEF Recheck
    <3>2. [manager EXCEPT ![i].stop = "signalled", ![i].captured = @ \cup Descendants(m.child)]
            = [manager EXCEPT ![i] = [m EXCEPT !.stop = "signalled", !.captured = @ \cup Descendants(m.child)]]
      BY <1>1 DEF Managers, GatewayInv, GatewayTypes
    <3>3. n = [m EXCEPT !.stop = "signalled", !.captured = @ \cup Descendants(m.child)]
      BY <2>1, <2>4, <1>1 DEF Managers
    <3>4. manager' = [manager EXCEPT ![i] = n]
      BY <3>1, <3>2, <3>3
    <3>5. Found' \subseteq Found
      BY <3>1 DEF Found
    <3>6. RootsFound'
      <4> SUFFICES ASSUME NEW p \in (late \cup orphans)' PROVE p.pid # 0
        BY DEF RootsFound
      <4>1. CASE p \in late \cup orphans
        BY <4>1 DEF GatewayInv, RootsFound
      <4>2. CASE p \notin late \cup orphans
        <5>1. p \in Children /\ p.of = m.child /\ p # Root(m.child)
          BY <3>1, <4>2, <1>1 DEF Members
        <5> QED BY <5>1 DEF Children, Root
      <4> QED BY <4>1, <4>2
    <3>7. NoneStarted
      BY <3>1, <3>5, <3>6 DEF NoneStarted
    <3>8. ASSUME NEW p \in Found', p.of = n.child, p.pid # 0 PROVE p \in n.captured
      <4>1. p \in tree /\ p \notin orphans' /\ p \in Members(m.child)
        BY <2>3, <3>1, <3>8 DEF Found, Members
      <4>2. p # Root(m.child)
        BY <3>8 DEF Root
      <4>3. p \in Descendants(m.child) \cup m.captured
        BY <3>1, <4>1, <4>2
      <4> QED BY <2>3, <2>4, <4>3
    <3>9. Fits(n, i)'
      <4> HIDE DEF c
      <4> QED BY <1>1, <2>3, <2>4, <3>1, <3>8 DEF Fits
    <3> HIDE DEF c
    <3> QED BY <2>3, <3>1, <3>4, <3>7, <3>9, ManagerMoves DEF GatewayInv, GatewayTypes
  <2>5. CASE ~Recheck(i)
    <3>1. manager' = [manager EXCEPT ![i].stop = "recheck", ![i].captured = Descendants(m.child)]
          /\ UNCHANGED <<profile, nativeVars, spawned>> /\ m.stop = "snapshot"
      BY <2>5, <1>3 DEF Snapshot
    <3>2. n = [m EXCEPT !.stop = "recheck", !.captured = Descendants(m.child)]
      BY <2>1, <2>5, <1>1 DEF Managers
    <3>3. manager' = [manager EXCEPT ![i] = n]
      BY <3>1, <3>2
    <3>4. NoneStarted /\ profile' = profile
      BY <3>1, StillTree
    <3>5. Fits(n, i)'
      <4> HIDE DEF c
      <4> QED BY <1>1, <2>3, <2>5, <3>1 DEF Fits
    <3> HIDE DEF c
    <3> QED BY <2>3, <3>3, <3>4, <3>5, ManagerMoves DEF GatewayInv, GatewayTypes
  <2> QED BY <2>4, <2>5
<1> QED BY <1>2, <1>3

\* The child is forgotten only when it and every client that can be found are gone.
LEMMA VerifiedKeeps ==
  ASSUME GatewayInv, NEW i \in Instances, Verified(i)
  PROVE  GatewayInv'
<1> DEFINE m == manager[i]
<1>1. m \in Managers /\ Fits(m, i) /\ m.stop = "signalled" /\ tree \subseteq Children
  BY DEF GatewayInv, GatewayTypes, AllFit, Verified
<1>2. CASE CleanupFails(i) /\ UNCHANGED nativeVars
  <2>1. NoneStarted
    BY <1>2, StillTree DEF CleanupFails
  <2> QED BY <1>2, <2>1, CleanupKeeps
<1>3. CASE ~(CleanupFails(i) /\ UNCHANGED nativeVars)
  <2>1. PICK n : n = [m EXCEPT !.stop = "releasing", !.child = 0, !.captured = {}]
    OBVIOUS
  <2>2. n \in Managers /\ n.child = 0 /\ n.start = m.start /\ n.cancelled = m.cancelled /\ n.stop = "releasing"
    BY <1>1, <2>1 DEF Managers
  <2>3. /\ tree \cap ({Root(m.child)} \cup m.captured) = {}
        /\ UNCHANGED <<profile, nativeVars, spawned>> /\ manager' = [manager EXCEPT ![i] = n]
    BY <1>3, <2>1 DEF Verified
  <2>4. ASSUME NEW p \in Found, p.of = m.child PROVE FALSE
    <3>1. CASE p.pid = 0
      <4>1. p = Root(m.child)
        BY <1>1, <2>4, <3>1 DEF Found, Children, Root
      <4> QED BY <4>1, <2>3 DEF Found
    <3>2. CASE p.pid # 0
      BY <1>1, <2>3, <2>4, <3>2 DEF Fits, Found, Children
    <3> QED BY <3>1, <3>2
  <2>5. manager' \in [Instances -> Managers] /\ manager'[i] = n
        /\ \A j \in Instances \ {i} : manager'[j] = manager[j]
    BY <2>2, <2>3 DEF GatewayInv, GatewayTypes
  <2>6. GatewayTypes' /\ RootsFound' /\ OneChild' /\ Found' = Found
    <3>1. Found' = Found /\ NoneStarted
      BY <2>3, StillTree
    <3> QED BY <2>3, <2>5, <3>1 DEF GatewayInv, GatewayTypes, OneChild, NoneStarted
  <2>7. AllFit'
    <3> SUFFICES ASSUME NEW j \in Instances PROVE Fits(manager[j], j)'
      BY DEF AllFit
    <3>1. CASE j = i
      BY <3>1, <1>1, <2>2, <2>3, <2>5 DEF Fits
    <3>2. CASE j # i
      <4>1. Fits(manager[j], j) /\ manager'[j] = manager[j]
        BY <3>2, <2>5 DEF GatewayInv, AllFit
      <4> QED BY <4>1, <2>3, <2>6 DEF Fits
    <3> QED BY <3>1, <3>2
  <2>8. Guarded'
    BY <2>3, <2>4, <2>5, <2>6 DEF GatewayInv, Guarded
  <2> QED BY <2>6, <2>7, <2>8 DEF GatewayInv
<1> QED BY <1>2, <1>3

LEMMA ReleaseKeeps ==
  ASSUME GatewayInv, NEW i \in Instances, Release(i)
  PROVE  GatewayInv'
<1> PICK m : m = [manager[i] EXCEPT !.stop = "none", !.locked = FALSE]
  OBVIOUS
<1>1. manager[i] \in Managers /\ Fits(manager[i], i) /\ manager[i].stop = "releasing"
  BY DEF GatewayInv, GatewayTypes, AllFit, Release
<1>2. m \in Managers /\ m.child = manager[i].child /\ m.stop = "none" /\ m.start = manager[i].start
      /\ m.cancelled = manager[i].cancelled
  BY <1>1 DEF Managers
<1>3. Settles(i, m, bridge[i]) /\ profile' \in (IF profile = i THEN {None, Orphan} ELSE {profile})
      /\ NoneStarted
  BY StillTree DEF Release
<1>4. PICK n \in Managers : /\ manager' = [manager EXCEPT ![i] = n]
                            /\ n = [m EXCEPT !.start = n.start] /\ n.start \in {m.start, "idle"}
  BY <1>2, <1>3, SettlesEffect
<1>5. n.child = manager[i].child /\ n.child = 0 /\ n.stop = "none" /\ n.cancelled
      /\ n.start \in {manager[i].start, "idle"}
  BY ZenonT(60), <1>1, <1>2, <1>4 DEF Managers, Fits
<1>6. Fits(n, i)'
  BY <1>1, <1>5 DEF Fits
<1>7. profile = i => Found = {}
  BY <1>1, OwnersAssumption DEF GatewayInv, Guarded, GatewayTypes, Children, Found, Fits
<1>8. profile' \in Owners /\ (profile' = profile \/ Found = {})
  BY <1>3, <1>7 DEF GatewayInv, GatewayTypes, Owners
<1>9. \A j \in Instances \ {i} : profile = j => profile' = j
  BY <1>3
<1> QED BY <1>3, <1>4, <1>5, <1>6, <1>8, <1>9, ManagerMoves

\* A fork belongs to the child its parent is of; it is missed if its parent was, or if
\* the second look at its tree is over.
LEMMA ForkKeeps ==
  ASSUME GatewayInv, NEW p \in tree, Fork(p)
  PROVE  GatewayInv'
<1> DEFINE q == [of |-> p.of, pid |-> forks + 1]
<1>1. p \in Children /\ forks \in Nat /\ spawned \in Nat
  BY DEF GatewayInv, GatewayTypes
<1>2. /\ tree' = tree \cup {q} /\ UNCHANGED <<profile, manager, spawned>> /\ forks' = forks + 1
      /\ late' = (IF LookedAt(p.of) \/ p \in late THEN late \cup {q} ELSE late)
      /\ orphans' = (IF p \in orphans THEN orphans \cup {q} ELSE orphans)
  BY DEF Fork
<1>3. q \in Children /\ q.of = p.of /\ q.pid # 0
  BY <1>1 DEF Children
<1> HIDE DEF q
<1>4. Found' \subseteq Found \cup {q} /\ (p \notin Found \/ LookedAt(p.of) => Found' \subseteq Found)
  BY <1>2 DEF Found
<1>5. GatewayTypes' /\ RootsFound'
  BY <1>1, <1>2, <1>3 DEF GatewayInv, GatewayTypes, RootsFound
<1>6. AllFit'
  <2> SUFFICES ASSUME NEW j \in Instances PROVE Fits(manager[j], j)'
    BY DEF AllFit
  <2>1. Fits(manager[j], j) /\ manager'[j] = manager[j]
    BY <1>2 DEF GatewayInv, AllFit
  <2>2. ASSUME manager[j].stop = "signalled", NEW x \in Found', x.of = manager[j].child, x.pid # 0
        PROVE  x \in manager[j].captured
    <3>1. x = q => LookedAt(p.of)
      BY <2>2, <1>3 DEF LookedAt
    <3>2. x \in Found
      BY <2>2, <3>1, <1>4
    <3> QED BY <3>2, <2>1, <2>2 DEF Fits
  <2> QED BY <2>1, <2>2, <1>2 DEF Fits
<1>7. Guarded'
  BY <1>2, <1>3, <1>4 DEF GatewayInv, Guarded
<1>8. OneChild'
  BY <1>3, <1>4 DEF GatewayInv, OneChild
<1> QED BY <1>5, <1>6, <1>7, <1>8 DEF GatewayInv

\* Managers whose children, captures, starts and stops are as they were.
LEMMA QuietManagers ==
  ASSUME GatewayInv, NoneStarted, profile' = profile,
         manager' \in [Instances -> Managers],
         \A i \in Instances : \A f \in {"child", "captured", "start", "stop", "cancelled"} :
            manager'[i][f] = manager[i][f]
  PROVE  GatewayInv'
<1>1. Found' \subseteq Found
  BY DEF NoneStarted
<1>2. GatewayTypes' /\ RootsFound' /\ OneChild'
  BY <1>1 DEF GatewayInv, GatewayTypes, NoneStarted, OneChild
<1>3. \A i \in Instances : /\ manager'[i].child = manager[i].child /\ manager'[i].captured = manager[i].captured
                           /\ manager'[i].start = manager[i].start /\ manager'[i].stop = manager[i].stop
                           /\ manager'[i].cancelled = manager[i].cancelled
  OBVIOUS
<1>4. AllFit'
  <2> SUFFICES ASSUME NEW i \in Instances PROVE Fits(manager[i], i)'
    BY DEF AllFit
  <2>1. Fits(manager[i], i)
    BY DEF GatewayInv, AllFit
  <2> QED BY <2>1, <1>1, <1>3 DEF Fits
<1>5. Guarded'
  BY <1>1, <1>3 DEF GatewayInv, Guarded
<1> QED BY <1>2, <1>4, <1>5 DEF GatewayInv

LEMMA DiesKeeps ==
  ASSUME GatewayInv, NEW p, Dies(p)
  PROVE  GatewayInv'
<1>1. NoneStarted /\ profile' = profile /\ manager \in [Instances -> Managers]
  BY GoneTree DEF Dies, GatewayInv, GatewayTypes
<1>2. ASSUME NEW i \in Instances
      PROVE  /\ manager'[i] \in Managers
             /\ \A f \in {"child", "captured", "start", "stop", "cancelled"} : manager'[i][f] = manager[i][f]
  <2>1. manager'[i] \in {manager[i], [manager[i] EXCEPT !.ready = FALSE]} /\ manager[i] \in Managers
    BY <1>1 DEF Dies
  <2> QED BY <2>1 DEF Managers
<1>3. manager' = [i \in Instances |-> manager'[i]]
  BY DEF Dies
<1>4. manager' \in [Instances -> Managers]
  BY <1>2, <1>3
<1> QED BY <1>1, <1>2, <1>4, QuietManagers

\* A host that dies leaves its lock as an orphan.
LEMMA CrashKeeps ==
  ASSUME GatewayInv, NEW p, Crash(p)
  PROVE  GatewayInv'
<1>1. NoneStarted /\ Found' = Found /\ profile \in Owners /\ manager \in [Instances -> Managers]
  BY StillTree DEF Crash, GatewayInv, GatewayTypes
<1>2. profile' = IF profile \in Instances /\ ProcessOf[profile] = p THEN Orphan ELSE profile
  BY DEF Crash
<1>3. \A i \in Instances : manager'[i] = IF ProcessOf[i] = p THEN Idle ELSE manager[i]
  BY DEF Crash
<1>4. Idle \in Managers /\ Idle.child = 0 /\ Idle.stop = "none" /\ Idle.start = "idle"
  BY DEF Idle, Managers
<1>5. manager' \in [Instances -> Managers]
  <2>1. manager' = [i \in Instances |-> IF ProcessOf[i] = p THEN Idle ELSE manager[i]]
    BY DEF Crash
  <2> QED BY <2>1, <1>1, <1>4
<1>6. GatewayTypes' /\ RootsFound' /\ OneChild'
  BY <1>1, <1>2, <1>5 DEF GatewayInv, GatewayTypes, NoneStarted, OneChild, Owners
<1>7. AllFit'
  <2> SUFFICES ASSUME NEW i \in Instances PROVE Fits(manager[i], i)'
    BY DEF AllFit
  <2>1. CASE ProcessOf[i] = p
    BY <2>1, <1>3, <1>4 DEF Fits
  <2>2. CASE ProcessOf[i] # p
    <3>1. Fits(manager[i], i) /\ manager'[i] = manager[i]
      BY <2>2, <1>3 DEF GatewayInv, AllFit
    <3>2. profile = i => profile' = i
      BY <2>2, <1>2
    <3> QED BY <3>1, <3>2, <1>1 DEF Fits
  <2> QED BY <2>1, <2>2
<1>8. Guarded'
  BY <1>1, <1>2, <1>3 DEF GatewayInv, Guarded
<1> QED BY <1>6, <1>7, <1>8 DEF GatewayInv

LEMMA ImportKeeps ==
  ASSUME GatewayInv, Import
  PROVE  GatewayInv'
<1>1. NoneStarted /\ UNCHANGED manager /\ Found' = Found /\ profile \notin Instances
      /\ profile' \in {None, Importer, Orphan}
  BY StillTree, OwnersAssumption DEF Import
<1>2. Found = {}
  BY <1>1, OwnersAssumption DEF GatewayInv, Guarded, Import
<1>3. GatewayTypes' /\ RootsFound' /\ OneChild' /\ Guarded'
  BY <1>1, <1>2 DEF GatewayInv, GatewayTypes, NoneStarted, OneChild, Guarded, Owners
<1>4. AllFit'
  <2> SUFFICES ASSUME NEW i \in Instances PROVE Fits(manager[i], i)'
    BY DEF AllFit
  <2>1. Fits(manager[i], i) /\ manager'[i] = manager[i] /\ profile # i
    BY <1>1 DEF GatewayInv, AllFit
  <2> QED BY <2>1, <1>1 DEF Fits
<1> QED BY <1>3, <1>4 DEF GatewayInv

\* Every step of the gateway keeps its invariant.
LEMMA GatewayKeeps == GatewayInv /\ GatewayNext => GatewayInv'
<1> SUFFICES ASSUME GatewayInv, GatewayNext PROVE GatewayInv'
  OBVIOUS
<1>1. ASSUME NEW i \in Instances, HostStart(i) \/ HostStop(i) PROVE GatewayInv'
  BY <1>1, HostKeeps
<1>2. ASSUME NEW i \in Instances, StartStep(i) PROVE GatewayInv'
  BY <1>2, StartKeeps, SpawnKeeps DEF StartStep
<1>3. ASSUME NEW i \in Instances, StopStep(i) PROVE GatewayInv'
  BY <1>3, LookKeeps, VerifiedKeeps, ReleaseKeeps DEF StopStep
<1>4. ASSUME NEW p \in tree, Fork(p) PROVE GatewayInv'
  BY <1>4, ForkKeeps
<1>5. ASSUME NEW p \in tree, Dies(p) PROVE GatewayInv'
  BY <1>5, DiesKeeps
<1>6. ASSUME NEW p \in Processes, Crash(p) PROVE GatewayInv'
  BY <1>6, CrashKeeps
<1>7. CASE Import
  BY <1>7, ImportKeeps
<1> QED BY <1>1, <1>2, <1>3, <1>4, <1>5, <1>6, <1>7 DEF GatewayNext

LEMMA GatewayQuiet == GatewayInv /\ UNCHANGED gatewayVars => GatewayInv'
<1> SUFFICES ASSUME GatewayInv, UNCHANGED gatewayVars PROVE GatewayInv'
  OBVIOUS
<1>1. UNCHANGED <<profile, manager, nativeVars, spawned>>
  BY DEF gatewayVars, nativeVars
<1>2. NoneStarted /\ profile' = profile /\ manager' \in [Instances -> Managers]
      /\ \A i \in Instances : \A f \in {"child", "captured", "start", "stop", "cancelled"} :
            manager'[i][f] = manager[i][f]
  BY <1>1, StillTree DEF GatewayInv, GatewayTypes
<1> QED BY <1>2, QuietManagers

\* At most one child uses the profile, itself or through a client, and none while an
\* import does, whatever starts, stops, dies or crashes in between; but for the clients
\* that were forked after the second look at the tree, or that had lost their line to
\* the root before it was looked at.
THEOREM OneGateway == Spec => []NoOverlap
<1>1. Init => GatewayInv
  BY GatewayInitInv DEF Init
<1>2. GatewayInv /\ [Next]_vars => GatewayInv'
  <2> SUFFICES ASSUME GatewayInv, [Next]_vars PROVE GatewayInv'
    OBVIOUS
  <2>1. CASE Next
    BY <2>1, GatewayKeeps, GatewayQuiet DEF Next
  <2>2. CASE UNCHANGED vars
    BY <2>2, GatewayQuiet DEF vars
  <2> QED BY <2>1, <2>2
<1>3. GatewayInv => NoOverlap
  BY GatewayInvImplies
<1> QED BY <1>1, <1>2, <1>3, PTL DEF Spec
-----------------------------------------------------------------------------
(* The router: the inductive invariant                                       *)

Truths == [serial : Nat, by : Requesters \cup {None}, seen : SUBSET Rights, verdict : Outcomes \cup {None},
           chosen : SUBSET Routes, coding : BOOLEAN, refused : BOOLEAN]
Hooks == [run : Runs, id : Nat, serial : Nat, by : Requesters,
          step : {"gateway", "member", "role", "admin", "decide"}, developer : BOOLEAN, admin : BOOLEAN]
Calls == [by : Requesters, step : {"member", "role"}, seen : SUBSET Rights]
Passes == [route : Routes, by : Requesters, truth : Truths]

RouterTypes ==
  /\ desk \in Desks /\ rights \in [Requesters -> SUBSET Rights]
  /\ asked \in [desk.runs -> desk.models]
  /\ entry \in [Runs -> Entries \cup {None}]
  /\ hooks \subseteq Hooks
  /\ toolCall \in [Runs -> Calls \cup {None}]
  /\ used \in [{"resolve", "attempt", "tool", "change"} -> Nat]
  /\ truth \in [Runs -> Truths]
  /\ passes \in [Runs -> Seq(Passes)]

\* Entries and resolutions are numbered upwards, and a resolution has one hook.
Numbered ==
  /\ \A r \in Kept : entry[r].id <= used.resolve + used.attempt
  /\ \A r \in Runs : truth[r].serial <= used.resolve
  /\ \A h \in hooks : h.id <= used.resolve + used.attempt /\ h.serial <= used.resolve
  /\ \A g, h \in hooks : g.serial = h.serial => g = h

\* The hook of the resolution of its run that was begun last.
Current(h) == h.serial = truth[h.run].serial

NoneReserved == \A x \in Routes : ~Restricted(x)

\* A hook that can still write is that of the last resolution, and what it has found
\* out its requester had meanwhile; nothing has been decided yet.
HookEarned(h, t) ==
  /\ h.by = t.by /\ rights[h.by] \subseteq t.seen
  /\ h.step = "role" => "member" \in t.seen
  /\ h.developer => Developer \subseteq t.seen
  /\ h.admin => "admin" \in t.seen \/ NoneReserved
HooksCurrent ==
  \A h \in hooks :
    /\ h.run \in DOMAIN asked
    /\ h.run \in Kept /\ entry[h.run].id = h.id => Current(h)
    /\ Current(h) => HookEarned(h, truth[h.run]) /\ (h.run \in Kept => ~entry[h.run].restrictedEligible)

\* What an entry says of its requester the last resolution found out.
Earned(e, t) ==
  /\ e.requester \in {None, t.by}
  /\ e.developer => Developer \subseteq t.seen
  /\ e.admin => "admin" \in t.seen \/ NoneReserved
  /\ e.restrictedEligible => t.verdict # None /\ t.verdict.task = "coding" /\ t.verdict.complex
EntryEarned == \A r \in Kept : Earned(entry[r], truth[r])

\* An automatic run has an entry from its first resolution on, which asks for nothing
\* but what was chosen.
ChoiceOf(e, t) ==
  /\ ~e.manual
  /\ e.requested # None => e.requested \in t.chosen /\ (Plan(e.requested) => t.coding)
  /\ e.codingEligible => t.coding
ChoiceMade ==
  \A r \in DOMAIN asked : asked[r] = AutoModel /\ ~truth[r].refused =>
    /\ truth[r].serial > 0 /\ r \notin over => r \in Kept
    /\ r \in Kept => ChoiceOf(entry[r], truth[r])

\* A tool call that is being decided has seen what its requester had meanwhile.
ToolsAsked ==
  \A r \in Runs : toolCall[r] # None =>
    /\ rights[toolCall[r].by] \subseteq toolCall[r].seen
    /\ toolCall[r].step = "role" => "member" \in toolCall[r].seen

RouterInv == /\ RouterTypes /\ Numbered /\ HooksCurrent /\ EntryEarned /\ ChoiceMade /\ ToolsAsked
             /\ EarnedRoute /\ ChosenFirst /\ DevelopmentFresh

-----------------------------------------------------------------------------
(* Lemmas about the model's operators                                        *)

\* A set of positions that is not empty has a first one.
LEMMA FirstExists ==
  ASSUME NEW S \in SUBSET Nat, S # {}
  PROVE  \E x \in S : \A y \in S : x <= y
<1> DEFINE T == {1..k : k \in S}
<1>1. T \subseteq FiniteSubsetsOf(Nat) /\ T # {}
  <2>1. \A k \in S : 1..k \in SUBSET Nat /\ IsFiniteSet(1..k)
    <3> TAKE k \in S
    <3>1. 1 \in Int /\ k \in Int
      OBVIOUS
    <3> QED BY <3>1, FS_Interval
  <2> QED BY <2>1 DEF FiniteSubsetsOf
<1>2. \E A \in T : \A B \in T : ~ (<<B, A>> \in StrictSubsetOrdering(Nat))
  <2> HIDE DEF T
  <2> QED BY <1>1, FS_StrictSubsetOrderingWellFounded, WFMin
<1>3. PICK x \in S : \A y \in S : ~ (<<1..y, 1..x>> \in StrictSubsetOrdering(Nat))
  BY <1>2
<1>4. ASSUME NEW y \in S, y < x PROVE FALSE
  <2>1. 1..y \subseteq 1..x /\ x \in 1..x /\ x \notin 1..y /\ 1..x \subseteq Nat
    BY <1>4
  <2> QED BY <2>1, <1>3 DEF StrictSubsetOrdering
<1> QED BY <1>3, <1>4

\* The first eligible route of the configuration is an eligible route.
LEMMA FirstOfIn ==
  ASSUME NEW S \in SUBSET Routes, S # {}
  PROVE  FirstOf(S) \in S
<1> DEFINE I == {k \in 1..Len(Catalog) : Catalog[k] \in S}
<1>1. Catalog \in Seq(Routes) /\ Routes = {Catalog[k] : k \in DOMAIN Catalog}
  BY CatalogAssumption DEF ToSet
<1>2. I # {} /\ I \in SUBSET Nat
  BY <1>1
<1>3. Min(I) \in I
  <2>1. \E x \in I : \A y \in I : x <= y
    BY <1>2, FirstExists
  <2> QED BY <2>1 DEF Min
<1>4. FirstOf(S) = Catalog[Min(I)]
  BY <1>2 DEF FirstOf, SelectInSeq
<1> QED BY <1>3, <1>4

\* A choice is a route, unless it is an error, and a coding plan only for coding.
LEMMA SelectionSafe ==
  ASSUME NEW o \in Outcomes, NEW admin \in BOOLEAN, NEW developer \in BOOLEAN
  PROVE  LET s == Selection(o, admin, developer) IN
         /\ s.route # None => s.route \in Routes /\ (Plan(s.route) => o.task = "coding")
         /\ s.codingEligible = (o.task = "coding")
         /\ s.restrictedEligible \in BOOLEAN
         /\ s.restrictedEligible => o.task = "coding" /\ o.complex
<1>1. DefaultRoute \in Routes /\ ~Plan(DefaultRoute)
  BY CatalogAssumption DEF ValidRouterConfig
<1>2. SelectRoute(o) \in Routes
  BY <1>1 DEF SelectRoute, Outcomes
<1>3. \A S \in SUBSET Routes : S # {} => FirstOf(S) \in Routes
  BY FirstOfIn
<1> QED BY <1>1, <1>2, <1>3 DEF Selection, Outcomes

LEMMA MarkedEffect ==
  ASSUME RouterTypes, NEW r \in Runs, NEW model \in Routes \cup {AutoModel}, NEW e, e = Marked(r, model)
  PROVE  LET old == IF r \in Kept THEN entry[r] ELSE Blank(model) IN
         /\ e \in Entries /\ e.id = used.resolve + used.attempt + 1
         /\ e.requested = (IF old.requested = None /\ model # AutoModel THEN model ELSE old.requested)
         /\ e.manual = old.manual /\ e.requester = old.requester /\ e.admin = old.admin
         /\ e.developer = old.developer /\ e.restrictedEligible = old.restrictedEligible
         /\ e.codingEligible = old.codingEligible /\ e.lastRoute = old.lastRoute
         /\ e.fallbackCursor = old.fallbackCursor
<1> DEFINE old == IF r \in Kept THEN entry[r] ELSE Blank(model)
<1>1. old \in Entries
  BY DEF Blank, Entries, Kept, RouterTypes
<1>2. used.resolve + used.attempt + 1 \in Nat
  BY DEF RouterTypes
<1>3. e = [old EXCEPT !.id = used.resolve + used.attempt + 1,
                      !.requested = IF @ = None /\ model # AutoModel THEN model ELSE @]
  BY DEF Marked
<1>4. /\ e \in Entries /\ e.id = used.resolve + used.attempt + 1
      /\ e.requested = (IF old.requested = None /\ model # AutoModel THEN model ELSE old.requested)
      /\ e.manual = old.manual /\ e.requester = old.requester /\ e.admin = old.admin
      /\ e.developer = old.developer /\ e.restrictedEligible = old.restrictedEligible
      /\ e.codingEligible = old.codingEligible /\ e.lastRoute = old.lastRoute
      /\ e.fallbackCursor = old.fallbackCursor
  <2> HIDE DEF old
  <2> QED BY <1>1, <1>2, <1>3 DEF Entries
<1> QED BY <1>4
LEMMA DeskFacts ==
  ASSUME RouterTypes
  PROVE  /\ desk.runs \subseteq Runs /\ desk.people \subseteq Requesters /\ desk.outcomes \subseteq Outcomes
         /\ DOMAIN asked = desk.runs /\ \A r \in desk.runs : asked[r] \in Routes \cup {AutoModel}
         /\ None \notin Requesters /\ None \notin Outcomes /\ None \notin Entries
BY DeskAssumption DEF RouterTypes

\* What passed stays as it was found.
LEMMA PassedQuiet ==
  ASSUME RouterInv, UNCHANGED <<passes, asked>>
  PROVE  EarnedRoute' /\ ChosenFirst'
<1>1. \A r : Passed(r)' = Passed(r)
  BY DEF Passed
<1> QED BY <1>1 DEF RouterInv, EarnedRoute, ChosenFirst

-----------------------------------------------------------------------------
(* The initial states and the steps that change nothing of the router        *)

LEMMA RouterInitInv == Init => RouterInv
<1> SUFFICES ASSUME Init PROVE RouterInv
  OBVIOUS
<1>1. RouterTypes
  <2>1. NoTruth \in Truths
    BY DEF NoTruth, Truths
  <2>2. <<>> \in Seq(Passes)
    OBVIOUS
  <2>3. desk \in Desks /\ rights \in [Requesters -> SUBSET Rights] /\ asked \in [desk.runs -> desk.models]
    BY DeskAssumption DEF Init
  <2>4. truth \in [Runs -> Truths] /\ passes \in [Runs -> Seq(Passes)]
    BY <2>1, <2>2 DEF Init
  <2> QED BY <2>3, <2>4 DEF Init, RouterTypes
<1>2. Kept = {} /\ hooks = {} /\ used.resolve = 0 /\ \A r \in Runs : truth[r] = NoTruth
  BY DEF Init, Kept
<1>3. Numbered /\ HooksCurrent /\ EntryEarned /\ ToolsAsked /\ DevelopmentFresh
  BY <1>2 DEF Init, Numbered, HooksCurrent, EntryEarned, ToolsAsked, DevelopmentFresh, NoTruth
<1>4. ChoiceMade
  BY <1>1, <1>2, DeskFacts DEF ChoiceMade, NoTruth
<1>5. \A r \in Runs : Passed(r) = {}
  BY DEF Init, Passed, ToSet
<1>6. EarnedRoute /\ ChosenFirst
  BY <1>1, <1>5, DeskFacts DEF EarnedRoute, ChosenFirst
<1> QED BY <1>1, <1>3, <1>4, <1>6 DEF RouterInv

LEMMA RouterQuiet == RouterInv /\ UNCHANGED routerVars => RouterInv'
<1> SUFFICES ASSUME RouterInv, UNCHANGED routerVars PROVE RouterInv'
  OBVIOUS
<1>1. UNCHANGED <<desk, rights, asked, entry, over, hooks, toolCall, used, truth, passes, allowed>>
  BY DEF routerVars
<1>2. RouterTypes' /\ Numbered' /\ EntryEarned' /\ ToolsAsked' /\ DevelopmentFresh' /\ Kept' = Kept
  BY <1>1 DEF RouterInv, RouterTypes, Numbered, EntryEarned, ToolsAsked, DevelopmentFresh, Kept, Earned
<1>3. HooksCurrent' /\ ChoiceMade'
  BY <1>1 DEF RouterInv, HooksCurrent, ChoiceMade, Current, HookEarned, ChoiceOf, Kept
<1>4. EarnedRoute' /\ ChosenFirst'
  BY <1>1, PassedQuiet
<1> QED BY <1>2, <1>3, <1>4 DEF RouterInv

-----------------------------------------------------------------------------
(* A resolution begins                                                       *)

LEMMA BegunEffect ==
  ASSUME RouterTypes, NEW r \in desk.runs, NEW q \in Requesters, NEW e, e = Begun(r, q)
  PROVE  LET old == IF r \in Kept THEN entry[r] ELSE Blank(asked[r]) IN
         /\ e \in Entries /\ e.id = used.resolve + used.attempt + 1
         /\ e.requester = q /\ ~e.admin /\ ~e.developer /\ ~e.restrictedEligible
         /\ asked[r] = AutoModel => e.requested = old.requested
         /\ e.manual = old.manual /\ e.codingEligible = old.codingEligible
         /\ r \notin Kept /\ asked[r] = AutoModel => e.requested = None /\ ~e.manual /\ ~e.codingEligible
<1> DEFINE old == IF r \in Kept THEN entry[r] ELSE Blank(asked[r])
<1> PICK m : m = Marked(r, asked[r])
  OBVIOUS
<1>1. r \in Runs /\ asked[r] \in Routes \cup {AutoModel}
  BY DeskFacts
<1>2. /\ m \in Entries /\ m.id = used.resolve + used.attempt + 1
      /\ asked[r] = AutoModel => m.requested = old.requested
      /\ m.manual = old.manual /\ m.codingEligible = old.codingEligible
  BY <1>1, MarkedEffect
<1>3. e = [m EXCEPT !.requester = q, !.admin = FALSE, !.developer = FALSE,
             !.restrictedEligible = FALSE, !.gatewayUnavailable = @ \/ desk.mode = "console"]
  BY DEF Begun
<1>4. /\ e \in Entries /\ e.id = used.resolve + used.attempt + 1
      /\ e.requester = q /\ ~e.admin /\ ~e.developer /\ ~e.restrictedEligible
      /\ asked[r] = AutoModel => e.requested = old.requested
      /\ e.manual = old.manual /\ e.codingEligible = old.codingEligible
  <2> HIDE DEF old
  <2> QED BY <1>2, <1>3 DEF Entries
<1>5. ASSUME r \notin Kept, asked[r] = AutoModel PROVE e.requested = None /\ ~e.manual /\ ~e.codingEligible
  <2>1. old.requested = None /\ old.manual = FALSE /\ old.codingEligible = FALSE
    BY <1>5 DEF Blank
  <2> HIDE DEF old
  <2> QED BY <2>1, <1>4, <1>5
<1> QED BY <1>4, <1>5

LEMMA NumberFacts ==
  ASSUME RouterInv
  PROVE  LET n == used.resolve + 1 IN
         /\ used.resolve \in Nat /\ used.attempt \in Nat
         /\ \A h \in hooks : h.serial < n /\ h.id < n + used.attempt
         /\ \A h \in hooks : h.run \in Runs /\ h.run \in DOMAIN asked /\ h.serial \in Nat /\ h.id \in Nat
         /\ \A s \in Kept : entry[s].id < n + used.attempt /\ entry[s].id \in Nat
         /\ \A s \in Runs : truth[s].serial < n /\ truth[s].serial \in Nat
<1>1. used.resolve \in Nat /\ used.attempt \in Nat
  BY DEF RouterInv, RouterTypes
<1>2. \A h \in hooks : h.run \in Runs /\ h.run \in DOMAIN asked /\ h.serial \in Nat /\ h.id \in Nat
  BY DEF RouterInv, RouterTypes, HooksCurrent, Hooks
<1>3. \A s \in Kept : entry[s].id \in Nat
  BY DEF RouterInv, RouterTypes, Kept, Entries
<1>4. \A s \in Runs : truth[s].serial \in Nat
  BY DEF RouterInv, RouterTypes, Truths
<1> QED BY <1>1, <1>2, <1>3, <1>4 DEF RouterInv, Numbered

\* The run of a resolution: what was found out before is nothing now, and every older
\* hook has lost its hold on the entry.
LEMMA ResolveKeeps ==
  ASSUME RouterInv, NEW r \in desk.runs, NEW q \in desk.people, Resolve(r, q)
  PROVE  RouterInv'
<1> DEFINE n == used.resolve + 1
<1> PICK t : t = [truth[r] EXCEPT !.serial = n, !.by = q, !.seen = rights[q],
                                  !.verdict = None, !.refused = @ \/ Overloaded(r)]
  OBVIOUS
<1> PICK e : e = Begun(r, q)
  OBVIOUS
<1>0. RouterTypes /\ r \in Runs /\ q \in Requesters /\ r \in DOMAIN asked
  BY DeskFacts DEF RouterInv
<1>1. /\ t \in Truths /\ t.serial = n /\ t.by = q /\ t.seen = rights[q] /\ t.verdict = None
      /\ t.chosen = truth[r].chosen /\ t.coding = truth[r].coding
      /\ t.refused = (truth[r].refused \/ Overloaded(r))
  <2>1. truth[r] \in Truths /\ n \in Nat /\ rights[q] \subseteq Rights /\ Overloaded(r) \in BOOLEAN
    BY <1>0 DEF RouterTypes, Overloaded
  <2> HIDE DEF n
  <2> QED BY <2>1, <1>0 DEF Truths
<1>2. /\ UNCHANGED <<desk, rights, asked, over, toolCall, passes, allowed>>
      /\ truth' = [truth EXCEPT ![r] = t] /\ r \notin over
      /\ used' = [used EXCEPT !["resolve"] = @ + 1]
  <2>1. truth' = [truth EXCEPT ![r] = [truth[r] EXCEPT !.serial = n, !.by = q, !.seen = rights[q],
                                          !.verdict = None, !.refused = @ \/ Overloaded(r)]]
    BY DEF Resolve
  <2>2. UNCHANGED <<desk, rights, asked, over, toolCall, passes, allowed>> /\ r \notin over
        /\ used' = [used EXCEPT !["resolve"] = @ + 1]
    BY DEF Resolve, Uses
  <2> QED BY <2>1, <2>2
<1>3. /\ used' \in [{"resolve", "attempt", "tool", "change"} -> Nat]
      /\ used'.resolve = n /\ used'.attempt = used.attempt
  BY <1>0, <1>2 DEF RouterTypes
<1>4. truth' \in [Runs -> Truths] /\ truth'[r] = t /\ \A s \in Runs \ {r} : truth'[s] = truth[s]
  BY <1>0, <1>1, <1>2 DEF RouterTypes
<1>5. ToolsAsked' /\ EarnedRoute' /\ ChosenFirst' /\ DevelopmentFresh'
  <2>1. ToolsAsked' /\ DevelopmentFresh'
    BY <1>2 DEF RouterInv, ToolsAsked, DevelopmentFresh
  <2> QED BY <2>1, <1>2, PassedQuiet
<1>6. /\ used.resolve \in Nat /\ used.attempt \in Nat
      /\ \A h \in hooks : h.serial < n /\ h.id < n + used.attempt
      /\ \A h \in hooks : h.run \in Runs /\ h.run \in DOMAIN asked /\ h.serial \in Nat /\ h.id \in Nat
      /\ \A s \in Kept : entry[s].id < n + used.attempt /\ entry[s].id \in Nat
      /\ \A s \in Runs : truth[s].serial < n /\ truth[s].serial \in Nat
  BY NumberFacts
<1>7. CASE Overloaded(r)
  <2>1. UNCHANGED <<entry, hooks>> /\ r \notin Kept /\ Kept' = Kept
    BY <1>7 DEF Resolve, Overloaded, Kept
  <2>2. RouterTypes'
    BY <1>0, <1>2, <1>3, <1>4, <2>1 DEF RouterTypes
  <2>3. Numbered'
    <3>1. \A s \in Kept' : entry'[s].id <= used'.resolve + used'.attempt
      BY <1>3, <1>6, <2>1
    <3>2. \A s \in Runs : truth'[s].serial <= used'.resolve
      <4>1. truth'[r].serial <= used'.resolve
        BY <1>1, <1>3, <1>4, <1>6
      <4>2. ASSUME NEW s \in Runs, s # r PROVE truth'[s].serial <= used'.resolve
        BY <4>2, <1>3, <1>4, <1>6
      <4> QED BY <4>1, <4>2
    <3>3. \A h \in hooks' : h.id <= used'.resolve + used'.attempt /\ h.serial <= used'.resolve
      BY <1>3, <1>6, <2>1
    <3>4. \A g, h \in hooks' : g.serial = h.serial => g = h
      BY <2>1 DEF RouterInv, Numbered
    <3> QED BY <3>1, <3>2, <3>3, <3>4 DEF Numbered
  <2>4. HooksCurrent'
    BY <1>1, <1>2, <1>4, <1>6, <2>1 DEF RouterInv, HooksCurrent, Current, HookEarned
  <2>5. EntryEarned'
    BY <1>4, <2>1 DEF RouterInv, EntryEarned, Earned, Kept
  <2>6. ChoiceMade'
    BY <1>0, <1>1, <1>2, <1>4, <1>7, <2>1, DeskFacts DEF RouterInv, ChoiceMade, ChoiceOf
  <2> QED BY <1>5, <2>2, <2>3, <2>4, <2>5, <2>6 DEF RouterInv
<1>8. CASE ~Overloaded(r)
  <2> PICK h : h = [run |-> r, id |-> e.id, serial |-> n, by |-> q,
                    step |-> IF desk.mode = "console" THEN "gateway" ELSE "member",
                    developer |-> FALSE, admin |-> FALSE]
    OBVIOUS
  <2>1. entry' = [entry EXCEPT ![r] = e] /\ hooks' \in {hooks, hooks \cup {h}}
    BY <1>8 DEF Resolve
  <2>2. /\ e \in Entries /\ e.id = n + used.attempt
        /\ e.requester = q /\ ~e.admin /\ ~e.developer /\ ~e.restrictedEligible
    BY <1>0, <1>6, BegunEffect
  <2>3. h \in Hooks /\ h.run = r /\ h.id = e.id /\ h.serial = n /\ h.by = q /\ h.step # "role"
        /\ ~h.developer /\ ~h.admin
    BY <1>0, <1>6, <2>2 DEF Hooks, Entries
  <2>4. entry' \in [Runs -> Entries \cup {None}] /\ entry'[r] = e /\ \A s \in Runs \ {r} : entry'[s] = entry[s]
    BY <1>0, <2>1, <2>2 DEF RouterTypes
  <2>5. Kept' = Kept \cup {r}
    BY <1>0, <2>2, <2>4, DeskFacts DEF Kept
  <2>6. RouterTypes'
    BY <1>0, <1>2, <1>3, <1>4, <2>1, <2>3, <2>4 DEF RouterTypes
  <2>7. Numbered'
    <3>1. \A s \in Kept' : entry'[s].id <= used'.resolve + used'.attempt
      <4>1. ASSUME NEW s \in Kept, s # r PROVE entry'[s].id <= used'.resolve + used'.attempt
        <5>1. entry'[s] = entry[s]
          BY <4>1, <2>4 DEF Kept
        <5> QED BY <5>1, <1>3, <1>6
      <4>2. entry'[r].id <= used'.resolve + used'.attempt
        BY <1>3, <1>6, <2>2, <2>4
      <4> QED BY <4>1, <4>2, <2>5
    <3>2. \A s \in Runs : truth'[s].serial <= used'.resolve
      <4>1. truth'[r].serial <= used'.resolve
        BY <1>1, <1>3, <1>4, <1>6
      <4>2. ASSUME NEW s \in Runs, s # r PROVE truth'[s].serial <= used'.resolve
        BY <4>2, <1>3, <1>4, <1>6
      <4> QED BY <4>1, <4>2
    <3>3. \A g \in hooks' : g.id <= used'.resolve + used'.attempt /\ g.serial <= used'.resolve
      BY <1>3, <1>6, <2>1, <2>2, <2>3
    <3>4. \A f, g \in hooks' : f.serial = g.serial => f = g
      <4>1. \A f, g \in hooks : f.serial = g.serial => f = g
        BY DEF RouterInv, Numbered
      <4>2. \A f \in hooks : f.serial # h.serial
        BY <1>6, <2>3
      <4> HIDE DEF n
      <4> QED BY <4>1, <4>2, <2>1
    <3> QED BY <3>1, <3>2, <3>3, <3>4 DEF Numbered
  <2>8. HooksCurrent'
    <3> SUFFICES ASSUME NEW g \in hooks'
                 PROVE  /\ g.run \in DOMAIN asked'
                        /\ g.run \in Kept' /\ entry'[g.run].id = g.id => Current(g)'
                        /\ Current(g)' => /\ HookEarned(g, truth[g.run])'
                                          /\ g.run \in Kept' => ~entry'[g.run].restrictedEligible
      BY DEF HooksCurrent
    <3>1. CASE g = h
      BY <3>1, <1>0, <1>1, <1>2, <1>4, <2>2, <2>3, <2>4 DEF Current, HookEarned
    <3>2. CASE g \in hooks /\ g.run = r
      BY <3>2, <1>1, <1>2, <1>4, <1>6, <2>2, <2>4 DEF Current, Hooks
    <3>3. CASE g \in hooks /\ g.run # r
      BY <3>3, <1>2, <1>4, <1>6, <2>4, <2>5 DEF RouterInv, HooksCurrent, Current, HookEarned
    <3> QED BY <3>1, <3>2, <3>3, <2>1
  <2>9. EntryEarned'
    <3> SUFFICES ASSUME NEW s \in Kept' PROVE Earned(entry'[s], truth'[s])
      BY DEF EntryEarned, Earned
    <3>1. CASE s = r
      BY <3>1, <1>1, <1>4, <2>2, <2>4 DEF Earned
    <3>2. CASE s # r
      BY <3>2, <1>4, <2>4, <2>5 DEF RouterInv, EntryEarned, Earned, Kept
    <3> QED BY <3>1, <3>2
  <2>10. ChoiceMade'
    <3> SUFFICES ASSUME NEW s \in DOMAIN asked, asked[s] = AutoModel, ~truth'[s].refused
                 PROVE  /\ truth'[s].serial > 0 /\ s \notin over => s \in Kept'
                        /\ s \in Kept' => ChoiceOf(entry'[s], truth'[s])
      BY <1>2 DEF ChoiceMade, ChoiceOf
    <3>1. CASE s = r
      <4>1. s \in Kept' /\ ~truth[r].refused
        BY <3>1, <1>1, <1>4, <2>5
      <4>2. CASE r \in Kept
        <5>1. ChoiceOf(entry[r], truth[r])
          BY <4>1, <4>2, <3>1 DEF RouterInv, ChoiceMade
        <5>2. e.requested = entry[r].requested /\ e.manual = entry[r].manual
              /\ e.codingEligible = entry[r].codingEligible
          BY <1>0, <4>2, <3>1, BegunEffect
        <5> QED BY <5>1, <5>2, <3>1, <4>1, <1>1, <1>4, <2>4 DEF ChoiceOf
      <4>3. CASE r \notin Kept
        <5>1. e.requested = None /\ ~e.manual /\ ~e.codingEligible
          BY <1>0, <4>3, <3>1, BegunEffect
        <5> QED BY <5>1, <3>1, <4>1, <1>4, <2>4 DEF ChoiceOf
      <4> QED BY <4>2, <4>3
    <3>2. CASE s # r
      BY <3>2, <1>0, <1>4, <2>4, <2>5, DeskFacts DEF RouterInv, ChoiceMade
    <3> QED BY <3>1, <3>2
  <2> QED BY <1>5, <2>6, <2>7, <2>8, <2>9, <2>10 DEF RouterInv
<1> QED BY <1>7, <1>8
-----------------------------------------------------------------------------
(* A resolution goes on                                                      *)

Holds(h) == h.run \in Kept /\ entry[h.run].id = h.id
MayWrite(h, e) == entry' = entry \/ (Holds(h) /\ entry' = [entry EXCEPT ![h.run] = e])
GoesOnAs(h, g) == /\ g \in Hooks /\ g.run = h.run /\ g.id = h.id /\ g.serial = h.serial
                  /\ Current(h) => HookEarned(g, truth[h.run])

\* A step of the hook h that goes on as g or ends, with t what is now known of the
\* resolution, and e what it leaves in the entry if it still can write.
LEMMA HookMoves ==
  ASSUME RouterInv, NEW h \in hooks, NEW g, NEW next \in {{}, {g}}, GoesOn(h, next), HookLeaves,
         next = {g} => GoesOnAs(h, g),
         NEW t \in Truths, truth' = [truth EXCEPT ![h.run] = t],
         t.serial = truth[h.run].serial, t.by = truth[h.run].by, t.seen = truth[h.run].seen,
         t.refused = truth[h.run].refused, truth[h.run].chosen \subseteq t.chosen,
         truth[h.run].coding => t.coding, t.verdict = truth[h.run].verdict \/ Current(h),
         NEW e,
         MayWrite(h, e),
         Holds(h) /\ entry' # entry =>
           /\ e \in Entries /\ e.id = h.id /\ Earned(e, t)
           /\ asked[h.run] = AutoModel /\ ChoiceOf(entry[h.run], truth[h.run]) => ChoiceOf(e, t)
           /\ next = {g} => ~e.restrictedEligible
  PROVE  RouterInv'
<1> DEFINE r == h.run
<1>0. /\ RouterTypes /\ r \in Runs /\ r \in DOMAIN asked /\ h.serial \in Nat
      /\ hooks' = (hooks \ {h}) \cup next
      /\ UNCHANGED <<desk, rights, asked, over, toolCall, used, passes, allowed>>
  BY NumberFacts DEF RouterInv, GoesOn, HookLeaves
<1> USE DEF MayWrite, GoesOnAs
<1>1. truth' \in [Runs -> Truths] /\ truth'[r] = t /\ \A s \in Runs \ {r} : truth'[s] = truth[s]
  BY <1>0 DEF RouterTypes
<1>2. \A s \in Runs : truth'[s].serial = truth[s].serial /\ truth'[s].by = truth[s].by
                      /\ truth'[s].seen = truth[s].seen /\ truth'[s].refused = truth[s].refused
                      /\ truth[s].chosen \subseteq truth'[s].chosen /\ (truth[s].coding => truth'[s].coding)
  BY <1>1
<1>3. ASSUME entry' # entry
      PROVE  /\ Holds(h) /\ e \in Entries /\ e.id = h.id /\ entry[r].id = h.id /\ entry'[r] = e /\ e # None
             /\ \A s \in Runs \ {r} : entry'[s] = entry[s]
             /\ entry' \in [Runs -> Entries \cup {None}]
  <2>1. Holds(h) /\ entry' = [entry EXCEPT ![r] = e] /\ e \in Entries /\ e.id = h.id
    BY <1>3
  <2>2. entry \in [Runs -> Entries \cup {None}] /\ entry[r].id = h.id /\ e # None
    BY <1>0, <2>1, DeskFacts DEF RouterTypes, Holds
  <2> QED BY <1>0, <2>1, <2>2
<1>4. /\ entry' \in [Runs -> Entries \cup {None}] /\ Kept' = Kept
      /\ \A s \in Kept : entry'[s].id = entry[s].id
      /\ \A s \in Runs \ {r} : entry'[s] = entry[s]
  <2>1. CASE entry' = entry
    BY <2>1, <1>0 DEF Kept, RouterTypes
  <2>2. CASE entry' # entry
    <3>1. Kept' = Kept
      BY <2>2, <1>3 DEF Kept, Holds
    <3>2. \A s \in Kept : entry'[s].id = entry[s].id
      BY <2>2, <1>3 DEF Kept
    <3> QED BY <3>1, <3>2, <2>2, <1>3
  <2> QED BY <2>1, <2>2
<1>5. RouterTypes'
  BY <1>0, <1>1, <1>4 DEF RouterTypes
<1>6. Numbered'
  <2>1. \A f \in hooks' : f.id <= used.resolve + used.attempt /\ f.serial <= used.resolve
    BY <1>0 DEF RouterInv, Numbered
  <2>2. \A f, k \in hooks' : f.serial = k.serial => f = k
    BY <1>0 DEF RouterInv, Numbered
  <2>3. \A s \in Kept' : entry'[s].id <= used.resolve + used.attempt
    BY <1>4 DEF RouterInv, Numbered
  <2>4. \A s \in Runs : truth'[s].serial <= used.resolve
    BY <1>2 DEF RouterInv, Numbered
  <2> QED BY <1>0, <2>1, <2>2, <2>3, <2>4 DEF Numbered
<1>7. HooksCurrent'
  <2> SUFFICES ASSUME NEW f \in hooks'
               PROVE  /\ f.run \in DOMAIN asked'
                      /\ f.run \in Kept' /\ entry'[f.run].id = f.id => Current(f)'
                      /\ Current(f)' => /\ HookEarned(f, truth[f.run])'
                                        /\ f.run \in Kept' => ~entry'[f.run].restrictedEligible
    BY DEF HooksCurrent
  <2>1. CASE f \in hooks \ {h}
    <3>1. /\ f.run \in DOMAIN asked /\ f.run \in Runs
          /\ f.run \in Kept /\ entry[f.run].id = f.id => Current(f)
          /\ Current(f) => HookEarned(f, truth[f.run]) /\ (f.run \in Kept => ~entry[f.run].restrictedEligible)
      BY <2>1, NumberFacts DEF RouterInv, HooksCurrent
    <3>2. Current(f)' = Current(f) /\ (HookEarned(f, truth[f.run]) => HookEarned(f, truth[f.run])')
      BY <3>1, <1>0, <1>2 DEF Current, HookEarned
    <3>3. ASSUME Current(f), f.run = r, entry' # entry PROVE FALSE
      <4>1. Current(h)
        BY <3>3, <1>3 DEF RouterInv, HooksCurrent, Holds
      <4>2. f.serial = h.serial
        BY <3>3, <4>1 DEF Current
      <4> QED BY <2>1, <4>2 DEF RouterInv, Numbered
    <3>4. Current(f) => (f.run \in Kept => ~entry'[f.run].restrictedEligible)
      BY <3>1, <3>3, <1>4
    <3> QED BY <3>1, <3>2, <3>4, <1>0, <1>4
  <2>2. CASE f \notin hooks \ {h}
    <3>1. f = g /\ next = {g} /\ f.run = r /\ f.id = h.id /\ f.serial = h.serial
      BY <2>2, <1>0
    <3>2. /\ r \in Kept /\ entry[r].id = h.id => Current(h)
          /\ Current(h) => (r \in Kept => ~entry[r].restrictedEligible)
      BY DEF RouterInv, HooksCurrent
    <3>3. Current(f)' = Current(h)
      BY <3>1, <1>0, <1>2 DEF Current
    <3>4. Current(h) => HookEarned(f, truth[f.run])'
      BY <3>1, <1>0, <1>2 DEF HookEarned
    <3>5. Current(h) => (r \in Kept => ~entry'[r].restrictedEligible)
      BY <3>1, <3>2, <1>3
    <3> QED BY <3>1, <3>2, <3>3, <3>4, <3>5, <1>0, <1>4
  <2> QED BY <2>1, <2>2
<1>8. EntryEarned'
  <2> SUFFICES ASSUME NEW s \in Kept PROVE Earned(entry'[s], truth'[s])
    BY <1>4 DEF EntryEarned, Earned
  <2>1. Earned(entry[s], truth[s]) /\ s \in Runs
    BY DEF RouterInv, EntryEarned, Kept
  <2>2. CASE s # r
    BY <2>1, <2>2, <1>1, <1>4
  <2>3. CASE s = r /\ entry' # entry
    BY <2>3, <1>1, <1>3
  <2>4. CASE s = r /\ entry' = entry
    <3>1. Current(h) => ~entry[r].restrictedEligible
      BY <2>4 DEF RouterInv, HooksCurrent
    <3> QED BY <3>1, <2>1, <2>4, <1>1 DEF Earned
  <2> QED BY <2>2, <2>3, <2>4
<1>9. ChoiceMade'
  <2> SUFFICES ASSUME NEW s \in DOMAIN asked, asked[s] = AutoModel, ~truth'[s].refused
               PROVE  /\ truth'[s].serial > 0 /\ s \notin over => s \in Kept
                      /\ s \in Kept => ChoiceOf(entry'[s], truth'[s])
    BY <1>0, <1>4 DEF ChoiceMade, ChoiceOf
  <2>1. s \in Runs
    BY <1>0, DeskFacts
  <2>2. /\ truth[s].serial > 0 /\ s \notin over => s \in Kept
        /\ s \in Kept => ChoiceOf(entry[s], truth[s])
    BY <2>1, <1>2 DEF RouterInv, ChoiceMade
  <2>3. s \in Kept => ChoiceOf(entry'[s], truth'[s])
    <3>1. CASE s = r /\ entry' # entry
      BY <3>1, <2>2, <1>1, <1>3
    <3>2. CASE entry'[s] = entry[s]
      BY <3>2, <2>1, <2>2, <1>2 DEF ChoiceOf
    <3> QED BY <3>1, <3>2, <2>1, <1>4
  <2> QED BY <2>1, <2>2, <2>3, <1>2
<1>10. ToolsAsked' /\ DevelopmentFresh' /\ EarnedRoute' /\ ChosenFirst'
  <2>1. ToolsAsked' /\ DevelopmentFresh'
    BY <1>0 DEF RouterInv, ToolsAsked, DevelopmentFresh
  <2> QED BY <2>1, <1>0, PassedQuiet
<1> QED BY <1>5, <1>6, <1>7, <1>8, <1>9, <1>10 DEF RouterInv
Learns(h, e) ==
  LET f == entry[h.run] IN
  /\ e \in Entries /\ e.id = f.id /\ e.requester = f.requester /\ e.manual = f.manual
  /\ e.requested = f.requested /\ e.codingEligible = f.codingEligible
  /\ e.restrictedEligible = f.restrictedEligible
  /\ e.developer => f.developer \/ (Current(h) => Developer \subseteq truth[h.run].seen)
  /\ e.admin => f.admin \/ (Current(h) => "admin" \in truth[h.run].seen \/ NoneReserved)

\* A step that finds something out about the requester and decides nothing: e is what
\* it leaves in the entry.
LEMMA HookLearns ==
  ASSUME RouterInv, NEW h \in hooks, NEW g, NEW next \in {{}, {g}}, GoesOn(h, next), HookLeaves,
         next = {g} => GoesOnAs(h, g),
         UNCHANGED truth, NEW e,
         MayWrite(h, e),
         Holds(h) => Learns(h, e)
  PROVE  RouterInv'
<1> PICK t : t = truth[h.run]
  OBVIOUS
<1>1. t \in Truths /\ truth' = [truth EXCEPT ![h.run] = t]
  BY NumberFacts DEF RouterInv, RouterTypes
<1>2. ASSUME Holds(h)
      PROVE  /\ e \in Entries /\ e.id = h.id /\ Earned(e, t)
             /\ ChoiceOf(entry[h.run], truth[h.run]) => ChoiceOf(e, t)
             /\ ~e.restrictedEligible
  <2>1. Current(h) /\ Earned(entry[h.run], t) /\ entry[h.run].id = h.id /\ ~entry[h.run].restrictedEligible
    BY <1>2 DEF RouterInv, HooksCurrent, EntryEarned, Holds
  <2> QED BY <1>2, <2>1 DEF Earned, ChoiceOf, Learns
<1> QED BY <1>1, <1>2, HookMoves

\* The rights that a current hook sees now are among those its requester had.
LEMMA HookSees ==
  ASSUME RouterInv, NEW h \in hooks
  PROVE  /\ h \in Hooks
         /\ Current(h) => HookEarned(h, truth[h.run]) /\ rights[h.by] \subseteq truth[h.run].seen
         /\ Holds(h) => entry[h.run] \in Entries
BY DEF RouterInv, RouterTypes, HooksCurrent, HookEarned, Holds, Kept

LEMMA HookGatewayKeeps ==
  ASSUME RouterInv, NEW h \in hooks, HookGateway(h)
  PROVE  RouterInv'
<1> PICK g : g = [h EXCEPT !.step = "member"]
  OBVIOUS
<1> PICK e : e = [entry[h.run] EXCEPT !.gatewayUnavailable = FALSE]
  OBVIOUS
<1>1. HookLeaves /\ UNCHANGED truth
  BY DEF HookGateway
<1>2. GoesOnAs(h, g)
  BY HookSees DEF GoesOnAs, Hooks, HookEarned
<1>3. ASSUME Holds(h) PROVE Learns(h, e)
  BY <1>3, HookSees DEF Entries, Learns
<1>4. PICK next \in {{}, {g}} : GoesOn(h, next) /\ MayWrite(h, e)
  BY DEF HookGateway, Writes, Of, Holds, MayWrite
<1> QED BY <1>1, <1>2, <1>3, <1>4, HookLearns

\* The answer about the requester: a yes needs the rights.
LEMMA DeveloperKeeps ==
  ASSUME RouterInv, NEW h \in hooks, NEW developer \in BOOLEAN, DeveloperKnown(h, developer), HookLeaves,
         UNCHANGED truth, developer => h.step = "role" /\ "role" \in rights[h.by]
  PROVE  RouterInv'
<1> PICK g : g = [h EXCEPT !.step = "admin", !.developer = developer]
  OBVIOUS
<1> PICK e : e = [entry[h.run] EXCEPT !.developer = developer]
  OBVIOUS
<1>1. developer /\ Current(h) => Developer \subseteq truth[h.run].seen
  BY HookSees DEF HookEarned, Developer
<1>2. GoesOnAs(h, g)
  BY <1>1, HookSees DEF GoesOnAs, Hooks, HookEarned
<1>3. ASSUME Holds(h) PROVE Learns(h, e)
  BY <1>1, <1>3, HookSees DEF Entries, Learns
<1>4. PICK next \in {{}, {g}} : GoesOn(h, next) /\ MayWrite(h, e)
  BY DEF DeveloperKnown, Writes, Of, Holds, MayWrite
<1> QED BY <1>1, <1>2, <1>3, <1>4, HookLearns

LEMMA HookMemberKeeps ==
  ASSUME RouterInv, NEW h \in hooks, HookMember(h)
  PROVE  RouterInv'
<1>1. HookLeaves /\ UNCHANGED truth
  BY DEF HookMember
<1>2. CASE DeveloperKnown(h, FALSE)
  BY <1>1, <1>2, DeveloperKeeps
<1>3. CASE ~DeveloperKnown(h, FALSE)
  <2> PICK g : g = [h EXCEPT !.step = "role"]
    OBVIOUS
  <2>1. "member" \in rights[h.by] /\ GoesOn(h, {g}) /\ UNCHANGED entry
    BY <1>3 DEF HookMember
  <2>2. GoesOnAs(h, g)
    BY <2>1, HookSees DEF GoesOnAs, Hooks, HookEarned
  <2>3. Holds(h) => Learns(h, entry[h.run])
    BY HookSees DEF Learns
  <2>4. PICK next \in {{}, {g}} : next = {g}
    OBVIOUS
  <2>5. MayWrite(h, entry[h.run]) /\ GoesOn(h, next)
    BY <2>1, <2>4 DEF MayWrite
  <2> QED BY <1>1, <2>2, <2>3, <2>5, HookLearns
<1> QED BY <1>2, <1>3

LEMMA HookRoleKeeps ==
  ASSUME RouterInv, NEW h \in hooks, HookRole(h)
  PROVE  RouterInv'
<1>1. HookLeaves /\ UNCHANGED truth /\ h.step = "role"
  BY DEF HookRole
<1>2. CASE DeveloperKnown(h, FALSE)
  BY <1>1, <1>2, DeveloperKeeps
<1>3. CASE "role" \in rights[h.by] /\ DeveloperKnown(h, TRUE)
  BY <1>1, <1>3, DeveloperKeeps
<1> QED BY <1>2, <1>3 DEF HookRole

LEMMA HookAdminKeeps ==
  ASSUME RouterInv, NEW h \in hooks, HookAdmin(h)
  PROVE  RouterInv'
<1>1. PICK admin \in AdminAnswers(h.by) :
        /\ Writes(h, [Of(h) EXCEPT !.admin = admin])
        /\ GoesOn(h, {[h EXCEPT !.step = "decide", !.admin = admin]})
  BY DEF HookAdmin
<1> PICK g : g = [h EXCEPT !.step = "decide", !.admin = admin]
  OBVIOUS
<1> PICK e : e = [entry[h.run] EXCEPT !.admin = admin]
  OBVIOUS
<1>2. HookLeaves /\ UNCHANGED truth /\ admin \in BOOLEAN
      /\ (admin => "admin" \in rights[h.by] \/ NoneReserved)
  BY <1>1 DEF HookAdmin, AdminAnswers, NoneReserved
<1>3. Current(h) /\ admin => "admin" \in truth[h.run].seen \/ NoneReserved
  BY <1>2, HookSees
<1>4. GoesOnAs(h, g)
  <2>1. h \in Hooks /\ g.step = "decide" /\ g.admin = admin /\ g \in Hooks /\ g.by = h.by
        /\ g.run = h.run /\ g.id = h.id /\ g.serial = h.serial /\ g.developer = h.developer
    BY <1>2, HookSees DEF Hooks
  <2> QED BY <2>1, <1>3, HookSees DEF GoesOnAs, HookEarned
<1>5. ASSUME Holds(h) PROVE Learns(h, e)
  BY <1>2, <1>3, <1>5, HookSees DEF Entries, Learns
<1>6. PICK next \in {{}, {g}} : GoesOn(h, next) /\ MayWrite(h, e)
  BY <1>1 DEF Writes, Of, Holds, MayWrite
<1> QED BY <1>2, <1>4, <1>5, <1>6, HookLearns

\* The decision: what it finds is known of the resolution from now on, whether or not
\* the entry still takes it.
LEMMA HookDecideKeeps ==
  ASSUME RouterInv, NEW h \in hooks, HookDecide(h)
  PROVE  RouterInv'
<1> DEFINE r == h.run
<1>1. HookLeaves /\ GoesOn(h, {}) /\ {} \in {{}, {h}}
  BY DEF HookDecide
<1>2. CASE UNCHANGED <<entry, truth>>
  <2>1. UNCHANGED truth /\ MayWrite(h, entry[r]) /\ (Holds(h) => Learns(h, entry[r])) /\ {} # {h}
    BY <1>2, HookSees DEF MayWrite, Learns
  <2> QED BY <1>1, <2>1, HookLearns
<1>3. CASE ~UNCHANGED <<entry, truth>>
  <2>1. PICK o \in desk.outcomes :
          LET selected == Selection(o, h.admin, h.developer)
              requested == IF asked[r] = AutoModel THEN selected.route ELSE asked[r]
          IN  /\ selected.route # None
              /\ Writes(h, [Of(h) EXCEPT !.requested = requested, !.codingEligible = selected.codingEligible,
                                         !.restrictedEligible = selected.restrictedEligible])
              /\ truth' = [truth EXCEPT ![r] =
                   [truth[r] EXCEPT !.verdict = IF h.serial = truth[r].serial THEN o ELSE @,
                             !.chosen = @ \cup {requested}, !.coding = @ \/ o.task = "coding"]]
    BY <1>3 DEF HookDecide
  <2> PICK s : s = Selection(o, h.admin, h.developer)
    OBVIOUS
  <2> PICK x : x = IF asked[r] = AutoModel THEN s.route ELSE asked[r]
    OBVIOUS
  <2> PICK e : e = [entry[r] EXCEPT !.requested = x, !.codingEligible = s.codingEligible,
                                    !.restrictedEligible = s.restrictedEligible]
    OBVIOUS
  <2> PICK t : t = [truth[r] EXCEPT !.verdict = IF Current(h) THEN o ELSE @,
                                    !.chosen = @ \cup {x}, !.coding = @ \/ o.task = "coding"]
    OBVIOUS
  <2>2. o \in Outcomes /\ r \in Runs /\ r \in desk.runs /\ h \in Hooks /\ o # None
    BY DeskFacts, NumberFacts, HookSees DEF RouterInv
  <2>3. /\ s.route \in Routes /\ (Plan(s.route) => o.task = "coding")
        /\ s.codingEligible = (o.task = "coding") /\ s.restrictedEligible \in BOOLEAN
        /\ s.restrictedEligible => o.task = "coding" /\ o.complex
    BY <2>1, <2>2, SelectionSafe DEF Hooks
  <2>4. x \in Routes
    BY <2>2, <2>3, DeskFacts DEF RouterInv
  <2>5. truth[r] \in Truths
    BY <2>2 DEF RouterInv, RouterTypes
  <2>6. /\ t \in Truths /\ t.serial = truth[r].serial /\ t.by = truth[r].by /\ t.seen = truth[r].seen
        /\ t.refused = truth[r].refused /\ t.chosen = truth[r].chosen \cup {x}
        /\ t.coding = (truth[r].coding \/ o.task = "coding")
        /\ t.verdict = IF Current(h) THEN o ELSE truth[r].verdict
    BY <2>2, <2>4, <2>5 DEF Truths
  <2>7. truth' = [truth EXCEPT ![r] = t]
    BY <2>1 DEF Current
  <2>8. MayWrite(h, e)
    BY <2>1 DEF Writes, Of, Holds, MayWrite
  <2>9. ASSUME Holds(h)
        PROVE  /\ e \in Entries /\ e.id = h.id /\ Earned(e, t)
               /\ asked[r] = AutoModel /\ ChoiceOf(entry[r], truth[r]) => ChoiceOf(e, t)
    <3>1. entry[r] \in Entries /\ entry[r].id = h.id /\ Current(h) /\ Earned(entry[r], truth[r])
      BY <2>9, HookSees DEF RouterInv, HooksCurrent, EntryEarned, Holds
    <3>2. /\ e \in Entries /\ e.id = h.id /\ e.requester = entry[r].requester /\ e.manual = entry[r].manual
          /\ e.admin = entry[r].admin /\ e.developer = entry[r].developer /\ e.requested = x
          /\ e.codingEligible = s.codingEligible /\ e.restrictedEligible = s.restrictedEligible
      <4>1. s.codingEligible \in BOOLEAN /\ s.restrictedEligible \in BOOLEAN
        BY <2>3
      <4> HIDE DEF r
      <4> QED BY <2>4, <3>1, <4>1 DEF Entries
    <3>3. Earned(e, t)
      BY <2>2, <2>3, <2>6, <3>1, <3>2 DEF Earned
    <3>4. ASSUME asked[r] = AutoModel, ChoiceOf(entry[r], truth[r]) PROVE ChoiceOf(e, t)
      <4>1. Plan(x) => t.coding
        BY <2>3, <2>6, <3>4
      <4> QED BY <4>1, <3>4, <2>3, <2>6, <3>2 DEF ChoiceOf
    <3> QED BY <3>2, <3>3, <3>4
  <2>10. /\ truth[r].chosen \subseteq t.chosen /\ (truth[r].coding => t.coding) /\ {} # {h}
         /\ t.verdict = truth[r].verdict \/ Current(h)
    BY <2>6
  <2> QED
    <3>1. PICK next \in {{}, {h}} : GoesOn(h, next) /\ next # {h}
      BY <1>1, <2>10
    <3>2. /\ t \in Truths /\ truth' = [truth EXCEPT ![h.run] = t]
          /\ t.serial = truth[h.run].serial /\ t.by = truth[h.run].by /\ t.seen = truth[h.run].seen
          /\ t.refused = truth[h.run].refused /\ truth[h.run].chosen \subseteq t.chosen
          /\ truth[h.run].coding => t.coding
          /\ t.verdict = truth[h.run].verdict \/ Current(h)
      BY <2>6, <2>7, <2>10
    <3>3. Holds(h) /\ entry' # entry =>
             /\ e \in Entries /\ e.id = h.id /\ Earned(e, t)
             /\ asked[h.run] = AutoModel /\ ChoiceOf(entry[h.run], truth[h.run]) => ChoiceOf(e, t)
             /\ next = {h} => ~e.restrictedEligible
      BY <2>9, <3>1
    <3> HIDE DEF r
    <3> QED BY ZenonT(60), <1>1, <2>8, <3>1, <3>2, <3>3, HookMoves
<1> QED BY <1>2, <1>3
-----------------------------------------------------------------------------
(* An attempt                                                                *)

LEMMA PassedAppend ==
  ASSUME RouterTypes, NEW r \in Runs, NEW p, passes' = [passes EXCEPT ![r] = Append(@, p)]
  PROVE  /\ Passed(r)' = Passed(r) \cup {p}
         /\ \A s \in Runs \ {r} : Passed(s)' = Passed(s)
<1>1. passes[r] \in Seq(Passes) /\ passes'[r] = Append(passes[r], p)
      /\ \A s \in Runs \ {r} : passes'[s] = passes[s]
  BY DEF RouterTypes
<1>2. ToSet(Append(passes[r], p)) = ToSet(passes[r]) \cup {p}
  BY <1>1 DEF ToSet
<1> QED BY <1>1, <1>2 DEF Passed

\* What an attempt in the name of q with route x has behind it.
LEMMA PassEarned ==
  ASSUME RouterInv, NEW r \in Runs, NEW q \in Requesters, NEW x \in Routes, MayPass(r, q, x)
  PROVE  LET t == truth[r]
             complex == t.by = q /\ t.verdict # None /\ t.verdict.task = "coding" /\ t.verdict.complex
         IN  /\ Access(x) = "admin" => complex /\ "admin" \in t.seen /\ q \in AdminSenders
             /\ Access(x) = "developer" => complex /\ Developer \subseteq t.seen
             /\ q \in DevAgents => t.by = q /\ Developer \subseteq t.seen
<1> DEFINE t == truth[r]
<1>1. r \in Kept => Earned(entry[r], t)
  BY DEF RouterInv, EntryEarned
<1>2. q # None
  BY DeskFacts DEF RouterInv
<1>3. q \in DevAgents => t.by = q /\ Developer \subseteq t.seen
  BY <1>1, <1>2 DEF MayPass, DevelopmentOpen, Earned
<1>4. ASSUME Restricted(x)
      PROVE  /\ r \in Kept /\ entry[r].requester = q /\ entry[r].restrictedEligible
             /\ AccessAllowed(x, entry[r].admin, entry[r].developer)
             /\ Access(x) = "admin" => q \in AdminSenders
  BY <1>4 DEF MayPass, ReservedOpen
<1>5. Restricted(x) => t.by = q /\ t.verdict # None /\ t.verdict.task = "coding" /\ t.verdict.complex
  BY <1>1, <1>2, <1>4 DEF Earned
<1>6. Access(x) = "admin" => "admin" \in t.seen /\ q \in AdminSenders
  <2> SUFFICES ASSUME Access(x) = "admin" PROVE "admin" \in t.seen /\ q \in AdminSenders
    OBVIOUS
  <2>1. Restricted(x)
    BY DEF Restricted
  <2>2. entry[r].admin /\ q \in AdminSenders /\ r \in Kept
    BY <2>1, <1>4 DEF AccessAllowed
  <2> QED BY <2>1, <2>2, <1>1 DEF Earned, NoneReserved
<1>7. Access(x) = "developer" => Developer \subseteq t.seen
  <2> SUFFICES ASSUME Access(x) = "developer" PROVE Developer \subseteq t.seen
    OBVIOUS
  <2>1. Restricted(x)
    BY DEF Restricted
  <2>2. entry[r].developer /\ r \in Kept
    BY <2>1, <1>4 DEF AccessAllowed
  <2> QED BY <2>2, <1>1 DEF Earned
<1> QED BY <1>3, <1>5, <1>6, <1>7 DEF Restricted

\* An automatic run that was never refused for want of room has an entry with a choice.
LEMMA PassChosen ==
  ASSUME RouterInv, NEW r \in desk.runs, NEW q, NEW x \in Routes, Attempt(r, q, x),
         asked[r] = AutoModel, ~truth[r].refused
  PROVE  /\ r \in Kept /\ ChoiceOf(entry[r], truth[r]) /\ entry[r].requested # None
         /\ truth[r].chosen # {} /\ x \in truth[r].chosen \cup ToSet(FallbackRoutes)
         /\ Plan(x) => truth[r].coding
<1>1. r \in DOMAIN asked /\ truth[r].serial > 0 /\ r \notin over /\ MayPass(r, q, x)
  BY DeskFacts DEF RouterInv, Attempt
<1>2. r \in Kept /\ ChoiceOf(entry[r], truth[r])
  BY <1>1 DEF RouterInv, ChoiceMade
<1>3. Chosen(entry[r], x)
  BY <1>1, <1>2 DEF MayPass
<1>4. entry[r].requested # None /\ entry[r].requested \in truth[r].chosen
      /\ (Plan(entry[r].requested) => truth[r].coding)
  BY <1>2, <1>3 DEF Chosen, ChoiceOf
<1>5. x = entry[r].requested \/ (x \in ToSet(FallbackRoutes) /\ (Plan(x) => truth[r].coding))
  BY <1>2, <1>3, <1>4 DEF Chosen, RequestedOrFallback, Fallback, ChoiceOf
<1> QED BY <1>2, <1>4, <1>5

LEMMA AttemptKeeps ==
  ASSUME RouterInv, NEW r \in desk.runs, NEW q \in desk.people, NEW x \in Routes, Attempt(r, q, x)
  PROVE  RouterInv'
<1> DEFINE n == used.resolve + used.attempt + 1
<1> PICK m : m = Marked(r, x)
  OBVIOUS
<1> PICK e : e = [m EXCEPT !.lastRoute = x, !.fallbackCursor = IF m.lastRoute \in {None, x} THEN @ ELSE @ + 1]
  OBVIOUS
<1> PICK p : p = [route |-> x, by |-> q, truth |-> truth[r]]
  OBVIOUS
<1>0. RouterTypes /\ r \in Runs /\ q \in Requesters /\ r \in DOMAIN asked
  BY DeskFacts DEF RouterInv
<1>1. /\ UNCHANGED <<desk, rights, asked, over, hooks, toolCall, truth, allowed>>
      /\ entry' = [entry EXCEPT ![r] = e] /\ passes' = [passes EXCEPT ![r] = Append(@, p)]
      /\ used' = [used EXCEPT !["attempt"] = @ + 1]
      /\ r \notin over /\ MayPass(r, q, x)
  BY DEF Attempt, Uses
<1>2. /\ used.resolve \in Nat /\ used.attempt \in Nat
      /\ \A h \in hooks : h.serial <= used.resolve /\ h.id < n
      /\ \A h \in hooks : h.run \in Runs /\ h.run \in DOMAIN asked /\ h.serial \in Nat /\ h.id \in Nat
      /\ \A s \in Kept : entry[s].id < n /\ entry[s].id \in Nat
      /\ \A s \in Runs : truth[s].serial <= used.resolve /\ truth[s].serial \in Nat
  BY NumberFacts
<1>3. /\ used' \in [{"resolve", "attempt", "tool", "change"} -> Nat]
      /\ used'.resolve = used.resolve /\ used'.attempt = used.attempt + 1
  BY <1>0, <1>1 DEF RouterTypes
<1>4. /\ e \in Entries /\ e.id = n /\ e.requested = m.requested /\ e.manual = m.manual
      /\ e.requester = m.requester /\ e.admin = m.admin /\ e.developer = m.developer
      /\ e.restrictedEligible = m.restrictedEligible /\ e.codingEligible = m.codingEligible
  <2>1. m \in Entries /\ m.id = n
    BY <1>0, MarkedEffect
  <2>2. m.fallbackCursor + 1 \in Nat
    BY <2>1 DEF Entries
  <2> HIDE DEF n
  <2> QED BY <2>1, <2>2 DEF Entries
<1>5. ASSUME r \in Kept
      PROVE  /\ e.requester = entry[r].requester /\ e.admin = entry[r].admin /\ e.manual = entry[r].manual
             /\ e.developer = entry[r].developer /\ e.restrictedEligible = entry[r].restrictedEligible
             /\ e.codingEligible = entry[r].codingEligible
             /\ entry[r].requested # None => e.requested = entry[r].requested
  BY <1>0, <1>4, <1>5, MarkedEffect
<1>6. ASSUME r \notin Kept
      PROVE  e.requester = None /\ ~e.admin /\ ~e.developer /\ ~e.restrictedEligible
  <2> PICK b : b = Blank(x)
    OBVIOUS
  <2>1. m.requester = b.requester /\ m.admin = b.admin /\ m.developer = b.developer
        /\ m.restrictedEligible = b.restrictedEligible
    BY <1>0, <1>6, MarkedEffect
  <2>2. b.requester = None /\ b.admin = FALSE /\ b.developer = FALSE /\ b.restrictedEligible = FALSE
    BY DEF Blank
  <2> QED BY <1>4, <2>1, <2>2
<1>7. /\ entry' \in [Runs -> Entries \cup {None}] /\ entry'[r] = e
      /\ \A s \in Runs \ {r} : entry'[s] = entry[s]
      /\ Kept' = Kept \cup {r}
  <2>1. /\ entry' \in [Runs -> Entries \cup {None}] /\ entry'[r] = e
        /\ \A s \in Runs \ {r} : entry'[s] = entry[s]
    BY <1>0, <1>1, <1>4 DEF RouterTypes
  <2> QED BY <1>0, <1>4, <2>1, DeskFacts DEF Kept
<1>8. RouterTypes'
  <2>1. truth[r] \in Truths /\ p \in Passes
    BY <1>0 DEF RouterTypes, Passes
  <2>2. passes' \in [Runs -> Seq(Passes)]
    BY <1>0, <1>1, <2>1 DEF RouterTypes
  <2> QED BY <1>0, <1>1, <1>3, <1>7, <2>2 DEF RouterTypes
<1>9. Numbered'
  <2>1. ASSUME NEW s \in Kept' PROVE entry'[s].id <= used'.resolve + used'.attempt
    <3>1. CASE s = r
      BY <3>1, <1>2, <1>3, <1>4, <1>7
    <3>2. CASE s # r
      <4>1. s \in Kept /\ entry'[s] = entry[s]
        BY <3>2, <1>7 DEF Kept
      <4> QED BY <4>1, <1>2, <1>3
    <3> QED BY <3>1, <3>2
  <2>2. \A s \in Runs : truth'[s].serial <= used'.resolve
    BY <1>1, <1>2, <1>3
  <2>3. \A h \in hooks' : h.id <= used'.resolve + used'.attempt /\ h.serial <= used'.resolve
    BY <1>1, <1>2, <1>3
  <2>4. \A g, h \in hooks' : g.serial = h.serial => g = h
    BY <1>1 DEF RouterInv, Numbered
  <2> QED BY <2>1, <2>2, <2>3, <2>4 DEF Numbered
<1>10. HooksCurrent'
  <2> SUFFICES ASSUME NEW h \in hooks
               PROVE  /\ h.run \in DOMAIN asked
                      /\ h.run \in Kept' /\ entry'[h.run].id = h.id => Current(h)
                      /\ Current(h) => /\ HookEarned(h, truth[h.run])
                                       /\ h.run \in Kept' => ~entry'[h.run].restrictedEligible
    BY <1>1 DEF HooksCurrent, Current, HookEarned
  <2>1. /\ h.run \in DOMAIN asked /\ h.run \in Runs /\ h.id < n /\ h.id \in Nat
        /\ h.run \in Kept /\ entry[h.run].id = h.id => Current(h)
        /\ Current(h) => HookEarned(h, truth[h.run]) /\ (h.run \in Kept => ~entry[h.run].restrictedEligible)
    BY <1>2 DEF RouterInv, HooksCurrent
  <2>2. CASE h.run = r
    <3>1. entry'[r].id # h.id
      BY <2>1, <1>2, <1>4, <1>7
    <3>2. Current(h) => ~entry'[r].restrictedEligible
      BY <2>1, <2>2, <1>5, <1>6, <1>7
    <3> QED BY <2>1, <2>2, <3>1, <3>2
  <2>3. CASE h.run # r
    <3>1. entry'[h.run] = entry[h.run] /\ (h.run \in Kept' <=> h.run \in Kept)
      BY <2>1, <2>3, <1>7
    <3> QED BY <2>1, <3>1
  <2> QED BY <2>2, <2>3
<1>11. EntryEarned'
  <2> SUFFICES ASSUME NEW s \in Kept' PROVE Earned(entry'[s], truth[s])
    BY <1>1 DEF EntryEarned, Earned
  <2>1. CASE s = r /\ r \in Kept
    <3>1. Earned(entry[r], truth[r])
      BY <2>1 DEF RouterInv, EntryEarned
    <3> QED BY <3>1, <2>1, <1>5, <1>7 DEF Earned
  <2>2. CASE s = r /\ r \notin Kept
    BY <2>2, <1>6, <1>7 DEF Earned
  <2>3. CASE s # r
    <3>1. s \in Kept /\ entry'[s] = entry[s]
      BY <2>3, <1>7 DEF Kept
    <3> QED BY <3>1 DEF RouterInv, EntryEarned
  <2> QED BY <2>1, <2>2, <2>3
<1>12. ChoiceMade'
  <2> SUFFICES ASSUME NEW s \in DOMAIN asked, asked[s] = AutoModel, ~truth[s].refused
               PROVE  /\ truth[s].serial > 0 /\ s \notin over => s \in Kept'
                      /\ s \in Kept' => ChoiceOf(entry'[s], truth[s])
    BY <1>1 DEF ChoiceMade, ChoiceOf
  <2>1. CASE s = r
    <3>1. r \in Kept /\ ChoiceOf(entry[r], truth[r]) /\ entry[r].requested # None
      BY <2>1, PassChosen
    <3> QED BY <3>1, <2>1, <1>5, <1>7 DEF ChoiceOf
  <2>2. CASE s # r
    <3>1. s \in Runs
      BY <1>0, DeskFacts
    <3>2. entry'[s] = entry[s] /\ (s \in Kept' <=> s \in Kept)
      BY <3>1, <2>2, <1>7
    <3> QED BY <3>2 DEF RouterInv, ChoiceMade
  <2> QED BY <2>1, <2>2
<1>13. ToolsAsked' /\ DevelopmentFresh'
  BY <1>1 DEF RouterInv, ToolsAsked, DevelopmentFresh
<1>14. /\ Passed(r)' = Passed(r) \cup {p} /\ p.route = x /\ p.by = q /\ p.truth = truth[r]
       /\ \A s \in Runs \ {r} : Passed(s)' = Passed(s)
  BY <1>0, <1>1, PassedAppend
<1>15. EarnedRoute'
  <2> SUFFICES ASSUME NEW s \in Runs, NEW k \in Passed(s)'
               PROVE  LET t == k.truth
                          complex == t.by = k.by /\ t.verdict # None /\ t.verdict.task = "coding" /\ t.verdict.complex
                      IN  /\ Access(k.route) = "admin" => complex /\ "admin" \in t.seen /\ k.by \in AdminSenders
                          /\ Access(k.route) = "developer" => complex /\ Developer \subseteq t.seen
                          /\ k.by \in DevAgents => t.by = k.by /\ Developer \subseteq t.seen
    BY DEF EarnedRoute
  <2>1. CASE k \in Passed(s)
    BY <2>1 DEF RouterInv, EarnedRoute
  <2>2. CASE k \notin Passed(s)
    <3>1. s = r /\ k = p
      BY <2>2, <1>14
    <3> QED BY <3>1, <1>0, <1>1, <1>14, PassEarned
  <2> QED BY <2>1, <2>2
<1>16. ChosenFirst'
  <2> SUFFICES ASSUME NEW s \in DOMAIN asked, asked[s] = AutoModel, NEW k \in Passed(s)', ~k.truth.refused
               PROVE  /\ k.truth.chosen # {} /\ k.route \in k.truth.chosen \cup ToSet(FallbackRoutes)
                      /\ Plan(k.route) => k.truth.coding
    BY <1>1 DEF ChosenFirst
  <2>1. CASE k \in Passed(s)
    BY <2>1 DEF RouterInv, ChosenFirst
  <2>2. CASE k \notin Passed(s)
    <3>1. s = r /\ k = p
      BY <2>2, <1>0, <1>14, DeskFacts
    <3> QED BY <3>1, <1>14, PassChosen
  <2> QED BY <2>1, <2>2
<1> QED BY <1>8, <1>9, <1>10, <1>11, <1>12, <1>13, <1>15, <1>16 DEF RouterInv
-----------------------------------------------------------------------------
(* Tool calls, settlement, and rights that change                            *)

\* Steps that change the pending tool calls and what was allowed only.
LEMMA ToolMoves ==
  ASSUME RouterInv, ToolLeaves, used' = used \/ used' = [used EXCEPT !["tool"] = @ + 1],
         toolCall' \in [Runs -> Calls \cup {None}], ToolsAsked', DevelopmentFresh'
  PROVE  RouterInv'
<1>1. UNCHANGED <<desk, rights, asked, entry, over, hooks, truth, passes>>
  BY DEF ToolLeaves
<1>2. used' \in [{"resolve", "attempt", "tool", "change"} -> Nat]
      /\ used'.resolve = used.resolve /\ used'.attempt = used.attempt
  BY DEF RouterInv, RouterTypes
<1>3. RouterTypes' /\ Numbered' /\ EntryEarned'
  BY <1>1, <1>2 DEF RouterInv, RouterTypes, Numbered, EntryEarned, Kept, Earned
<1>4. HooksCurrent' /\ ChoiceMade'
  BY <1>1 DEF RouterInv, HooksCurrent, ChoiceMade, Current, HookEarned, ChoiceOf, Kept
<1>5. EarnedRoute' /\ ChosenFirst'
  BY <1>1, PassedQuiet
<1> QED BY <1>3, <1>4, <1>5 DEF RouterInv

LEMMA ToolAskKeeps ==
  ASSUME RouterInv, NEW r \in desk.runs, NEW q \in desk.people, ToolAsk(r, q)
  PROVE  RouterInv'
<1> PICK c : c = [by |-> q, step |-> "member", seen |-> rights[q]]
  OBVIOUS
<1>1. r \in Runs /\ q \in Requesters /\ RouterTypes /\ rights[q] \subseteq Rights
  BY DeskFacts DEF RouterInv, RouterTypes
<1>2. /\ toolCall' = [toolCall EXCEPT ![r] = c] /\ UNCHANGED allowed /\ ToolLeaves
      /\ used' = [used EXCEPT !["tool"] = @ + 1] /\ UNCHANGED rights
  BY DEF ToolAsk, Uses, ToolLeaves
<1>3. c \in Calls /\ c.by = q /\ c.step = "member" /\ c.seen = rights[q]
  BY <1>1 DEF Calls
<1>4. toolCall' \in [Runs -> Calls \cup {None}]
      /\ toolCall'[r] = c /\ \A s \in Runs \ {r} : toolCall'[s] = toolCall[s]
  BY <1>1, <1>2, <1>3 DEF RouterTypes
<1>5. ToolsAsked' /\ DevelopmentFresh'
  BY <1>2, <1>3, <1>4 DEF RouterInv, ToolsAsked, DevelopmentFresh
<1> QED BY <1>2, <1>4, <1>5, ToolMoves

\* A tool is allowed at the end of a call that found the member and then the role.
LEMMA ToolAnswerKeeps ==
  ASSUME RouterInv, NEW r \in desk.runs, ToolAnswer(r)
  PROVE  RouterInv'
<1> DEFINE c == toolCall[r]
<1>1. r \in Runs /\ RouterTypes /\ c \in Calls /\ ToolLeaves /\ used' = used /\ UNCHANGED rights
      /\ rights[c.by] \subseteq c.seen /\ (c.step = "role" => "member" \in c.seen)
  BY DeskFacts DEF RouterInv, RouterTypes, ToolAnswer, ToolLeaves, ToolsAsked
<1>2. ASSUME toolCall' = [toolCall EXCEPT ![r] = None] PROVE toolCall' \in [Runs -> Calls \cup {None}] /\ ToolsAsked'
  BY <1>1, <1>2 DEF RouterInv, RouterTypes, ToolsAsked
<1>3. CASE toolCall' = [toolCall EXCEPT ![r] = None] /\ UNCHANGED allowed
  BY <1>1, <1>2, <1>3, ToolMoves DEF RouterInv, DevelopmentFresh
<1>4. CASE /\ c.step = "member" /\ "member" \in rights[c.by]
           /\ toolCall' = [toolCall EXCEPT ![r].step = "role"] /\ UNCHANGED allowed
  <2> PICK d : d = [c EXCEPT !.step = "role"]
    OBVIOUS
  <2>1. d \in Calls /\ d.by = c.by /\ d.step = "role" /\ d.seen = c.seen
    BY <1>1 DEF Calls
  <2>2. toolCall' = [toolCall EXCEPT ![r] = d]
    BY <1>4
  <2> HIDE DEF c
  <2>3. toolCall' \in [Runs -> Calls \cup {None}]
        /\ toolCall'[r] = d /\ \A s \in Runs \ {r} : toolCall'[s] = toolCall[s]
    BY <1>1, <2>1, <2>2 DEF RouterTypes
  <2>4. ToolsAsked' /\ DevelopmentFresh'
    BY <1>1, <1>4, <2>1, <2>3 DEF RouterInv, ToolsAsked, DevelopmentFresh
  <2> QED BY <1>1, <2>3, <2>4, ToolMoves
<1>5. CASE /\ c.step = "role" /\ "role" \in rights[c.by]
           /\ toolCall' = [toolCall EXCEPT ![r] = None] /\ allowed' = allowed \cup {c.seen}
  <2>1. Developer \subseteq c.seen
    BY <1>1, <1>5 DEF Developer
  <2>2. DevelopmentFresh'
    BY <2>1, <1>5 DEF RouterInv, DevelopmentFresh
  <2> QED BY <1>1, <1>2, <1>5, <2>2, ToolMoves
<1> QED BY <1>3, <1>4, <1>5 DEF ToolAnswer

LEMMA SettleKeeps ==
  ASSUME RouterInv, NEW r \in desk.runs, Settle(r)
  PROVE  RouterInv'
<1>0. RouterTypes /\ r \in Runs
  BY DeskFacts DEF RouterInv
<1>1. /\ UNCHANGED <<desk, rights, asked, hooks, toolCall, used, truth, passes, allowed>>
      /\ over' = over \cup {r} /\ entry' = [entry EXCEPT ![r] = None]
  BY DEF Settle
<1>2. /\ entry' \in [Runs -> Entries \cup {None}] /\ Kept' = Kept \ {r}
      /\ \A s \in Runs \ {r} : entry'[s] = entry[s]
  BY <1>0, <1>1 DEF RouterTypes, Kept
<1>3. RouterTypes'
  BY <1>0, <1>1, <1>2 DEF RouterTypes
<1>4. \A s \in Kept' : s \in Kept /\ s \in Runs /\ s # r /\ entry'[s] = entry[s]
  BY <1>2 DEF Kept
<1>5. Numbered' /\ EntryEarned'
  BY <1>1, <1>4 DEF RouterInv, Numbered, EntryEarned, Earned
<1>6. HooksCurrent'
  BY <1>1, <1>4 DEF RouterInv, HooksCurrent, Current, HookEarned
<1>7. ChoiceMade'
  <2>1. \A s : s \in Kept /\ s # r => s \in Kept'
    BY <1>2
  <2> QED BY <2>1, <1>1, <1>4 DEF RouterInv, ChoiceMade, ChoiceOf
<1>8. ToolsAsked' /\ DevelopmentFresh' /\ EarnedRoute' /\ ChosenFirst'
  <2>1. ToolsAsked' /\ DevelopmentFresh'
    BY <1>1 DEF RouterInv, ToolsAsked, DevelopmentFresh
  <2> QED BY <2>1, <1>1, PassedQuiet
<1> QED BY <1>3, <1>5, <1>6, <1>7, <1>8 DEF RouterInv

\* What somebody may do changes: whoever is being asked about has had both.
LEMMA ChangeKeeps ==
  ASSUME RouterInv, NEW q \in desk.people, NEW right \in Rights, Change(q, right)
  PROVE  RouterInv'
<1>0. RouterTypes /\ q \in Requesters
  BY DeskFacts DEF RouterInv
<1>1. /\ UNCHANGED <<desk, asked, entry, over, hooks, passes, allowed>>
      /\ used' = [used EXCEPT !["change"] = @ + 1]
      /\ rights' = [rights EXCEPT ![q] = IF right \in @ THEN @ \ {right} ELSE @ \cup {right}]
  BY DEF Change, Uses
<1>2. /\ used' \in [{"resolve", "attempt", "tool", "change"} -> Nat]
      /\ used'.resolve = used.resolve /\ used'.attempt = used.attempt
      /\ rights' \in [Requesters -> SUBSET Rights]
      /\ \A b \in Requesters \ {q} : rights'[b] = rights[b]
  BY <1>0, <1>1 DEF RouterTypes
<1>3. ASSUME NEW s \in Runs
      PROVE  /\ truth'[s] \in Truths /\ truth'[s].serial = truth[s].serial /\ truth'[s].by = truth[s].by
             /\ truth[s].seen \subseteq truth'[s].seen /\ truth'[s].verdict = truth[s].verdict
             /\ truth'[s].chosen = truth[s].chosen /\ truth'[s].coding = truth[s].coding
             /\ truth'[s].refused = truth[s].refused
             /\ truth[s].by = q /\ (\E h \in hooks : h.run = s /\ h.serial = truth[s].serial)
                  => rights'[q] \subseteq truth'[s].seen
  <2>1. truth[s] \in Truths /\ rights'[q] \subseteq Rights
    BY <1>0, <1>2 DEF RouterTypes
  <2>2. truth'[s] = IF truth[s].by = q /\ \E h \in hooks : h.run = s /\ h.serial = truth[s].serial
                    THEN [truth[s] EXCEPT !.seen = @ \cup rights'[q]] ELSE truth[s]
    BY DEF Change
  <2> QED BY <2>1, <2>2 DEF Truths
<1>4. truth' \in [Runs -> Truths]
  <2>1. truth' = [s \in Runs |-> truth'[s]]
    BY DEF Change
  <2> QED BY <2>1, <1>3
<1>5. ASSUME NEW s \in Runs
      PROVE  /\ toolCall'[s] \in Calls \cup {None} /\ (toolCall'[s] # None => toolCall[s] # None)
             /\ toolCall[s] # None => /\ toolCall'[s].by = toolCall[s].by /\ toolCall'[s].step = toolCall[s].step
                                      /\ toolCall[s].seen \subseteq toolCall'[s].seen
                                      /\ toolCall[s].by = q => rights'[q] \subseteq toolCall'[s].seen
  <2>1. toolCall[s] \in Calls \cup {None} /\ rights'[q] \subseteq Rights
    BY <1>0, <1>2 DEF RouterTypes
  <2>2. toolCall'[s] = IF toolCall[s] # None /\ toolCall[s].by = q
                       THEN [toolCall[s] EXCEPT !.seen = @ \cup rights'[q]] ELSE toolCall[s]
    BY DEF Change
  <2> QED BY <2>1, <2>2 DEF Calls
<1>6. toolCall' \in [Runs -> Calls \cup {None}]
  <2>1. toolCall' = [s \in Runs |-> toolCall'[s]]
    BY DEF Change
  <2> QED BY <2>1, <1>5
<1>7. RouterTypes'
  BY <1>0, <1>1, <1>2, <1>4, <1>6 DEF RouterTypes
<1>8. Kept' = Kept /\ \A s \in Kept : s \in Runs
  BY <1>1 DEF Kept
<1>9. Numbered' /\ EntryEarned'
  <2>1. Numbered'
    BY <1>1, <1>2, <1>3, <1>8 DEF RouterInv, Numbered
  <2>2. EntryEarned'
    BY <1>1, <1>3, <1>8 DEF RouterInv, EntryEarned, Earned
  <2> QED BY <2>1, <2>2
<1>10. HooksCurrent'
  <2> SUFFICES ASSUME NEW h \in hooks
               PROVE  /\ h.run \in DOMAIN asked
                      /\ h.run \in Kept /\ entry[h.run].id = h.id => Current(h)'
                      /\ Current(h)' => /\ HookEarned(h, truth[h.run])'
                                        /\ h.run \in Kept => ~entry[h.run].restrictedEligible
    BY <1>1, <1>8 DEF HooksCurrent
  <2>1. /\ h.run \in DOMAIN asked /\ h.run \in Runs /\ h.by \in Requesters
        /\ h.run \in Kept /\ entry[h.run].id = h.id => Current(h)
        /\ Current(h) => HookEarned(h, truth[h.run]) /\ (h.run \in Kept => ~entry[h.run].restrictedEligible)
    BY NumberFacts, HookSees DEF RouterInv, HooksCurrent, Hooks
  <2>2. Current(h)' = Current(h)
    BY <2>1, <1>3 DEF Current
  <2>3. ASSUME Current(h) PROVE HookEarned(h, truth[h.run])'
    <3>1. HookEarned(h, truth[h.run]) /\ h.serial = truth[h.run].serial
      BY <2>1, <2>3 DEF Current
    <3>2. rights'[h.by] \subseteq truth'[h.run].seen
      <4>1. CASE h.by = q
        BY <4>1, <3>1, <2>1, <1>3 DEF HookEarned
      <4>2. CASE h.by # q
        BY <4>2, <3>1, <2>1, <1>2, <1>3 DEF HookEarned
      <4> QED BY <4>1, <4>2
    <3> QED BY <3>1, <3>2, <2>1, <1>3 DEF HookEarned
  <2> QED BY <2>1, <2>2, <2>3
<1>11. ChoiceMade'
  <2>1. \A s \in DOMAIN asked : s \in Runs
    BY <1>0, DeskFacts
  <2> QED BY <2>1, <1>1, <1>3, <1>8 DEF RouterInv, ChoiceMade, ChoiceOf
<1>12. ToolsAsked'
  <2> SUFFICES ASSUME NEW s \in Runs, toolCall'[s] # None
               PROVE  /\ rights'[toolCall'[s].by] \subseteq toolCall'[s].seen
                      /\ toolCall'[s].step = "role" => "member" \in toolCall'[s].seen
    BY DEF ToolsAsked
  <2>1. /\ toolCall[s] # None /\ toolCall[s].by \in Requesters
        /\ rights[toolCall[s].by] \subseteq toolCall[s].seen
        /\ toolCall[s].step = "role" => "member" \in toolCall[s].seen
    BY <1>5 DEF RouterInv, ToolsAsked, RouterTypes, Calls
  <2>2. CASE toolCall[s].by = q
    BY <2>1, <2>2, <1>5
  <2>3. CASE toolCall[s].by # q
    BY <2>1, <2>3, <1>2, <1>5
  <2> QED BY <2>2, <2>3
<1>13. DevelopmentFresh' /\ EarnedRoute' /\ ChosenFirst'
  <2>1. DevelopmentFresh'
    BY <1>1 DEF RouterInv, DevelopmentFresh
  <2> QED BY <2>1, <1>1, PassedQuiet
<1> QED BY <1>7, <1>9, <1>10, <1>11, <1>12, <1>13 DEF RouterInv

-----------------------------------------------------------------------------
(* The theorems                                                              *)

LEMMA RouterKeeps == RouterInv /\ RouterNext => RouterInv'
<1> SUFFICES ASSUME RouterInv, RouterNext PROVE RouterInv'
  OBVIOUS
<1>1. ASSUME NEW h \in hooks, HookStep(h) PROVE RouterInv'
  BY <1>1, HookGatewayKeeps, HookMemberKeeps, HookRoleKeeps, HookAdminKeeps, HookDecideKeeps DEF HookStep
<1>2. ASSUME NEW r \in desk.runs, ToolAnswer(r) \/ Settle(r) PROVE RouterInv'
  BY <1>2, ToolAnswerKeeps, SettleKeeps
<1>3. ASSUME NEW r \in desk.runs, NEW q \in desk.people, Resolve(r, q) \/ ToolAsk(r, q) PROVE RouterInv'
  BY <1>3, ResolveKeeps, ToolAskKeeps
<1>4. ASSUME NEW r \in desk.runs, NEW q \in desk.people, NEW x \in Routes, Attempt(r, q, x) PROVE RouterInv'
  BY <1>4, AttemptKeeps
<1>5. ASSUME NEW q \in desk.people, NEW right \in Rights, Change(q, right) PROVE RouterInv'
  BY <1>5, ChangeKeeps
<1> QED BY <1>1, <1>2, <1>3, <1>4, <1>5 DEF RouterNext

\* The router's invariant holds in every state, whatever the gateway does meanwhile.
THEOREM RouterInvariance == Spec => []RouterInv
<1>1. Init => RouterInv
  BY RouterInitInv
<1>2. RouterInv /\ [Next]_vars => RouterInv'
  <2> SUFFICES ASSUME RouterInv, [Next]_vars PROVE RouterInv'
    OBVIOUS
  <2>1. CASE Next
    BY <2>1, RouterKeeps, RouterQuiet DEF Next
  <2>2. CASE UNCHANGED vars
    BY <2>2, RouterQuiet DEF vars
  <2> QED BY <2>1, <2>2
<1> QED BY <1>1, <1>2, PTL DEF Spec

\* A reserved route, and any route of a development agent, passes only on what the
\* resolution that was begun last found out about the same requester.
THEOREM RoutesEarned == Spec => []EarnedRoute
<1>1. RouterInv => EarnedRoute
  BY DEF RouterInv
<1> QED BY <1>1, RouterInvariance, PTL

\* An automatic run attempts nothing before a choice, and then the choice or a declared
\* fallback; a coding plan only for coding.
THEOREM ChoiceFirst == Spec => []ChosenFirst
<1>1. RouterInv => ChosenFirst
  BY DEF RouterInv
<1> QED BY <1>1, RouterInvariance, PTL

\* A development tool runs only for who had both rights while its call was decided.
THEOREM ToolsFresh == Spec => []DevelopmentFresh
<1>1. RouterInv => DevelopmentFresh
  BY DEF RouterInv
<1> QED BY <1>1, RouterInvariance, PTL


-----------------------------------------------------------------------------
(* LadderFollowed                                                            *)

Moved(s, n) == n > 1 /\ s[n].route # s[n - 1].route
RankOf(x) == CHOOSE k \in DOMAIN FallbackRoutes : FallbackRoutes[k] = x

\* What LadderFollowed says of the attempts s of one run.
Followed(s, model) ==
  /\ model # AutoModel => \A n \in DOMAIN s : s[n].route = model
  /\ \A n \in DOMAIN s : Moved(s, n) => s[n].route \in ToSet(FallbackRoutes)
  /\ \A m, n \in DOMAIN s : Moved(s, m) /\ Moved(s, n) /\ m < n => RankOf(s[m].route) < RankOf(s[n].route)

\* How far down the ladder they are: no move went further than to the place after the
\* cursor, and there only if the run is there still. The ladder is without the route
\* that was requested then, which another resolution may change.
Reached(s, e) ==
  /\ e.lastRoute = IF s = <<>> THEN None ELSE s[Len(s)].route
  /\ \A n \in DOMAIN s : Moved(s, n) =>
       \E k \in DOMAIN FallbackRoutes :
         /\ FallbackRoutes[k] = s[n].route /\ k <= e.fallbackCursor + 1
         /\ k = e.fallbackCursor + 1 => e.lastRoute = s[n].route

Descended(r) ==
  /\ r \in over => r \notin Kept
  /\ r \notin Kept => r \in over \/ passes[r] = <<>>
  /\ r \in Kept => /\ Reached(passes[r], entry[r])
                   /\ asked[r] # AutoModel => entry[r].manual /\ entry[r].requested = asked[r]
  /\ Followed(passes[r], asked[r])

LadderInv == \A r \in DOMAIN asked : Descended(r)

LEMMA LadderInvImplies == LadderInv => LadderFollowed
BY DEF LadderInv, Descended, Followed, Moved, RankOf, LadderFollowed

\* A fallback has one rank.
LEMMA RankIs ==
  ASSUME NEW k \in DOMAIN FallbackRoutes
  PROVE  RankOf(FallbackRoutes[k]) = k
<1>1. \A a, b \in DOMAIN FallbackRoutes : FallbackRoutes[a] = FallbackRoutes[b] => a = b
  BY CatalogAssumption DEF ValidRouterConfig, IsInjective
<1> QED BY <1>1 DEF RankOf

\* The place of a rung of the ladder among the fallbacks.
LEMMA RungPlace ==
  ASSUME NEW y, NEW c \in Nat, c < Len(RemoveFirst(FallbackRoutes, y))
  PROVE  \E k \in DOMAIN FallbackRoutes :
           k \in {c + 1, c + 2} /\ FallbackRoutes[k] = RemoveFirst(FallbackRoutes, y)[c + 1]
<1> DEFINE F == FallbackRoutes
           I == {i \in 1..Len(F) : F[i] = y}
<1>1. F \in Seq(Routes) /\ Len(F) \in Nat /\ DOMAIN F = 1..Len(F)
  BY CatalogAssumption
<1>2. CASE I = {}
  <2>1. RemoveFirst(F, y) = F
    BY <1>2 DEF RemoveFirst
  <2>2. c + 1 \in DOMAIN F
    BY <1>1, <2>1
  <2> QED BY <2>1, <2>2
<1>3. CASE I # {}
  <2>1. PICK i \in I : i = Min(I)
    <3>1. I \in SUBSET Nat
      BY <1>1
    <3>2. \E x \in I : \A z \in I : x <= z
      <4> HIDE DEF I
      <4> QED BY <1>3, <3>1, FirstExists
    <3> QED BY <3>2 DEF Min
  <2>2. RemoveFirst(F, y) = RemoveAt(F, i)
    <3>1. SelectInSeq(F, LAMBDA v : v = y) = i
      BY <1>3, <2>1 DEF SelectInSeq
    <3>2. \E j \in 1..Len(F) : F[j] = y
      BY <1>3
    <3> QED BY <3>1, <3>2 DEF RemoveFirst
  <2>3. i \in 1..Len(F)
    BY <2>1
  <2> HIDE DEF I, F
  <2>4. /\ Len(RemoveAt(F, i)) = Len(F) - 1
        /\ \A n \in 1..(Len(F) - 1) : RemoveAt(F, i)[n] = IF n < i THEN F[n] ELSE F[n + 1]
    <3> DEFINE A == SubSeq(F, 1, i - 1)
               B == SubSeq(F, i + 1, Len(F))
    <3>1. A \in Seq(Routes) /\ Len(A) = i - 1 /\ \A n \in 1..(i - 1) : A[n] = F[n]
      <4>1. i - 1 \in Int /\ \A n \in 1..(i - 1) : F[n] \in Routes
        BY <1>1, <2>3
      <4>2. /\ A \in Seq(Routes) /\ Len(A) = IF 1 <= i - 1 THEN i - 1 - 1 + 1 ELSE 0
            /\ \A n \in 1..(i - 1 - 1 + 1) : A[n] = F[1 + n - 1]
        BY <4>1, SubSeqProperties
      <4> HIDE DEF A
      <4> QED BY <2>3, <1>1, <4>2
    <3>2. B \in Seq(Routes) /\ Len(B) = Len(F) - i /\ \A n \in 1..(Len(F) - i) : B[n] = F[i + n]
      <4>1. i + 1 \in Int /\ Len(F) \in Int /\ \A n \in (i + 1)..Len(F) : F[n] \in Routes
        BY <1>1, <2>3
      <4>2. /\ B \in Seq(Routes) /\ Len(B) = IF i + 1 <= Len(F) THEN Len(F) - (i + 1) + 1 ELSE 0
            /\ \A n \in 1..(Len(F) - (i + 1) + 1) : B[n] = F[i + 1 + n - 1]
        BY <4>1, SubSeqProperties
      <4> HIDE DEF B
      <4>3. i \in Nat /\ i <= Len(F) /\ Len(F) \in Nat
        BY <1>1, <2>3
      <4>4. Len(B) = Len(F) - i /\ Len(F) - (i + 1) + 1 = Len(F) - i
        BY <4>2, <4>3
      <4>5. ASSUME NEW n \in 1..(Len(F) - i) PROVE B[n] = F[i + n]
        <5>1. i + 1 + n - 1 = i + n
          BY <4>3
        <5> QED BY <5>1, <4>2, <4>4
      <4> QED BY <4>2, <4>4, <4>5
    <3>3. RemoveAt(F, i) = A \o B
      BY DEF RemoveAt
    <3> HIDE DEF A, B
    <3>4. Len(A \o B) = Len(F) - 1
      <4>1. Len(A \o B) = Len(A) + Len(B)
        BY <3>1, <3>2, ConcatProperties
      <4> QED BY <4>1, <1>1, <2>3, <3>1, <3>2
    <3>5. ASSUME NEW n \in 1..(Len(F) - 1), n < i PROVE (A \o B)[n] = F[n]
      BY <1>1, <2>3, <3>1, <3>2, <3>5
    <3>6. ASSUME NEW n \in 1..(Len(F) - 1), n >= i PROVE (A \o B)[n] = F[n + 1]
      <4>1. n - (i - 1) \in 1..(Len(F) - i) /\ n \notin 1..(i - 1) /\ n = (i - 1) + (n - (i - 1))
        BY <1>1, <2>3, <3>6
      <4>2. (A \o B)[n] = B[n - (i - 1)]
        BY <1>1, <2>3, <3>1, <3>2, <4>1
      <4>3. i + (n - (i - 1)) = n + 1
        BY <2>3, <3>6
      <4> QED BY <3>2, <4>1, <4>2, <4>3
    <3> QED BY <1>1, <2>3, <3>3, <3>4, <3>5, <3>6
  <2>5. c + 1 \in 1..(Len(F) - 1)
    BY <1>1, <2>2, <2>4 DEF F
  <2> QED BY <1>1, <2>2, <2>4, <2>5, SMTT(30) DEF F
<1> QED BY <1>2, <1>3


\* What an attempt with route x makes of the entry e.
Went(f, e, x) ==
  /\ f.lastRoute = x
  /\ f.fallbackCursor = IF e.lastRoute \in {None, x} THEN e.fallbackCursor ELSE e.fallbackCursor + 1

\* An attempt that may pass goes at most one place further down.
LEMMA OneMore ==
  ASSUME NEW s \in Seq(Passes), NEW e \in Entries, NEW f, NEW model, NEW p \in Passes,
         Followed(s, model), Reached(s, e), NextFallback(e, p.route),
         model # AutoModel => p.route = model, Went(f, e, p.route)
  PROVE  Followed(Append(s, p), model) /\ Reached(Append(s, p), f)
<1>0. /\ f.lastRoute = p.route
      /\ f.fallbackCursor = IF e.lastRoute \in {None, p.route} THEN e.fallbackCursor ELSE e.fallbackCursor + 1
  BY DEF Went
<1> DEFINE a == Append(s, p)
           x == p.route
           c == e.fallbackCursor
<1>1. /\ Len(s) \in Nat /\ DOMAIN s = 1..Len(s) /\ DOMAIN a = 1..(Len(s) + 1) /\ Len(a) = Len(s) + 1
      /\ a # <<>> /\ a[Len(s) + 1] = p /\ \A n \in DOMAIN s : a[n] = s[n]
      /\ s # <<>> => Len(s) \in DOMAIN s
  OBVIOUS
<1>2. x \in Routes /\ None \notin Routes /\ c \in Nat /\ \A n \in DOMAIN s : s[n].route \in Routes
  <2>1. x \in Routes /\ None \notin Routes
    BY DeskAssumption DEF Passes
  <2>2. c \in Nat
    BY DEF Entries
  <2>3. ASSUME NEW n \in DOMAIN s PROVE s[n].route \in Routes
    <3>1. s[n] \in Passes
      OBVIOUS
    <3> QED BY <3>1 DEF Passes
  <2> QED BY <2>1, <2>2, <2>3
<1> HIDE DEF a, x
<1>3. \A n \in DOMAIN s : Moved(a, n) <=> Moved(s, n)
  <2>1. \A n \in DOMAIN s : n > 1 => n - 1 \in DOMAIN s
    BY <1>1
  <2> QED BY <2>1, <1>1 DEF Moved
<1>4. Moved(a, Len(s) + 1) <=> s # <<>> /\ s[Len(s)].route # x
  BY <1>1 DEF Moved, x
<1>5. \A n \in DOMAIN a : n \in DOMAIN s \/ n = Len(s) + 1
  BY <1>1
<1>6. \A n \in DOMAIN a : model # AutoModel => a[n].route = model
  BY <1>1, <1>5 DEF Followed
<1>7. f.lastRoute = a[Len(a)].route
  BY <1>0, <1>1 DEF x
<1>8. ASSUME NEW n \in DOMAIN s, Moved(s, n)
      PROVE  \E k \in DOMAIN FallbackRoutes :
               /\ FallbackRoutes[k] = s[n].route /\ k <= c + 1 /\ (k = c + 1 => e.lastRoute = s[n].route)
  BY <1>8 DEF Reached
<1>9. CASE s = <<>> \/ s[Len(s)].route = x
  <2>1. f.fallbackCursor = c /\ e.lastRoute \in {None, x}
    BY <1>0, <1>9, <1>7 DEF Reached, x
  <2>2. \A n \in DOMAIN a : Moved(a, n) => n \in DOMAIN s /\ Moved(s, n) /\ a[n] = s[n]
    BY <1>1, <1>3, <1>4, <1>5, <1>9
  <2>3. Followed(a, model)
    BY <1>6, <2>2 DEF Followed
  <2>4. ASSUME NEW n \in DOMAIN a, Moved(a, n)
        PROVE  \E k \in DOMAIN FallbackRoutes :
                 /\ FallbackRoutes[k] = a[n].route /\ k <= f.fallbackCursor + 1
                 /\ k = f.fallbackCursor + 1 => f.lastRoute = a[n].route
    <3>1. PICK k \in DOMAIN FallbackRoutes :
            /\ FallbackRoutes[k] = s[n].route /\ k <= c + 1 /\ (k = c + 1 => e.lastRoute = s[n].route)
      BY <1>8, <2>2, <2>4
    <3>2. s[n].route # None
      BY <1>2, <2>2, <2>4
    <3>3. f.lastRoute = x
      BY <1>0 DEF x
    <3> QED BY <2>1, <2>2, <2>4, <3>1, <3>2, <3>3
  <2> QED BY <1>1, <1>7, <2>3, <2>4 DEF Reached, a
<1>10. CASE s # <<>> /\ s[Len(s)].route # x
  <2>1. e.lastRoute = s[Len(s)].route /\ e.lastRoute # None /\ e.lastRoute # x
    BY <1>1, <1>2, <1>10 DEF Reached
  <2>2. f.fallbackCursor = c + 1
    BY <1>0, <2>1 DEF x
  <2>3. PICK k \in DOMAIN FallbackRoutes : k \in {c + 1, c + 2} /\ FallbackRoutes[k] = x
    <3>1. c < Len(RemoveFirst(FallbackRoutes, e.requested)) /\ x = RemoveFirst(FallbackRoutes, e.requested)[c + 1]
      BY <2>1 DEF NextFallback, x
    <3> QED BY <1>2, <3>1, RungPlace
  <2>4. RankOf(x) = k /\ x \in ToSet(FallbackRoutes) /\ k \in Nat
    BY <2>3, <1>2, RankIs DEF ToSet
  <2>5. ASSUME NEW n \in DOMAIN s, Moved(s, n)
        PROVE  \E j \in DOMAIN FallbackRoutes :
                 FallbackRoutes[j] = s[n].route /\ j < c + 2 /\ j < k /\ RankOf(s[n].route) = j /\ j \in Nat
    <3>1. PICK j \in DOMAIN FallbackRoutes :
            /\ FallbackRoutes[j] = s[n].route /\ j <= c + 1 /\ (j = c + 1 => e.lastRoute = s[n].route)
      BY <1>8, <2>5
    <3>2. (j \in Nat /\ j # k) \/ j < c + 1
      <4>1. j \in Nat
        BY CatalogAssumption
      <4>2. j = c + 1 => FallbackRoutes[j] # FallbackRoutes[k]
        BY <2>1, <2>3, <3>1
      <4> QED BY <4>1, <4>2, <3>1, <1>2
    <3>3. j < c + 2 /\ j < k /\ j \in Nat
      <4>1. j \in Nat
        BY CatalogAssumption
      <4> QED BY <4>1, <3>1, <3>2, <2>3, <1>2
    <3>4. RankOf(s[n].route) = j
      BY <3>1, RankIs
    <3> QED BY <3>1, <3>3, <3>4
  <2>6. \A n \in DOMAIN a : Moved(a, n) =>
          (n = Len(s) + 1 /\ a[n].route = x) \/ (n \in DOMAIN s /\ Moved(s, n) /\ a[n] = s[n])
    BY <1>1, <1>3, <1>5 DEF x
  <2>7. Followed(a, model)
    <3>1. \A n \in DOMAIN a : Moved(a, n) => a[n].route \in ToSet(FallbackRoutes)
      BY <2>4, <2>6 DEF Followed
    <3>2. ASSUME NEW m \in DOMAIN a, NEW n \in DOMAIN a, Moved(a, m), Moved(a, n), m < n
          PROVE  RankOf(a[m].route) < RankOf(a[n].route)
      <4>1. m \in DOMAIN s /\ Moved(s, m) /\ a[m] = s[m]
        BY <1>1, <3>2, <2>6
      <4>2. CASE n \in DOMAIN s
        <5>1. Moved(s, n) /\ a[n] = s[n]
          BY <1>1, <1>3, <3>2, <4>2
        <5> QED BY <4>1, <4>2, <5>1, <3>2 DEF Followed
      <4>3. CASE n \notin DOMAIN s
        <5>1. a[n].route = x
          BY <2>6, <3>2, <4>3
        <5> QED BY <5>1, <4>1, <2>4, <2>5
      <4> QED BY <4>2, <4>3
    <3> QED BY <1>6, <3>1, <3>2 DEF Followed
  <2>8. ASSUME NEW n \in DOMAIN a, Moved(a, n)
        PROVE  \E j \in DOMAIN FallbackRoutes :
                 /\ FallbackRoutes[j] = a[n].route /\ j <= f.fallbackCursor + 1
                 /\ j = f.fallbackCursor + 1 => f.lastRoute = a[n].route
    <3>1. CASE n = Len(s) + 1 /\ a[n].route = x
      <4>1. f.lastRoute = x /\ k <= f.fallbackCursor + 1
        BY <1>0, <2>2, <2>3, <1>2 DEF x
      <4> QED BY <3>1, <4>1, <2>3
    <3>2. CASE n \in DOMAIN s /\ Moved(s, n) /\ a[n] = s[n]
      <4>1. PICK j \in DOMAIN FallbackRoutes : FallbackRoutes[j] = s[n].route /\ j < c + 2 /\ j \in Nat
        BY <3>2, <2>5
      <4>2. j <= f.fallbackCursor + 1 /\ j # f.fallbackCursor + 1
        BY <4>1, <2>2, <1>2
      <4> QED BY <3>2, <4>1, <4>2
    <3> QED BY <2>6, <2>8, <3>1, <3>2
  <2> QED BY <1>1, <1>7, <2>7, <2>8 DEF Reached, a
<1> QED BY <1>9, <1>10


\* A change of an entry that leaves the run where it is on the ladder.
Steady(e, old, model) ==
  /\ e.lastRoute = old.lastRoute /\ e.fallbackCursor = old.fallbackCursor /\ e.manual = old.manual
  /\ model # AutoModel => e.requested \in {old.requested, model}

LEMMA SteadyKeeps ==
  ASSUME LadderInv, NEW r \in DOMAIN asked, UNCHANGED <<passes, asked, over>>,
         r \in Kept' <=> r \in Kept,
         r \in Kept => entry'[r] = entry[r] \/ Steady(entry'[r], entry[r], asked[r])
  PROVE  Descended(r)'
<1>1. Descended(r) /\ asked'[r] = asked[r] /\ passes'[r] = passes[r] /\ over' = over
  BY DEF LadderInv
<1>2. Followed(passes[r], asked[r])'
  BY <1>1 DEF Descended, Followed, Moved, RankOf
<1>3. ASSUME r \in Kept
      PROVE  /\ Reached(passes[r], entry[r])'
             /\ asked[r] # AutoModel => entry'[r].manual /\ entry'[r].requested = asked[r]
  <2>1. /\ Reached(passes[r], entry[r])
        /\ asked[r] # AutoModel => entry[r].manual /\ entry[r].requested = asked[r]
    BY <1>1, <1>3 DEF Descended
  <2>2. entry'[r].lastRoute = entry[r].lastRoute /\ entry'[r].fallbackCursor = entry[r].fallbackCursor
    BY <1>3 DEF Steady
  <2>3. Reached(passes[r], entry[r])'
    BY <2>1, <2>2, <1>1 DEF Reached, Moved
  <2> QED BY <2>1, <2>3, <1>3 DEF Steady
<1> QED BY <1>1, <1>2, <1>3 DEF Descended

\* A hook leaves every run where it is.
LEMMA HookSteady ==
  ASSUME RouterInv, NEW h \in hooks, HookStep(h)
  PROVE  /\ UNCHANGED <<passes, asked, over>>
         /\ \/ entry' = entry
            \/ \E e \in Entries : /\ h.run \in Kept /\ entry' = [entry EXCEPT ![h.run] = e]
                                  /\ Steady(e, entry[h.run], asked[h.run])
<1>1. UNCHANGED <<passes, asked, over>>
  BY DEF HookStep, HookGateway, HookMember, HookRole, HookAdmin, HookDecide, HookLeaves
<1>2. ASSUME h.run \in Kept PROVE entry[h.run] \in Entries
  BY <1>2 DEF RouterInv, RouterTypes, Kept
<1>3. h.run \in Runs /\ asked[h.run] \in Routes \cup {AutoModel}
  BY NumberFacts, DeskFacts DEF RouterInv
<1>4. ASSUME NEW e, Writes(h, e),
             h.run \in Kept => e \in Entries /\ Steady(e, entry[h.run], asked[h.run])
      PROVE  \/ entry' = entry
             \/ \E d \in Entries : /\ h.run \in Kept /\ entry' = [entry EXCEPT ![h.run] = d]
                                   /\ Steady(d, entry[h.run], asked[h.run])
  BY <1>4 DEF Writes
<1>5. CASE HookGateway(h)
  <2>1. CASE UNCHANGED entry
    BY <2>1, <1>1
  <2>2. CASE Writes(h, [Of(h) EXCEPT !.gatewayUnavailable = FALSE])
    <3>1. h.run \in Kept => /\ [Of(h) EXCEPT !.gatewayUnavailable = FALSE] \in Entries
                            /\ Steady([Of(h) EXCEPT !.gatewayUnavailable = FALSE], entry[h.run], asked[h.run])
      BY <1>2 DEF Of, Entries, Steady
    <3> QED BY <2>2, <3>1, <1>1, <1>4
  <2> QED BY <1>5, <2>1, <2>2 DEF HookGateway
<1>6. ASSUME NEW developer \in BOOLEAN, DeveloperKnown(h, developer)
      PROVE  \/ entry' = entry
             \/ \E e \in Entries : /\ h.run \in Kept /\ entry' = [entry EXCEPT ![h.run] = e]
                                   /\ Steady(e, entry[h.run], asked[h.run])
  <2>1. h.run \in Kept => /\ [Of(h) EXCEPT !.developer = developer] \in Entries
                          /\ Steady([Of(h) EXCEPT !.developer = developer], entry[h.run], asked[h.run])
    BY <1>2 DEF Of, Entries, Steady
  <2>2. Writes(h, [Of(h) EXCEPT !.developer = developer])
    BY <1>6 DEF DeveloperKnown
  <2> QED BY <2>1, <2>2, <1>4
<1>7. CASE HookMember(h) \/ HookRole(h)
  <2>1. UNCHANGED entry \/ \E developer \in BOOLEAN : DeveloperKnown(h, developer)
    BY <1>7 DEF HookMember, HookRole
  <2> QED BY <2>1, <1>1, <1>6
<1>8. CASE HookAdmin(h)
  <2>1. PICK admin \in AdminAnswers(h.by) : Writes(h, [Of(h) EXCEPT !.admin = admin])
    BY <1>8 DEF HookAdmin
  <2>2. admin \in BOOLEAN
    BY DEF AdminAnswers
  <2>3. h.run \in Kept => /\ [Of(h) EXCEPT !.admin = admin] \in Entries
                          /\ Steady([Of(h) EXCEPT !.admin = admin], entry[h.run], asked[h.run])
    BY <1>2, <2>2 DEF Of, Entries, Steady
  <2> QED BY <2>1, <2>3, <1>1, <1>4
<1>9. CASE HookDecide(h)
  <2>1. CASE UNCHANGED entry
    BY <2>1, <1>1
  <2>2. ASSUME NEW o \in desk.outcomes,
               LET selected == Selection(o, h.admin, h.developer)
                   requested == IF asked[h.run] = AutoModel THEN selected.route ELSE asked[h.run]
               IN  /\ selected.route # None
                   /\ Writes(h, [Of(h) EXCEPT !.requested = requested, !.codingEligible = selected.codingEligible,
                                              !.restrictedEligible = selected.restrictedEligible])
        PROVE  \/ entry' = entry
               \/ \E e \in Entries : /\ h.run \in Kept /\ entry' = [entry EXCEPT ![h.run] = e]
                                     /\ Steady(e, entry[h.run], asked[h.run])
    <3> PICK s : s = Selection(o, h.admin, h.developer)
      OBVIOUS
    <3> PICK q : q = IF asked[h.run] = AutoModel THEN s.route ELSE asked[h.run]
      OBVIOUS
    <3> PICK e : e = [Of(h) EXCEPT !.requested = q, !.codingEligible = s.codingEligible,
                                   !.restrictedEligible = s.restrictedEligible]
      OBVIOUS
    <3>1. o \in Outcomes /\ h.admin \in BOOLEAN /\ h.developer \in BOOLEAN
      BY DeskFacts DEF RouterInv, RouterTypes, Hooks
    <3>2. s.route \in Routes /\ s.codingEligible \in BOOLEAN /\ s.restrictedEligible \in BOOLEAN
      BY <2>2, <3>1, SelectionSafe
    <3>3. q \in Routes /\ (asked[h.run] # AutoModel => q = asked[h.run])
      BY <3>2, <1>3
    <3>4. h.run \in Kept => e \in Entries /\ Steady(e, entry[h.run], asked[h.run])
      BY <1>2, <3>2, <3>3 DEF Of, Entries, Steady
    <3>5. Writes(h, e)
      BY <2>2
    <3> QED BY <3>4, <3>5, <1>4
  <2> QED BY <1>9, <2>1, <2>2, <1>1 DEF HookDecide
<1> QED BY <1>1, <1>5, <1>7, <1>8, <1>9 DEF HookStep


\* A resolution begins: a run without an entry has not attempted anything.
LEMMA ResolveLadder ==
  ASSUME RouterInv, LadderInv, NEW r \in desk.runs, NEW q \in Requesters, Resolve(r, q)
  PROVE  LadderInv'
<1>0. RouterTypes /\ r \in Runs /\ r \in DOMAIN asked /\ asked[r] \in Routes \cup {AutoModel} /\ r \notin over
      /\ UNCHANGED <<passes, asked, over>>
  BY DeskFacts DEF RouterInv, Resolve
<1> SUFFICES ASSUME NEW s \in DOMAIN asked PROVE Descended(s)'
  BY <1>0 DEF LadderInv
<1>1. CASE Overloaded(r)
  <2>1. entry' = entry /\ Kept' = Kept
    BY <1>1 DEF Resolve, Kept
  <2> QED BY <2>1, <1>0, SteadyKeeps
<1>2. CASE ~Overloaded(r)
  <2> PICK m : m = Marked(r, asked[r])
    OBVIOUS
  <2> PICK e : e = Begun(r, q)
    OBVIOUS
  <2> PICK old : old = IF r \in Kept THEN entry[r] ELSE Blank(asked[r])
    OBVIOUS
  <2>1. /\ m \in Entries /\ m.lastRoute = old.lastRoute /\ m.fallbackCursor = old.fallbackCursor
        /\ m.manual = old.manual
        /\ m.requested = IF old.requested = None /\ asked[r] # AutoModel THEN asked[r] ELSE old.requested
    BY <1>0, MarkedEffect
  <2>2. e = [m EXCEPT !.requester = q, !.admin = FALSE, !.developer = FALSE,
               !.restrictedEligible = FALSE, !.gatewayUnavailable = @ \/ desk.mode = "console"]
    BY DEF Begun
  <2>3. /\ e \in Entries /\ e.lastRoute = old.lastRoute /\ e.fallbackCursor = old.fallbackCursor
        /\ e.manual = old.manual
        /\ e.requested = IF old.requested = None /\ asked[r] # AutoModel THEN asked[r] ELSE old.requested
    BY <2>1, <2>2 DEF Entries
  <2>4. entry' = [entry EXCEPT ![r] = e]
    BY <1>2 DEF Resolve
  <2>5. entry'[r] = e /\ r \in Kept' /\ \A t \in Runs \ {r} : entry'[t] = entry[t] /\ (t \in Kept' <=> t \in Kept)
    BY <1>0, <2>3, <2>4, DeskFacts DEF RouterTypes, Kept
  <2>6. CASE s # r
    <3>1. s \in Runs
      BY <1>0, DeskFacts
    <3> QED BY <3>1, <2>5, <2>6, <1>0, SteadyKeeps
  <2>7. CASE s = r /\ r \in Kept
    <3>1. Steady(e, entry[r], asked[r])
      BY <2>3, <2>7 DEF Steady
    <3> QED BY <3>1, <2>5, <2>7, <1>0, SteadyKeeps
  <2>8. CASE s = r /\ r \notin Kept
    <3>1. passes[r] = <<>> /\ Followed(passes[r], asked[r])
      BY <2>8, <1>0 DEF LadderInv, Descended
    <3>2. old.lastRoute = None /\ (old.manual <=> asked[r] # AutoModel) /\ old.requested = None
      BY <2>8 DEF Blank
    <3>3. Reached(passes[r], entry[r])'
      BY <3>1, <3>2, <2>3, <2>5, <1>0 DEF Reached
    <3>4. Followed(passes[r], asked[r])'
      BY <3>1, <1>0 DEF Followed, Moved, RankOf
    <3> QED BY <3>2, <3>3, <3>4, <2>3, <2>5, <2>8, <1>0 DEF Descended
  <2> QED BY <2>6, <2>7, <2>8
<1> QED BY <1>1, <1>2

\* An attempt of a run that named its route is made with that route.
LEMMA NamedPass ==
  ASSUME RouterInv, LadderInv, NEW r \in desk.runs, NEW q, NEW x \in Routes, Attempt(r, q, x),
         asked[r] # AutoModel
  PROVE  x = asked[r]
<1>1. CASE r \notin Kept
  BY <1>1 DEF Attempt
<1>2. CASE r \in Kept
  <2>1. entry[r].manual /\ entry[r].requested = asked[r] /\ asked[r] # None
    BY <1>2, DeskFacts, DeskAssumption, CatalogAssumption DEF LadderInv, Descended, RouterInv
  <2>2. Chosen(entry[r], x)
    BY <1>2 DEF Attempt, MayPass
  <2> QED BY <2>1, <2>2 DEF Chosen, RequestedOrFallback, Fallback
<1> QED BY <1>1, <1>2

LEMMA AttemptLadder ==
  ASSUME RouterInv, LadderInv, NEW r \in desk.runs, NEW q \in desk.people, NEW x \in Routes, Attempt(r, q, x)
  PROVE  LadderInv'
<1>m. PICK m : m = Marked(r, x)
  OBVIOUS
<1>e. PICK e : e = [m EXCEPT !.lastRoute = x, !.fallbackCursor = IF m.lastRoute \in {None, x} THEN @ ELSE @ + 1]
  OBVIOUS
<1>o. PICK old : old = IF r \in Kept THEN entry[r] ELSE Blank(x)
  OBVIOUS
<1>p. PICK p : p = [route |-> x, by |-> q, truth |-> truth[r]]
  OBVIOUS
<1>0. RouterTypes /\ r \in Runs /\ q \in Requesters /\ r \in DOMAIN asked /\ x # AutoModel
  BY DeskFacts, CatalogAssumption DEF RouterInv
<1>1. /\ UNCHANGED <<asked, over>> /\ r \notin over /\ MayPass(r, q, x)
      /\ entry' = [entry EXCEPT ![r] = e] /\ passes' = [passes EXCEPT ![r] = Append(@, p)]
  BY <1>m, <1>e, <1>p DEF Attempt
<1>2. /\ m \in Entries /\ m.lastRoute = old.lastRoute /\ m.fallbackCursor = old.fallbackCursor
      /\ m.manual = old.manual /\ m.requested = IF old.requested = None THEN x ELSE old.requested
  BY <1>0, <1>m, <1>o, MarkedEffect
<1>3. old \in Entries
  BY <1>0, <1>o DEF RouterTypes, Kept, Blank, Entries
<1>4. /\ e \in Entries /\ e.lastRoute = x /\ e.manual = old.manual
      /\ e.requested = IF old.requested = None THEN x ELSE old.requested
      /\ e.fallbackCursor = IF old.lastRoute \in {None, x} THEN old.fallbackCursor ELSE old.fallbackCursor + 1
  <2>1. m.fallbackCursor + 1 \in Nat
    BY <1>2 DEF Entries
  <2> QED BY <1>2, <1>e, <2>1 DEF Entries
<1>5. p \in Passes /\ p.route = x
  BY <1>0, <1>p DEF RouterTypes, Passes
<1>6. /\ passes[r] \in Seq(Passes) /\ passes'[r] = Append(passes[r], p)
      /\ \A t \in Runs \ {r} : passes'[t] = passes[t]
  BY <1>0, <1>1 DEF RouterTypes
<1>7. entry'[r] = e /\ r \in Kept' /\ \A t \in Runs \ {r} : entry'[t] = entry[t] /\ (t \in Kept' <=> t \in Kept)
  BY <1>0, <1>1, <1>4, DeskFacts DEF RouterTypes, Kept
<1>8. Descended(r)'
  <2>1. asked[r] # AutoModel => x = asked[r]
    BY NamedPass
  <2>2. Followed(passes[r], asked[r]) /\ Reached(passes[r], old) /\ NextFallback(old, x)
    <3>1. CASE r \in Kept
      BY <3>1, <1>0, <1>1, <1>o DEF LadderInv, Descended, MayPass
    <3>2. CASE r \notin Kept
      <4>1. passes[r] = <<>> /\ Followed(passes[r], asked[r])
        BY <3>2, <1>0, <1>1 DEF LadderInv, Descended
      <4>2. old.lastRoute = None
        BY <3>2, <1>o DEF Blank
      <4> QED BY <4>1, <4>2 DEF Reached, NextFallback
    <3> QED BY <3>1, <3>2
  <2>3. Followed(Append(passes[r], p), asked[r]) /\ Reached(Append(passes[r], p), e)
    <3>1. NextFallback(old, p.route) /\ (asked[r] # AutoModel => p.route = asked[r])
      BY <1>4, <1>5, <2>1, <2>2
    <3>2. Went(e, old, p.route)
      BY <1>4, <1>5 DEF Went
    <3>3. ASSUME NEW s \in Seq(Passes), Followed(s, asked[r]), Reached(s, old)
          PROVE  Followed(Append(s, p), asked[r]) /\ Reached(Append(s, p), e)
      <4>1. NextFallback(old, p.route)
        BY <3>1
      <4>2. asked[r] # AutoModel => p.route = asked[r]
        BY <3>1
      <4>3. p \in Passes
        BY <1>5
      <4> QED BY <4>1, <4>2, <4>3, <3>2, <3>3, <1>3, OneMore
    <3>4. passes[r] \in Seq(Passes)
      BY <1>6
    <3> QED BY <3>1, <3>3, <3>4, <2>2
  <2>4. Followed(passes[r], asked[r])' /\ Reached(passes[r], entry[r])'
    <3>a. PICK a : a = Append(passes[r], p)
      OBVIOUS
    <3>b. PICK model : model = asked[r]
      OBVIOUS
    <3>1. passes'[r] = a /\ entry'[r] = e /\ asked'[r] = model
      BY <3>a, <3>b, <1>1, <1>6, <1>7
    <3>2. Followed(a, model) /\ Reached(a, e)
      BY <3>a, <3>b, <2>3
    <3>3. Followed(passes[r], asked[r])'
      BY <3>1, <3>2 DEF Followed, Moved, RankOf
    <3>4. Reached(passes[r], entry[r])'
      BY <3>1, <3>2 DEF Reached, Moved
    <3> QED BY <3>3, <3>4
  <2>5. asked[r] # AutoModel => e.manual /\ e.requested = asked[r]
    <3>1. CASE r \in Kept
      BY <3>1, <1>0, <1>4, <1>o, <2>1 DEF LadderInv, Descended
    <3>2. CASE r \notin Kept
      <4>1. old.manual /\ old.requested = None
        BY <3>2, <1>0, <1>o DEF Blank
      <4> QED BY <4>1, <1>4, <2>1
    <3> QED BY <3>1, <3>2
  <2> QED BY <2>4, <2>5, <1>1, <1>7 DEF Descended
<1>9. ASSUME NEW s \in DOMAIN asked, s # r PROVE Descended(s)'
  <2>1. s \in Runs
    BY <1>0, DeskFacts
  <2>2. Descended(s) /\ passes'[s] = passes[s] /\ entry'[s] = entry[s] /\ (s \in Kept' <=> s \in Kept)
    BY <2>1, <1>6, <1>7, <1>9 DEF LadderInv
  <2> QED BY <2>2, <1>1 DEF Descended, Reached, Followed, Moved, RankOf
<1> QED BY <1>0, <1>1, <1>8, <1>9 DEF LadderInv

\* After the settlement there is no attempt.
LEMMA SettleLadder ==
  ASSUME RouterInv, LadderInv, NEW r \in desk.runs, Settle(r)
  PROVE  LadderInv'
<1>1. RouterTypes /\ r \in Runs /\ UNCHANGED <<passes, asked>> /\ over' = over \cup {r}
      /\ entry' = [entry EXCEPT ![r] = None]
  BY DeskFacts DEF RouterInv, Settle
<1>2. r \notin Kept' /\ \A t \in Runs \ {r} : entry'[t] = entry[t] /\ (t \in Kept' <=> t \in Kept)
  BY <1>1 DEF RouterTypes, Kept
<1> SUFFICES ASSUME NEW s \in DOMAIN asked PROVE Descended(s)'
  BY <1>1 DEF LadderInv
<1>3. Descended(s) /\ s \in Runs
  BY <1>1, DeskFacts DEF LadderInv
<1>4. Followed(passes[s], asked[s])'
  BY <1>1, <1>3 DEF Descended, Followed, Moved, RankOf
<1>5. CASE s = r
  BY <1>1, <1>2, <1>4, <1>5 DEF Descended
<1>6. CASE s # r
  BY <1>1, <1>2, <1>3, <1>4, <1>6 DEF Descended, Reached, Moved
<1> QED BY <1>5, <1>6

LEMMA LadderKeeps == RouterInv /\ LadderInv /\ [Next]_vars => LadderInv'
<1> SUFFICES ASSUME RouterInv, LadderInv, [Next]_vars PROVE LadderInv'
  OBVIOUS
<1>1. ASSUME UNCHANGED <<entry, passes, asked, over>> PROVE LadderInv'
  <2>1. Kept' = Kept
    BY <1>1 DEF Kept
  <2> QED BY <1>1, <2>1, SteadyKeeps DEF LadderInv
<1>2. ASSUME NEW h \in hooks, HookStep(h) PROVE LadderInv'
  <2>1. UNCHANGED <<passes, asked, over>>
    BY <1>2, HookSteady
  <2>2. CASE entry' = entry
    BY <2>1, <2>2, <1>1
  <2>3. ASSUME NEW e \in Entries, h.run \in Kept, entry' = [entry EXCEPT ![h.run] = e],
               Steady(e, entry[h.run], asked[h.run])
        PROVE  LadderInv'
    <3>1. h.run \in Runs /\ entry' \in [Runs -> Entries \cup {None}] /\ entry'[h.run] = e
          /\ Kept' = Kept /\ \A t \in Runs \ {h.run} : entry'[t] = entry[t]
      BY <2>3, DeskFacts DEF RouterInv, RouterTypes, Kept
    <3> SUFFICES ASSUME NEW s \in DOMAIN asked PROVE Descended(s)'
      BY <2>1 DEF LadderInv
    <3>2. s \in Runs
      BY DeskFacts DEF RouterInv
    <3> QED BY <2>1, <2>3, <3>1, <3>2, SteadyKeeps
  <2> QED BY <1>2, <2>2, <2>3, HookSteady
<1>3. CASE RouterNext
  <2>1. ASSUME NEW r \in desk.runs, ToolAnswer(r) PROVE LadderInv'
    BY <2>1, <1>1 DEF ToolAnswer, ToolLeaves
  <2>2. ASSUME NEW r \in desk.runs, NEW q \in desk.people, ToolAsk(r, q) PROVE LadderInv'
    BY <2>2, <1>1 DEF ToolAsk, ToolLeaves
  <2>3. ASSUME NEW q \in desk.people, NEW right \in Rights, Change(q, right) PROVE LadderInv'
    BY <2>3, <1>1 DEF Change
  <2>4. desk.people \subseteq Requesters
    BY DeskFacts DEF RouterInv
  <2> QED BY <1>2, <1>3, <2>1, <2>2, <2>3, <2>4, ResolveLadder, AttemptLadder, SettleLadder DEF RouterNext
<1>4. CASE UNCHANGED routerVars
  BY <1>4, <1>1 DEF routerVars
<1> QED BY <1>3, <1>4 DEF Next, vars

LEMMA LadderInitInv == Init => LadderInv
<1> SUFFICES ASSUME Init PROVE LadderInv
  OBVIOUS
<1>1. Kept = {} /\ over = {}
  BY DEF Init, Kept
<1>2. RouterTypes
  BY RouterInitInv DEF RouterInv
<1>3. \A r \in DOMAIN asked : passes[r] = <<>>
  BY <1>2, DeskFacts DEF Init
<1> QED BY <1>1, <1>3 DEF LadderInv, Descended, Followed

\* A named run stays with its route; an automatic one that moves on goes to a declared
\* fallback further down than those of all its moves before, over all its resolutions.
THEOREM MovesDown == Spec => []LadderFollowed
<1>1. Init => LadderInv
  BY LadderInitInv
<1>2. RouterInv /\ LadderInv /\ [Next]_vars => LadderInv'
  BY LadderKeeps
<1>3. LadderInv => LadderFollowed
  BY LadderInvImplies
<1> QED BY <1>1, <1>2, <1>3, RouterInvariance, PTL DEF Spec
=============================================================================
