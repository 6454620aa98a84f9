------------------------------ MODULE Registry ------------------------------
(***************************************************************************)
(* The daemon's registry of checks and its persistence: Monitor.checks,    *)
(* the in-memory database of entries, the state file, and the goroutines   *)
(* that work on them (monitor/monitor.go, monitor/database.go,             *)
(* database/database.go, the signal loop of cmd/root.go):                  *)
(*   - the loop spawns a goroutine per interval that ends in               *)
(*     UpdateDatabase; nothing keeps two of them apart;                    *)
(*   - a monitor or unmonitor request sets the flag of its check and calls *)
(*     UpdateDatabase before it answers;                                   *)
(*   - the signal goroutine reloads the configuration (SIGHUP) and ends    *)
(*     the daemon (SIGTERM), one signal after the other;                   *)
(*   - the daemon may die at any step and be started again.                *)
(*                                                                         *)
(* A check object is <<generation, name>>: every load of the configuration *)
(* makes new objects.  An entry object has a lock of its own, and a name   *)
(* whose entry is deleted and added again gets another object.             *)
(***************************************************************************)
EXTENDS Naturals, Sequences, FiniteSets, Functions

CONSTANTS Names,        \* ids of the checks of the configurations
          Confs,        \* configurations: sequences of names without repetition
          Loopers,      \* goroutines of LoopForever that are around at a time
          Handlers,     \* monitor and unmonitor requests in progress at a time
          Entries,      \* entry objects, more than can be in use
          None,
          ReloadAlone,  \* no UpdateDatabase runs while the daemon reloads
          MaxLoads,     \* bound: loads of a configuration after the first start
          MaxRequests,  \* bound: monitor and unmonitor requests
          MaxFlips,     \* bound: changes of a flag by the operations on its check
          MaxFailures,  \* bound: failures to open or to write the state file
          MaxExits,     \* bound: deaths of the daemon
          MaxReloads,   \* bound: reload commands
          MaxQuits      \* bound: quit commands

Updaters == Loopers \cup Handlers
Objects == (0..MaxLoads) \X Names
Name(c) == c[2]

ASSUME RegistryAssumption ==
  /\ \A c \in Confs : c \in Seq(Names) /\ Cardinality(Range(c)) = Len(c)
  /\ Confs # {} /\ Loopers \cap Handlers = {}
  /\ None \notin Names /\ None \notin Loopers \cup Handlers
  /\ None \notin Entries /\ None \notin Objects /\ None \notin BOOLEAN
  /\ ReloadAlone \in BOOLEAN
  /\ {MaxLoads, MaxRequests, MaxFlips, MaxFailures, MaxExits, MaxReloads,
      MaxQuits} \subseteq Nat

VARIABLES up,           \* the daemon is alive
          load,         \* generation of the last configuration loaded
          checks,       \* Monitor.checks
          mon,          \* the monitored flag of every check object
          storage,      \* DB.Storage: the entry object of every name, or None
          saved,        \* Monitored of every entry object
          file,         \* the state file: a function on some names; empty when
                        \* the file is missing, truncated or torn
          pc, todo, seen, cur, held, stale, buf, goal,   \* of every updater
          reload,       \* the signal goroutine: its place, todo, entry
          channel,      \* the signals in the channel of setupSignals
          budget,       \* what the bounds still allow
          latest,       \* history: the request that last changed a name's flag
          acked         \* history: the status a request was told is saved

updaterVars == <<pc, todo, seen, cur, held, stale, buf, goal>>
memory == <<checks, mon, storage, saved>>
history == <<latest, acked>>
vars == <<up, load, checks, mon, storage, saved, file, pc, todo, seen, cur, held,
          stale, buf, goal, reload, channel, budget, latest, acked>>

Empty == [n \in {} |-> TRUE]
NoGoal == [ids |-> <<>>, check |-> None, status |-> TRUE]

Objs(conf, g) == [k \in 1..Len(conf) |-> <<g, conf[k]>>]

Registered == Range(checks)

(* FindCheck *)
Find(n) == {c \in Registered : Name(c) = n}

Spend(what) == budget[what] > 0 /\ budget' = [budget EXCEPT ![what] = @ - 1]

Idle(u) == pc[u] = "idle"
Reloading == reload.pc # "idle"
Alone == ReloadAlone => ~Reloading

-----------------------------------------------------------------------------
(* Entries of the in-memory database *)

InUse == Range(storage) \cup Range(cur) \cup (UNION Range(held)) \cup {reload.cur}

Locked(e) == \E u \in Updaters : e \in held[u]

(* GetEntry, or AddEntry when there is none; e is the entry it returns. *)
Entry(n, e) ==
  \/ /\ storage[n] # None /\ e = storage[n]
     /\ UNCHANGED <<storage, saved>>
  \/ /\ storage[n] = None
     /\ e = CHOOSE x \in Entries : x \notin InUse
     /\ storage' = [storage EXCEPT ![n] = e]
     /\ saved' = [saved EXCEPT ![e] = TRUE]

(* What gob encodes: every entry of the storage, locked or not. *)
Contents == [n \in {m \in Names : storage[m] # None} |-> saved[storage[n]]]

-----------------------------------------------------------------------------
(* UpdateDatabase *)

Goto(u, p) == pc' = [pc EXCEPT ![u] = p]

UpdateRest == UNCHANGED <<up, load, checks, mon, reload, channel, latest>>

(* Mutant: only monitored checks go to the white list. *)
SnapshotMonitored(u) ==
  /\ Goto(u, "next")
  /\ todo' = [todo EXCEPT ![u] = checks]
  /\ seen' = [seen EXCEPT ![u] = {Name(c) : c \in {d \in Registered : mon[d]}}]

(* Mutant: the checks are in a map, which a loop ranges over in any order. *)
SnapshotUnordered(u) ==
  /\ Goto(u, "next")
  /\ \E list \in {l \in [DOMAIN checks -> Registered] : Range(l) = Registered} :
       todo' = [todo EXCEPT ![u] = list]
  /\ seen' = [seen EXCEPT ![u] = {Name(c) : c \in Registered}]

(* It starts to range over m.checks. *)
Snapshot(u) ==
  /\ Goto(u, "next")
  /\ todo' = [todo EXCEPT ![u] = checks]
  /\ seen' = [seen EXCEPT ![u] = {Name(c) : c \in Registered}]

LoopStart(u) ==
  /\ up /\ u \in Loopers /\ Idle(u) /\ Alone
  /\ Snapshot(u)
  /\ UNCHANGED <<cur, held, stale, buf, goal, storage, saved, file, budget, acked>>
  /\ UpdateRest

GetEntry(u) ==
  /\ pc[u] = "next" /\ todo[u] # <<>>
  /\ \E e \in Entries : /\ Entry(Name(Head(todo[u])), e)
                        /\ cur' = [cur EXCEPT ![u] = e]
  /\ Goto(u, "lock")
  /\ UNCHANGED <<todo, seen, held, stale, buf, goal, file, budget, acked>> /\ UpdateRest

(* Mutant: the entry is unlocked at the end of the iteration. *)
LockBriefly(u) ==
  /\ pc[u] = "lock" /\ ~Locked(cur[u])
  /\ saved' = [saved EXCEPT ![cur[u]] = mon[Head(todo[u])]]
  /\ todo' = [todo EXCEPT ![u] = Tail(@)]
  /\ cur' = [cur EXCEPT ![u] = None]
  /\ Goto(u, "next")
  /\ UNCHANGED <<seen, held, stale, buf, goal, storage, file, budget, acked>> /\ UpdateRest

(* Mutant: an entry that exists keeps its status. *)
LockNoCopy(u) ==
  /\ pc[u] = "lock" /\ ~Locked(cur[u])
  /\ held' = [held EXCEPT ![u] = @ \cup {cur[u]}]
  /\ todo' = [todo EXCEPT ![u] = Tail(@)]
  /\ cur' = [cur EXCEPT ![u] = None]
  /\ Goto(u, "next")
  /\ UNCHANGED <<seen, stale, buf, goal, storage, saved, file, budget, acked>> /\ UpdateRest

(* The entry stays locked until UpdateDatabase returns. *)
Lock(u) ==
  /\ pc[u] = "lock" /\ ~Locked(cur[u])
  /\ held' = [held EXCEPT ![u] = @ \cup {cur[u]}]
  /\ saved' = [saved EXCEPT ![cur[u]] = mon[Head(todo[u])]]
  /\ todo' = [todo EXCEPT ![u] = Tail(@)]
  /\ cur' = [cur EXCEPT ![u] = None]
  /\ Goto(u, "next")
  /\ UNCHANGED <<seen, stale, buf, goal, storage, file, budget, acked>> /\ UpdateRest

(* The entries of names that were not in m.checks go, their locks unasked. *)
Keys(u) ==
  /\ pc[u] = "next" /\ todo[u] = <<>>
  /\ stale' = [stale EXCEPT ![u] = {n \in Names : storage[n] # None} \ seen[u]]
  /\ Goto(u, "delete")
  /\ UNCHANGED <<todo, seen, cur, held, buf, goal, storage, saved, file, budget, acked>>
  /\ UpdateRest

Delete(u) ==
  /\ pc[u] = "delete"
  /\ \E n \in stale[u] : /\ storage' = [storage EXCEPT ![n] = None]
                         /\ stale' = [stale EXCEPT ![u] = @ \ {n}]
  /\ UNCHANGED <<pc, todo, seen, cur, held, buf, goal, saved, file, budget, acked>>
  /\ UpdateRest

(* Serialize opens the file with O_TRUNC, ... *)
Open(u) ==
  /\ pc[u] = "delete" /\ stale[u] = {}
  /\ \/ Goto(u, "encode") /\ file' = Empty /\ UNCHANGED budget
     \/ Goto(u, "failed") /\ Spend("failures") /\ UNCHANGED file
  /\ UNCHANGED <<todo, seen, cur, held, stale, buf, goal, storage, saved, acked>>
  /\ UpdateRest

(* ... encodes the storage, ... *)
Encode(u) ==
  /\ pc[u] = "encode"
  /\ buf' = [buf EXCEPT ![u] = Contents]
  /\ Goto(u, "write")
  /\ UNCHANGED <<todo, seen, cur, held, stale, goal, storage, saved, file, budget, acked>>
  /\ UpdateRest

(* ... and writes it. *)
Write(u) ==
  /\ pc[u] = "write"
  /\ \/ Goto(u, "written") /\ file' = buf[u] /\ UNCHANGED budget
     \/ Goto(u, "failed") /\ Spend("failures") /\ UNCHANGED file
  /\ buf' = [buf EXCEPT ![u] = Empty]
  /\ UNCHANGED <<todo, seen, cur, held, stale, goal, storage, saved, acked>>
  /\ UpdateRest

(* A handler goes on with its next id, or answers its request. *)
NextId(u) ==
  IF Len(goal[u].ids) = 1
    THEN Goto(u, "idle") /\ goal' = [goal EXCEPT ![u] = NoGoal]
    ELSE /\ Goto(u, "find")
         /\ goal' = [goal EXCEPT ![u].ids = Tail(@), ![u].check = None]

(* Mutant: the entries stay locked after an error. *)
UnlockWritten(u) ==
  /\ pc[u] \in {"written", "failed"}
  /\ held' = [held EXCEPT ![u] = IF pc[u] = "written" THEN {} ELSE @]
  /\ seen' = [seen EXCEPT ![u] = {}]
  /\ goal' = [goal EXCEPT ![u] = NoGoal]
  /\ Goto(u, "idle")
  /\ UNCHANGED <<todo, cur, stale, buf, storage, saved, file, budget, acked>> /\ UpdateRest

(* The deferred unlocks, and the end of UpdateDatabase. *)
Unlock(u) ==
  /\ pc[u] \in {"written", "failed"}
  /\ held' = [held EXCEPT ![u] = {}]
  /\ seen' = [seen EXCEPT ![u] = {}]
  /\ IF u \in Loopers
       THEN Goto(u, "idle") /\ UNCHANGED <<goal, acked>>
       ELSE LET n == Name(goal[u].check) IN
              /\ NextId(u)
              /\ acked' = IF pc[u] = "written" /\ latest[n] = u
                            THEN [acked EXCEPT ![n] = goal[u].status]
                            ELSE acked
  /\ UNCHANGED <<todo, cur, stale, buf, storage, saved, file, budget>> /\ UpdateRest

Update(u) == \/ GetEntry(u) \/ Lock(u) \/ Keys(u) \/ Delete(u) \/ Open(u)
             \/ Encode(u) \/ Write(u) \/ Unlock(u)

-----------------------------------------------------------------------------
(* Requests, and the operations on the checks *)

(* Somebody changes the status of n: what was acked is history. *)
Changed(n, who) == /\ latest' = [latest EXCEPT ![n] = who]
                   /\ acked' = [acked EXCEPT ![n] = None]

(* A monitor or unmonitor request arrives, for a service or for all: the *)
(* _all route takes the ids of the checks there are.                     *)
Request(u, status) ==
  /\ up /\ u \in Handlers /\ Idle(u) /\ Alone
  /\ Spend("requests")
  /\ \E ids \in {<<n>> : n \in Names} \cup ({[k \in DOMAIN checks |-> Name(checks[k])]} \ {<<>>}) :
       goal' = [goal EXCEPT ![u] = [ids |-> ids, check |-> None, status |-> status]]
  /\ Goto(u, "find")
  /\ UNCHANGED <<up, load, memory, file, todo, seen, cur, held, stale, buf, reload,
                 channel, history>>

(* FindCheck, for one id; a check that is not found is an error. *)
FindCheck(u) ==
  /\ pc[u] = "find"
  /\ LET n == Head(goal[u].ids) IN
       \/ \E c \in Find(n) : goal' = [goal EXCEPT ![u].check = c] /\ Goto(u, "set")
       \/ Find(n) = {} /\ NextId(u)
  /\ UNCHANGED <<up, load, memory, file, todo, seen, cur, held, stale, buf, reload,
                 channel, budget, history>>

(* c.SetMonitored(status), on the object that was found ... *)
Set(u) ==
  /\ pc[u] = "set"
  /\ mon' = [mon EXCEPT ![goal[u].check] = goal[u].status]
  /\ Changed(Name(goal[u].check), u)
  /\ Goto(u, "update")
  /\ UNCHANGED <<up, load, checks, storage, saved, file, todo, seen, cur, held, stale,
                 buf, goal, reload, channel, budget>>

(* ... and m.UpdateDatabase(). *)
HandlerUpdate(u) ==
  /\ pc[u] = "update"
  /\ Snapshot(u)
  /\ UNCHANGED <<cur, held, stale, buf, goal, storage, saved, file, budget, acked>>
  /\ UpdateRest

(* A start, a stop or a give-up changes the flag of a registered check. *)
Flip(c) ==
  /\ up /\ c \in Registered /\ Spend("flips")
  /\ mon' = [mon EXCEPT ![c] = ~@]
  /\ Changed(Name(c), None)
  /\ UNCHANGED <<up, load, checks, storage, saved, file, updaterVars, reload, channel>>
-----------------------------------------------------------------------------
(* Signals *)

(* signal.Notify drops a signal that does not fit the channel, which holds *)
(* one.                                                                    *)
Deliver(s) == channel' = IF channel = <<>> THEN <<s>> ELSE channel

(* gonit reload *)
SendHup == /\ up /\ Spend("reloads")
           /\ Deliver("hup")
           /\ UNCHANGED <<up, load, memory, file, updaterVars, reload, history>>

(* gonit quit *)
SendTerm == /\ up /\ Spend("quits")
            /\ Deliver("term")
            /\ UNCHANGED <<up, load, memory, file, updaterVars, reload, history>>

ReloadRest == UNCHANGED <<up, file, updaterVars, budget, latest>>

(* Reload finds the configuration invalid and leaves everything as it is. *)
ReloadRefused ==
  /\ up /\ ~Reloading /\ channel = <<"hup">>
  /\ channel' = <<>>
  /\ UNCHANGED <<load, memory, reload, acked>> /\ ReloadRest

(* m.checks = nil; AddCheck initialises every new check as monitored. *)
ReloadStart ==
  /\ up /\ ~Reloading /\ channel = <<"hup">> /\ load < MaxLoads
  /\ ReloadAlone => \A u \in Updaters : Idle(u)
  /\ channel' = <<>>
  /\ load' = load + 1
  /\ checks' = <<>>
  /\ mon' = [c \in Objects |-> IF c[1] = load + 1 THEN TRUE ELSE mon[c]]
  /\ \E conf \in Confs :
       /\ reload' = [pc |-> "next", todo |-> Objs(conf, load + 1), cur |-> None, new |-> FALSE]
       /\ acked' = [n \in Names |-> IF n \in Range(conf) THEN acked[n] ELSE None]
  /\ UNCHANGED <<storage, saved>> /\ ReloadRest

(* AddCheck looks for the entry, or adds one, ... *)
ReloadGet ==
  /\ reload.pc = "next" /\ reload.todo # <<>>
  /\ LET n == Name(Head(reload.todo)) IN
       \E e \in Entries :
         /\ Entry(n, e)
         /\ reload' = [reload EXCEPT !.pc = "lock", !.cur = e, !.new = storage[n] = None]
  /\ UNCHANGED <<load, checks, mon, channel, acked>> /\ ReloadRest

(* Mutant: the saved status is not restored. *)
ReloadAddAnew ==
  /\ reload.pc = "lock" /\ ~Locked(reload.cur)
  /\ LET c == Head(reload.todo) IN
       /\ saved' = [saved EXCEPT ![reload.cur] = mon[c]]
       /\ checks' = Append(checks, c)
  /\ reload' = [reload EXCEPT !.pc = "next", !.todo = Tail(@), !.cur = None, !.new = FALSE]
  /\ UNCHANGED <<load, mon, storage, channel, acked>> /\ ReloadRest

(* ... waits for its lock and copies the status one way or the other.      *)
ReloadAdd ==
  /\ reload.pc = "lock" /\ ~Locked(reload.cur)
  /\ LET c == Head(reload.todo) IN
       /\ IF reload.new
            THEN saved' = [saved EXCEPT ![reload.cur] = mon[c]] /\ UNCHANGED mon
            ELSE mon' = [mon EXCEPT ![c] = saved[reload.cur]] /\ UNCHANGED saved
       /\ checks' = Append(checks, c)
  /\ reload' = [reload EXCEPT !.pc = "next", !.todo = Tail(@), !.cur = None, !.new = FALSE]
  /\ UNCHANGED <<load, storage, channel, acked>> /\ ReloadRest

ReloadEnd ==
  /\ reload.pc = "next" /\ reload.todo = <<>>
  /\ reload' = [reload EXCEPT !.pc = "idle"]
  /\ UNCHANGED <<load, memory, channel, acked>> /\ ReloadRest

Reload == ReloadStart \/ ReloadGet \/ ReloadAdd \/ ReloadEnd

-----------------------------------------------------------------------------
(* Death and start of the daemon *)

All(v) == [u \in Updaters |-> v]
NoReload == [pc |-> "idle", todo |-> <<>>, cur |-> None, new |-> FALSE]
Nobody == [n \in Names |-> None]

(* All but the file is lost.  A status whose file is being rewritten is    *)
(* lost too: the history forgets it.                                       *)
Die == /\ up' = FALSE
       /\ checks' = <<>> /\ mon' = [c \in Objects |-> TRUE]
       /\ storage' = Nobody /\ saved' = [e \in Entries |-> TRUE]
       /\ pc' = All("idle") /\ todo' = All(<<>>) /\ seen' = All({}) /\ cur' = All(None)
       /\ held' = All({}) /\ stale' = All({}) /\ buf' = All(Empty) /\ goal' = All(NoGoal)
       /\ reload' = NoReload /\ channel' = <<>>
       /\ latest' = Nobody
       /\ acked' = IF file = Empty THEN Nobody ELSE acked
       /\ UNCHANGED <<load, file>>

Crash == up /\ Spend("exits") /\ Die

(* Mutant: Terminate only when no UpdateDatabase is under way. *)
TerminateWaits == /\ up /\ ~Reloading /\ channel = <<"term">>
                  /\ \A u \in Updaters : Idle(u)
                  /\ Die /\ UNCHANGED budget

(* SIGTERM: Terminate and os.Exit, whatever the other goroutines are at. *)
Terminate == up /\ ~Reloading /\ channel = <<"term">> /\ Die /\ UNCHANGED budget

(* New: one entry per name of the file and of the configuration, and the   *)
(* checks of the configuration with the status the file has for them.      *)
Populate(conf, g) ==
  LET known == DOMAIN file \cup Range(conf)
      place == CHOOSE f \in [known -> Entries] : IsInjective(f)
      status == [n \in known |-> IF n \in DOMAIN file THEN file[n] ELSE TRUE]
  IN /\ storage' = [n \in Names |-> IF n \in known THEN place[n] ELSE None]
     /\ saved' = [e \in Entries |-> \A n \in known : place[n] = e => status[n]]
     /\ mon' = [c \in Objects |-> (c[1] = g /\ Name(c) \in known) => status[Name(c)]]
     /\ checks' = Objs(conf, g)

Boot == /\ ~up /\ load < MaxLoads
        /\ up' = TRUE /\ load' = load + 1
        /\ \E conf \in Confs :
             /\ Populate(conf, load + 1)
             /\ acked' = [n \in Names |-> IF n \in Range(conf) THEN acked[n] ELSE None]
        /\ UNCHANGED <<file, updaterVars, reload, channel, budget, latest>>

(* A daemon that has just been started for the first time. *)
Init == /\ up = TRUE /\ load = 0
        /\ file = Empty
        /\ \E conf \in Confs :
             /\ checks = Objs(conf, 0)
             /\ storage = [n \in Names |->
                   IF n \in Range(conf)
                     THEN (CHOOSE f \in [Range(conf) -> Entries] : IsInjective(f))[n]
                     ELSE None]
        /\ mon = [c \in Objects |-> TRUE]
        /\ saved = [e \in Entries |-> TRUE]
        /\ pc = All("idle") /\ todo = All(<<>>) /\ seen = All({}) /\ cur = All(None)
        /\ held = All({}) /\ stale = All({}) /\ buf = All(Empty) /\ goal = All(NoGoal)
        /\ reload = NoReload /\ channel = <<>>
        /\ latest = Nobody /\ acked = Nobody
        /\ budget = [requests |-> MaxRequests, flips |-> MaxFlips, failures |-> MaxFailures,
                     exits |-> MaxExits, reloads |-> MaxReloads, quits |-> MaxQuits]

Next == \/ \E u \in Updaters : LoopStart(u) \/ Update(u) \/ FindCheck(u) \/ Set(u)
                                   \/ HandlerUpdate(u)
        \/ \E u \in Handlers, status \in BOOLEAN : Request(u, status)
        \/ \E c \in Objects : Flip(c)
        \/ SendHup \/ SendTerm \/ ReloadRefused \/ Reload
        \/ Crash \/ Terminate \/ Boot

Spec == Init /\ [][Next]_vars

(* Goroutines run, the loop goes on, the signal goroutine takes the next   *)
(* signal when it is free.  A lock that is released again and again is     *)
(* obtained: a sync.RWMutex serves those that wait in turn.                *)
FairSpec == /\ Spec
            /\ \A u \in Updaters : /\ WF_vars(Update(u)) /\ SF_vars(Lock(u))
                                   /\ WF_vars(LoopStart(u))
                                   /\ WF_vars(FindCheck(u)) /\ WF_vars(Set(u))
                                   /\ WF_vars(HandlerUpdate(u))
            /\ WF_vars(Reload \/ ReloadRefused) /\ SF_vars(ReloadAdd)
            /\ WF_vars(Terminate)

-----------------------------------------------------------------------------
(* Type invariant. *)
TypeOK == /\ up \in BOOLEAN /\ load \in 0..MaxLoads
          /\ checks \in Seq(Objects)
          /\ mon \in [Objects -> BOOLEAN]
          /\ storage \in [Names -> Entries \cup {None}]
          /\ saved \in [Entries -> BOOLEAN]
          /\ DOMAIN file \subseteq Names /\ Range(file) \subseteq BOOLEAN
          /\ pc \in [Updaters -> {"idle", "find", "set", "update", "next", "lock", "delete",
                                   "encode", "write", "written", "failed"}]
          /\ todo \in [Updaters -> Seq(Objects)]
          /\ seen \in [Updaters -> SUBSET Names]
          /\ cur \in [Updaters -> Entries \cup {None}]
          /\ held \in [Updaters -> SUBSET Entries]
          /\ stale \in [Updaters -> SUBSET Names]
          /\ goal \in [Updaters -> [ids : Seq(Names), check : Objects \cup {None}, status : BOOLEAN]]
          /\ reload.pc \in {"idle", "next", "lock"} /\ reload.todo \in Seq(Objects)
          /\ Len(channel) <= 1
          /\ acked \in [Names -> BOOLEAN \cup {None}]
          /\ \A u, v \in Updaters : u # v => held[u] \cap held[v] = {}

(* What a monitor or unmonitor request was told is saved is in the state   *)
(* file, whenever the file is not being rewritten: no other UpdateDatabase *)
(* writes an older status over it.                                         *)
AckedSaved == \A n \in Names : acked[n] # None /\ file # Empty =>
                n \in DOMAIN file /\ file[n] = acked[n]

(* The status a request was told about is that of the registered check     *)
(* until somebody changes it: reloads and restarts of the daemon keep it.  *)
(* (Doc of check.monitored: a check that is not monitored won't be         *)
(* automatically started.)                                                 *)
AckedHolds == \A n \in Names : up /\ acked[n] # None =>
                \A c \in Find(n) : mon[c] = acked[n]

(* Two UpdateDatabase never have the state file open at a time: the locks  *)
(* of the entries they share keep them apart.  With no check registered    *)
(* nothing does, but then there is nothing to save.                        *)
OneWriter == Registered # {} => \A u, v \in Updaters :
               pc[u] \in {"encode", "write"} /\ pc[v] \in {"encode", "write"} => u = v

(* UpdateDatabase takes the locks in the order of m.checks and keeps them, *)
(* so that no updates wait for each other in a circle, nor one for itself. *)
WaitsFor(u, v) == pc[u] = "lock" /\ cur[u] \in held[v]

NoCircularWait ==
  \A S \in SUBSET Updaters : S # {} => \E u \in S : \A v \in S : ~WaitsFor(u, v)

(* An entry is only deleted when no configured check has its name. *)
DeletesUnknown ==
  [][\A n \in Names : up' /\ storage[n] # None /\ storage'[n] = None => Find(n) = {}]_vars

(* Every UpdateDatabase ends, or the daemon does. *)
UpdatesEnd == \A u \in Updaters : ~Idle(u) ~> Idle(u)

InSync == \A c \in Registered : Name(c) \in DOMAIN file /\ file[Name(c)] = mon[c]

(* Again and again the state file has the status of every check. *)
EventuallySaved == []<>(up => InSync)

(* A SIGTERM that has reached the signal goroutine ends the daemon. *)
TermEndsDaemon == (up /\ channel = <<"term">>) ~> ~up
=============================================================================
