--------------------------- MODULE RegistryProofs ---------------------------
(***************************************************************************)
(* Proofs about Registry, while reloads and updates are kept apart, for    *)
(* any configurations, requests, failures and deaths of the daemon:        *)
(*   - the locks of the entries keep two UpdateDatabase apart in their     *)
(*     last part, where they write the state file, and no entry of a       *)
(*     configured check is deleted (the invariant IInv);                   *)
(*   - the status that a request was told is saved is in the file and in   *)
(*     the registered check until somebody changes it (the invariant AckInv,*)
(*     which follows a status from the flag to the entry, the buffer, the  *)
(*     file and back);                                                     *)
(*   - no updates wait for each other in a circle: they take the locks in  *)
(*     the order of the checks (the invariants Configured and InOrder).    *)
(* And about Reloaded, whatever overlaps: a service that is down by        *)
(* command is not started by a reload (the invariant ReloadInv).           *)
(***************************************************************************)
EXTENDS Registry, FiniteSetTheorems, SequenceTheorems, WellFoundedInduction, TLAPS

Sweeping == {"delete", "encode", "write", "written", "failed"}
Working == {"next", "lock"} \cup Sweeping
Places == {"idle", "find", "set", "update"} \cup Working

(* What the steps of an update need to know of types. *)
Types == /\ load \in 0..MaxLoads
         /\ checks \in Seq(Objects)
         /\ DOMAIN storage = Names
         /\ pc \in [Updaters -> Places]
         /\ todo \in [Updaters -> Seq(Objects)]
         /\ seen \in [Updaters -> SUBSET Names]
         /\ cur \in [Updaters -> Entries \cup {None}]
         /\ held \in [Updaters -> SUBSET Entries]
         /\ stale \in [Updaters -> SUBSET Names]
         /\ reload \in [pc : {"idle", "next", "lock"}, todo : Seq(Objects),
                        cur : Entries \cup {None}, new : BOOLEAN]

(* Nobody works on the database or is about to while the daemon reloads.   *)
Apart == /\ \A u \in Updaters : ~Idle(u) => ~Reloading
         /\ reload.pc = "lock" => reload.todo # <<>>
         /\ ~up => checks = <<>> /\ ~Reloading /\ \A u \in Updaters : Idle(u)

(* An updater works on the checks there are. *)
Tracks == \A u \in Updaters : pc[u] \in Working =>
  /\ seen[u] = {Name(c) : c \in Registered} /\ Range(todo[u]) \subseteq Registered
  /\ pc[u] = "lock" => /\ todo[u] # <<>> /\ cur[u] # None
                       /\ cur[u] = storage[Name(Head(todo[u]))]
  /\ pc[u] \in Sweeping => todo[u] = <<>> /\ stale[u] \cap seen[u] = {}

(* It holds the entry of every check it has been through, and an entry has *)
(* one holder.                                                             *)
Held == /\ \A u \in Updaters : pc[u] \in Working =>
             \A c \in Registered : c \in Range(todo[u]) \/ storage[Name(c)] \in held[u]
        /\ \A u, v \in Updaters : u # v => held[u] \cap held[v] = {}
        /\ \A u \in Updaters : pc[u] \notin Working => held[u] = {}

IInv == Types /\ Apart /\ Tracks /\ Held

-----------------------------------------------------------------------------
(* The sequence of the objects of a configuration. *)
LEMMA ObjsType ==
  ASSUME NEW conf \in Confs, NEW g \in 0..MaxLoads
  PROVE  Objs(conf, g) \in Seq(Objects)
  BY RegistryAssumption DEF Objs, Objects

LEMMA NameType == ASSUME NEW c \in Objects PROVE Name(c) \in Names
  BY DEF Objects, Name

LEMMA RangeOfChecks ==
  ASSUME NEW s \in Seq(Objects)
  PROVE  /\ Range(s) \subseteq Objects
         /\ s # <<>> => Head(s) \in Range(s) /\ Head(s) \in Objects
         /\ s # <<>> => Tail(s) \in Seq(Objects) /\ Range(s) = {Head(s)} \cup Range(Tail(s))
         /\ s = <<>> <=> Range(s) = {}
  <1>1. Range(s) \subseteq Objects /\ (s = <<>> <=> Range(s) = {})
    BY DEF Range
  <1>2. ASSUME s # <<>>
        PROVE  /\ Head(s) \in Range(s) /\ Head(s) \in Objects
               /\ Tail(s) \in Seq(Objects) /\ Range(s) = {Head(s)} \cup Range(Tail(s))
    <2>1. Tail(s) \in Seq(Objects) /\ Head(s) = s[1] /\ 1 \in DOMAIN s
      BY <1>2
    <2>2. DOMAIN s = 1..Len(s) /\ DOMAIN Tail(s) = 1..Len(s)-1
      BY <1>2
    <2>3. \A i \in 1..Len(s)-1 : Tail(s)[i] = s[i+1]
      BY <1>2
    <2>4. Range(s) \subseteq {Head(s)} \cup Range(Tail(s))
      <3> SUFFICES ASSUME NEW i \in 1..Len(s), i # 1 PROVE s[i] \in Range(Tail(s))
        BY <2>1, <2>2 DEF Range
      <3>1. i - 1 \in 1..Len(s)-1 /\ Tail(s)[i-1] = s[i]
        BY <2>3
      <3> QED BY <3>1, <2>2 DEF Range
    <2>5. Range(Tail(s)) \subseteq Range(s)
      BY <2>2, <2>3 DEF Range
    <2> QED BY <2>1, <2>4, <2>5 DEF Range
  <1> QED BY <1>1, <1>2

-----------------------------------------------------------------------------
LEMMA InvInit == Init => IInv
  <1> SUFFICES ASSUME Init PROVE IInv
    OBVIOUS
  <1>1. checks \in Seq(Objects)
    BY ObjsType, RegistryAssumption DEF Init
  <1>2. Types
    BY <1>1, RegistryAssumption DEF Init, Types, All, NoReload, Places, Working, Sweeping
  <1>3. \A u \in Updaters : Idle(u) /\ held[u] = {} /\ pc[u] \notin Working
    BY DEF Init, All, Idle, Working, Sweeping
  <1>4. Apart
    BY <1>1 DEF Init, Apart, NoReload, Reloading, Idle, All
  <1> QED BY <1>2, <1>3, <1>4 DEF IInv, Tracks, Held

(* Steps that leave the database, the updaters and the reload alone. *)
LEMMA Elsewhere ==
  ASSUME IInv, UNCHANGED <<up, load, checks, storage, pc, todo, seen, cur, held, stale, reload>>
  PROVE  IInv'
  BY DEF IInv, Types, Apart, Tracks, Held, Idle, Reloading, Registered

(* An updater starts to range over m.checks. *)
LEMMA SnapshotKeeps ==
  ASSUME IInv, NEW u \in Updaters, up, pc[u] \notin Working, ~Reloading, Snapshot(u),
         UNCHANGED <<up, load, checks, storage, cur, held, stale, reload>>
  PROVE  IInv'
  <1> USE DEF IInv
  <1>1. pc' = [pc EXCEPT ![u] = "next"] /\ todo' = [todo EXCEPT ![u] = checks]
        /\ seen' = [seen EXCEPT ![u] = {Name(c) : c \in Registered}]
    BY DEF Snapshot, Goto
  <1>2. \A c \in Registered : Name(c) \in Names
    BY RangeOfChecks, NameType DEF Registered, Types
  <1>3. Types'
    BY <1>1, <1>2 DEF Types, Places, Working
  <1>4. Apart'
    BY <1>1 DEF Apart, Types, Idle, Reloading
  <1>5. Tracks'
    BY <1>1 DEF Tracks, Types, Registered, Sweeping
  <1>6. Held'
    BY <1>1 DEF Held, Types, Registered, Working
  <1> QED BY <1>3, <1>4, <1>5, <1>6

(* GetEntry and AddEntry take no entry away. *)
LEMMA EntryAdds ==
  ASSUME Types, NEW k, NEW e \in Entries, Entry(k, e), NEW n \in Names, storage'[n] = None
  PROVE  storage[n] = None
  <1>1. CASE UNCHANGED storage
    BY <1>1
  <1>2. CASE storage' = [storage EXCEPT ![k] = e]
    BY <1>2, RegistryAssumption DEF Types
  <1> QED BY <1>1, <1>2 DEF Entry

LEMMA GetEntryKeeps ==
  ASSUME IInv, NEW u \in Updaters, GetEntry(u)
  PROVE  IInv'
  <1> USE DEF IInv
  <1>1. PICK e \in Entries : Entry(Name(Head(todo[u])), e) /\ cur' = [cur EXCEPT ![u] = e]
    BY DEF GetEntry
  <1>2. pc[u] = "next" /\ todo[u] # <<>> /\ pc' = [pc EXCEPT ![u] = "lock"]
        /\ UNCHANGED <<up, load, checks, todo, seen, held, stale, reload>>
    BY DEF GetEntry, UpdateRest, Goto
  <1>3. Name(Head(todo[u])) \in Names
    BY <1>2, RangeOfChecks, NameType DEF Types
  <1>4. /\ DOMAIN storage' = Names /\ storage'[Name(Head(todo[u]))] = e
        /\ \A n \in Names : storage[n] # None => storage'[n] = storage[n]
    BY <1>1, <1>3 DEF Entry, Types
  <1>5. Types'
    BY <1>1, <1>2, <1>4 DEF Types, Places, Working
  <1>6. Apart'
    BY <1>2 DEF Apart, Types, Idle, Reloading
  <1>7. \A c \in Registered : Name(c) \in Names
    BY RangeOfChecks, NameType DEF Registered, Types
  <1>8. \A v \in Updaters : held[v] \subseteq Entries /\ None \notin held[v]
    BY RegistryAssumption DEF Types
  <1>9. Tracks'
    <2> SUFFICES ASSUME NEW v \in Updaters, pc'[v] \in Working
                 PROVE  /\ seen[v] = {Name(c) : c \in Registered}
                        /\ Range(todo[v]) \subseteq Registered
                        /\ pc'[v] = "lock" => /\ todo[v] # <<>> /\ cur'[v] # None
                                              /\ cur'[v] = storage'[Name(Head(todo[v]))]
                        /\ pc'[v] \in Sweeping => todo[v] = <<>> /\ stale[v] \cap seen[v] = {}
      BY <1>2 DEF Tracks, Registered
    <2>1. CASE v = u
      BY <2>1, <1>1, <1>2, <1>4, RegistryAssumption DEF Tracks, Types, Working, Sweeping
    <2>2. CASE v # u
      <3>1. pc'[v] = pc[v] /\ cur'[v] = cur[v] /\ pc[v] \in Working
        BY <2>2, <1>1, <1>2 DEF Types
      <3>2. CASE pc[v] = "lock"
        <4>1. Name(Head(todo[v])) \in Names /\ todo[v] # <<>>
          BY <3>2, <3>1, RangeOfChecks, NameType DEF Types, Tracks
        <4>2. cur[v] # None
          BY <3>2, <3>1 DEF Tracks
        <4> QED BY <3>1, <3>2, <4>1, <4>2, <1>4 DEF Tracks, Sweeping
      <3>3. CASE pc[v] # "lock"
        BY <3>1, <3>3 DEF Tracks
      <3> QED BY <3>2, <3>3
    <2> QED BY <2>1, <2>2
  <1>10. Held'
    <2>1. ASSUME NEW v \in Updaters, pc'[v] \in Working, NEW c \in Registered
          PROVE  c \in Range(todo[v]) \/ storage'[Name(c)] \in held[v]
      <3>1. pc[v] \in Working
        BY <2>1, <1>2 DEF Types, Working
      <3> QED BY <3>1, <1>4, <1>7, <1>8 DEF Held
    <2>2. \A v \in Updaters : pc'[v] \notin Working => pc[v] \notin Working
      BY <1>2 DEF Types, Working
    <2> QED BY <2>1, <2>2, <1>2 DEF Held, Registered
  <1> QED BY <1>5, <1>6, <1>9, <1>10

LEMMA LockKeeps ==
  ASSUME IInv, NEW u \in Updaters, Lock(u)
  PROVE  IInv'
  <1> USE DEF IInv
  <1>1. /\ pc[u] = "lock" /\ ~Locked(cur[u])
        /\ held' = [held EXCEPT ![u] = @ \cup {cur[u]}]
        /\ todo' = [todo EXCEPT ![u] = Tail(@)] /\ cur' = [cur EXCEPT ![u] = None]
        /\ pc' = [pc EXCEPT ![u] = "next"]
        /\ UNCHANGED <<up, load, checks, storage, seen, stale, reload>>
    BY DEF Lock, UpdateRest, Goto
  <1>2. /\ todo[u] # <<>> /\ cur[u] \in Entries /\ todo[u] \in Seq(Objects)
        /\ cur[u] = storage[Name(Head(todo[u]))]
    BY <1>1 DEF Tracks, Types, Working
  <1>3. Tail(todo[u]) \in Seq(Objects) /\ Range(todo[u]) = {Head(todo[u])} \cup Range(Tail(todo[u]))
    BY <1>2, RangeOfChecks
  <1>4. Types'
    BY <1>1, <1>2, <1>3 DEF Types, Places, Working
  <1>5. Apart'
    BY <1>1 DEF Apart, Types, Idle, Reloading
  <1>6. Tracks'
    BY <1>1, <1>2, <1>3 DEF Tracks, Types, Registered, Working, Sweeping
  <1>7. Held'
    <2>1. ASSUME NEW v \in Updaters, pc'[v] \in Working, NEW c \in Registered
          PROVE  c \in Range(todo'[v]) \/ storage[Name(c)] \in held'[v]
      <3>1. pc[v] \in Working /\ (c \in Range(todo[v]) \/ storage[Name(c)] \in held[v])
        BY <2>1, <1>1 DEF Held, Types, Working
      <3>2. CASE v = u
        BY <3>1, <3>2, <1>1, <1>2, <1>3 DEF Types
      <3>3. CASE v # u
        BY <3>1, <3>3, <1>1 DEF Types
      <3> QED BY <3>2, <3>3
    <2>2. \A v, w \in Updaters : v # w => held'[v] \cap held'[w] = {}
      BY <1>1 DEF Held, Locked, Types
    <2>3. \A v \in Updaters : pc'[v] \notin Working => pc[v] \notin Working /\ held'[v] = held[v]
      BY <1>1 DEF Types, Working
    <2> QED BY <2>1, <2>2, <2>3, <1>1 DEF Held, Registered
  <1> QED BY <1>4, <1>5, <1>6, <1>7

(* An updater goes on to a place where it still holds its entries. *)
LEMMA GoOnKeeps ==
  ASSUME IInv, NEW u \in Updaters, NEW l \in Sweeping, pc[u] \in Working, todo[u] = <<>>,
         pc' = [pc EXCEPT ![u] = l], stale' \in [Updaters -> SUBSET Names],
         stale'[u] \cap seen[u] = {}, \A v \in Updaters \ {u} : stale'[v] = stale[v],
         UNCHANGED <<up, load, checks, storage, todo, seen, cur, held, reload>>
  PROVE  IInv'
  <1> USE DEF IInv
  <1>1. Types'
    BY DEF Types, Places, Working
  <1>2. Apart'
    BY DEF Apart, Types, Idle, Reloading, Working, Sweeping
  <1>3. Tracks'
    BY DEF Tracks, Types, Registered, Working, Sweeping
  <1>4. Held'
    <2>1. \A v \in Updaters : pc'[v] \in Working <=> pc[v] \in Working
      BY DEF Types, Working
    <2> QED BY <2>1 DEF Held, Registered
  <1> QED BY <1>1, <1>2, <1>3, <1>4

LEMMA SweepKeeps ==
  ASSUME IInv, NEW u \in Updaters, Keys(u) \/ Open(u) \/ Encode(u) \/ Write(u)
  PROVE  IInv'
  <1> USE DEF IInv
  <1>1. UNCHANGED <<up, load, checks, storage, todo, seen, cur, held, reload>>
    BY DEF Keys, Open, Encode, Write, UpdateRest
  <1>2. CASE Keys(u)
    <2>1. /\ stale' = [stale EXCEPT ![u] = {n \in Names : storage[n] # None} \ seen[u]]
          /\ pc' = [pc EXCEPT ![u] = "delete"] /\ pc[u] = "next" /\ todo[u] = <<>>
      BY <1>2 DEF Keys, Goto
    <2>2. stale' \in [Updaters -> SUBSET Names] /\ stale'[u] \cap seen[u] = {}
      BY <2>1 DEF Types
    <2>3. "delete" \in Sweeping /\ pc[u] \in Working
      BY <2>1 DEF Sweeping, Working
    <2>4. \A v \in Updaters \ {u} : stale'[v] = stale[v]
      BY <2>1 DEF Types
    <2> QED BY <1>1, <2>1, <2>2, <2>3, <2>4, GoOnKeeps
  <1>3. CASE Open(u) \/ Encode(u) \/ Write(u)
    <2>1. /\ pc[u] \in Sweeping /\ UNCHANGED stale
          /\ \E l \in Sweeping : pc' = [pc EXCEPT ![u] = l]
      BY <1>3 DEF Open, Encode, Write, Goto, Sweeping
    <2>2. todo[u] = <<>> /\ stale[u] \cap seen[u] = {} /\ pc[u] \in Working
      BY <2>1 DEF Tracks, Working
    <2>3. stale' \in [Updaters -> SUBSET Names]
      BY <2>1 DEF Types
    <2> QED BY <1>1, <2>1, <2>2, <2>3, GoOnKeeps
  <1> QED BY <1>2, <1>3

(* What is deleted has no configured check of its name. *)
LEMMA DeleteKeeps ==
  ASSUME IInv, NEW u \in Updaters, Delete(u)
  PROVE  /\ IInv'
         /\ \A n \in Names : storage'[n] # storage[n] => Find(n) = {}
  <1> USE DEF IInv
  <1>1. PICK n \in stale[u] : /\ storage' = [storage EXCEPT ![n] = None]
                              /\ stale' = [stale EXCEPT ![u] = @ \ {n}]
    BY DEF Delete
  <1>2. pc[u] = "delete" /\ UNCHANGED <<up, load, checks, pc, todo, seen, cur, held, reload>>
    BY DEF Delete, UpdateRest
  <1>3. seen[u] = {Name(c) : c \in Registered} /\ stale[u] \cap seen[u] = {}
    BY <1>2 DEF Tracks, Working, Sweeping
  <1>4. \A c \in Registered : storage'[Name(c)] = storage[Name(c)]
    BY <1>1, <1>3, RangeOfChecks, NameType DEF Types, Registered
  <1>5. \A m \in Names : storage'[m] # storage[m] => Find(m) = {}
    BY <1>1, <1>3 DEF Types, Find
  <1>6. Types'
    BY <1>1, <1>2 DEF Types
  <1>7. Apart'
    BY <1>2 DEF Apart, Idle, Reloading
  <1>8. Tracks'
    <2>1. \A v \in Updaters : pc[v] = "lock" => Head(todo[v]) \in Registered
      BY RangeOfChecks DEF Tracks, Working, Types
    <2> QED BY <2>1, <1>1, <1>2, <1>4 DEF Tracks, Types, Registered, Sweeping
  <1>9. Held'
    BY <1>2, <1>4 DEF Held, Registered
  <1> QED BY <1>5, <1>6, <1>7, <1>8, <1>9

(* An updater ends, having released its locks, or a handler gets on before *)
(* its update.                                                             *)
LEMMA RestKeeps ==
  ASSUME IInv, NEW u \in Updaters, NEW l \in Places \ Working, up,
         l # "idle" => ~Reloading,
         pc' = [pc EXCEPT ![u] = l], held' = [held EXCEPT ![u] = {}],
         seen' \in [Updaters -> SUBSET Names],
         \A v \in Updaters \ {u} : seen'[v] = seen[v],
         UNCHANGED <<up, load, checks, storage, todo, cur, stale, reload>>
  PROVE  IInv'
  <1> USE DEF IInv
  <1>1. Types'
    BY DEF Types
  <1>2. Apart'
    BY DEF Apart, Types, Idle, Reloading
  <1>3. Tracks'
    BY DEF Tracks, Types, Registered
  <1>4. Held'
    <2>1. \A v \in Updaters : pc'[v] \in Working => v # u /\ pc[v] \in Working /\ held'[v] = held[v]
      BY DEF Types
    <2>2. \A v \in Updaters : held'[v] \subseteq held[v] /\ (v = u => held'[v] = {})
      BY DEF Types
    <2>3. \A v \in Updaters : v # u => pc'[v] = pc[v] /\ held'[v] = held[v]
      BY DEF Types
    <2> QED BY <2>1, <2>2, <2>3 DEF Held, Registered
  <1> QED BY <1>1, <1>2, <1>3, <1>4

LEMMA UnlockKeeps ==
  ASSUME IInv, NEW u \in Updaters, Unlock(u)
  PROVE  IInv'
  <1> USE DEF IInv
  <1>1. /\ pc[u] \in {"written", "failed"} /\ held' = [held EXCEPT ![u] = {}]
        /\ seen' = [seen EXCEPT ![u] = {}]
        /\ UNCHANGED <<up, load, checks, storage, todo, cur, stale, reload>>
    BY DEF Unlock, UpdateRest
  <1>2. \E l \in {"idle", "find"} : pc' = [pc EXCEPT ![u] = l]
    BY DEF Unlock, NextId, Goto
  <1>3. up /\ ~Reloading
    BY <1>1 DEF Apart, Idle
  <1>4. seen' \in [Updaters -> SUBSET Names] /\ \A v \in Updaters \ {u} : seen'[v] = seen[v]
    BY <1>1 DEF Types
  <1>5. {"idle", "find"} \subseteq Places \ Working
    BY DEF Places, Working, Sweeping
  <1> QED BY <1>1, <1>2, <1>3, <1>4, <1>5, RestKeeps

LEMMA RequestKeeps ==
  ASSUME IInv, ReloadAlone, NEW u \in Updaters,
         FindCheck(u) \/ Set(u) \/ \E status \in BOOLEAN : Request(u, status)
  PROVE  IInv'
  <1> USE DEF IInv
  <1>1. UNCHANGED <<up, load, checks, storage, todo, seen, cur, held, stale, reload>>
    BY DEF FindCheck, Set, Request, memory
  <1>2. \E l \in {"idle", "find", "set", "update"} : pc' = [pc EXCEPT ![u] = l]
    BY DEF FindCheck, Set, Request, Goto, NextId
  <1>3. pc[u] \in {"idle", "find", "set"} /\ up /\ ~Reloading
    BY DEF FindCheck, Set, Request, Alone, Apart, Idle
  <1>4. held' = [held EXCEPT ![u] = {}]
    BY <1>1, <1>3 DEF Held, Types, Working, Sweeping
  <1>5. {"idle", "find", "set", "update"} \subseteq Places \ Working
    BY DEF Places, Working, Sweeping
  <1>6. seen' \in [Updaters -> SUBSET Names] /\ \A v \in Updaters \ {u} : seen'[v] = seen[v]
    BY <1>1 DEF Types
  <1> QED BY <1>1, <1>2, <1>3, <1>4, <1>5, <1>6, RestKeeps

-----------------------------------------------------------------------------
(* While nobody works on the database, only Types and Apart can be hurt. *)
LEMMA QuietKeeps ==
  ASSUME Types', Apart', \A u \in Updaters : pc'[u] = "idle" /\ held'[u] = {}
  PROVE  IInv'
  BY DEF IInv, Tracks, Held, Working, Sweeping

LEMMA ReloadKeeps ==
  ASSUME IInv, ReloadAlone, Reload
  PROVE  IInv'
  <1> USE DEF IInv
  <1>0. /\ \A u \in Updaters : Idle(u) /\ held[u] = {}
        /\ UNCHANGED <<pc, todo, seen, cur, held, stale>>
    <2>1. \A u \in Updaters : Idle(u)
      BY DEF Reload, ReloadStart, ReloadGet, ReloadAdd, ReloadEnd, Apart, Reloading
    <2>2. UNCHANGED <<pc, todo, seen, cur, held, stale>>
      BY DEF Reload, ReloadStart, ReloadGet, ReloadAdd, ReloadEnd, ReloadRest, updaterVars
    <2> QED BY <2>1, <2>2 DEF Held, Idle, Working, Sweeping
  <1>1. UNCHANGED up
    BY DEF Reload, ReloadStart, ReloadGet, ReloadAdd, ReloadEnd, ReloadRest
  <1>2. CASE ReloadStart
    <2>1. PICK conf \in Confs :
            reload' = [pc |-> "next", todo |-> Objs(conf, load + 1), cur |-> None, new |-> FALSE]
      BY <1>2 DEF ReloadStart
    <2>2. load' = load + 1 /\ load' \in 0..MaxLoads /\ up /\ checks' = <<>> /\ storage' = storage
      BY <1>2, RegistryAssumption DEF ReloadStart, Types
    <2>3. Objs(conf, load + 1) \in Seq(Objects)
      BY <2>2, ObjsType
    <2>4. Types'
      BY <1>0, <2>1, <2>2, <2>3 DEF Types
    <2>5. Apart'
      BY <1>0, <1>1, <2>1, <2>2, <2>3 DEF Apart, Reloading, Idle
    <2> QED BY <2>4, <2>5, <1>0, QuietKeeps DEF Idle
  <1>3. CASE ReloadGet
    <2>1. PICK e \in Entries :
            /\ Entry(Name(Head(reload.todo)), e)
            /\ reload' = [reload EXCEPT !.pc = "lock", !.cur = e,
                                        !.new = storage[Name(Head(reload.todo))] = None]
      BY <1>3 DEF ReloadGet
    <2>2. reload.pc = "next" /\ reload.todo # <<>> /\ UNCHANGED <<load, checks>>
      BY <1>3 DEF ReloadGet
    <2>3. DOMAIN storage' = Names
      BY <2>1 DEF Entry, Types
    <2>4. (storage[Name(Head(reload.todo))] = None) \in BOOLEAN
      OBVIOUS
    <2>5. Types'
      BY <1>0, <2>1, <2>2, <2>3, <2>4 DEF Types
    <2>6. Apart'
      BY <1>0, <1>1, <2>1, <2>2 DEF Apart, Reloading, Idle, Types
    <2> QED BY <2>5, <2>6, <1>0, QuietKeeps DEF Idle
  <1>4. CASE ReloadAdd
    <2>1. /\ reload.pc = "lock" /\ checks' = Append(checks, Head(reload.todo))
          /\ reload' = [reload EXCEPT !.pc = "next", !.todo = Tail(@), !.cur = None, !.new = FALSE]
          /\ UNCHANGED <<load, storage>>
      BY <1>4 DEF ReloadAdd
    <2>2. /\ reload.todo \in Seq(Objects) /\ reload.todo # <<>>
          /\ Head(reload.todo) \in Objects /\ Tail(reload.todo) \in Seq(Objects)
      BY <2>1, RangeOfChecks DEF Types, Apart
    <2>3. checks' \in Seq(Objects)
      BY <2>1, <2>2 DEF Types
    <2>4. Types'
      BY <1>0, <2>1, <2>2, <2>3 DEF Types
    <2>5. Apart'
      BY <1>0, <1>1, <2>1, <2>3 DEF Apart, Reloading, Idle, Types
    <2> QED BY <2>4, <2>5, <1>0, QuietKeeps DEF Idle
  <1>5. CASE ReloadEnd
    <2>1. /\ reload.pc = "next" /\ reload.todo = <<>>
          /\ reload' = [reload EXCEPT !.pc = "idle"] /\ UNCHANGED <<load, checks, storage>>
      BY <1>5 DEF ReloadEnd, memory
    <2>2. Types'
      BY <1>0, <2>1 DEF Types
    <2>3. Apart'
      BY <1>0, <1>1, <2>1 DEF Apart, Reloading, Idle, Types
    <2> QED BY <2>2, <2>3, <1>0, QuietKeeps DEF Idle
  <1> QED BY <1>2, <1>3, <1>4, <1>5 DEF Reload

LEMMA DieKeeps ==
  ASSUME IInv, Die
  PROVE  IInv'
  <1>1. \A u \in Updaters : pc'[u] = "idle" /\ held'[u] = {}
    BY DEF Die, All
  <1>2. Types'
    BY DEF IInv, Types, Die, All, Nobody, NoReload, Places
  <1>3. Apart'
    BY <1>1 DEF Die, Apart, Idle, Reloading, NoReload
  <1> QED BY <1>1, <1>2, <1>3, QuietKeeps

LEMMA BootKeeps ==
  ASSUME IInv, Boot
  PROVE  IInv'
  <1> USE DEF IInv
  <1>1. PICK conf \in Confs : Populate(conf, load + 1)
    BY DEF Boot
  <1>2. /\ ~up /\ up' /\ load' = load + 1 /\ load' \in 0..MaxLoads
        /\ UNCHANGED <<pc, todo, seen, cur, held, stale, reload>>
    BY RegistryAssumption DEF Boot, Types, updaterVars
  <1>3. checks' = Objs(conf, load + 1) /\ DOMAIN storage' = Names
    BY <1>1 DEF Populate
  <1>4. checks' \in Seq(Objects)
    BY <1>2, <1>3, ObjsType
  <1>5. \A u \in Updaters : pc[u] = "idle" /\ held[u] = {}
    BY <1>2 DEF Apart, Idle, Held, Working, Sweeping
  <1>6. Types'
    BY <1>2, <1>3, <1>4 DEF Types
  <1>7. Apart'
    BY <1>2, <1>4, <1>5 DEF Apart, Idle, Reloading
  <1> QED BY <1>2, <1>5, <1>6, <1>7, QuietKeeps

LEMMA InvNext ==
  ASSUME ReloadAlone
  PROVE  IInv /\ [Next]_vars => IInv'
  <1> SUFFICES ASSUME IInv, [Next]_vars PROVE IInv'
    OBVIOUS
  <1>1. CASE UNCHANGED vars
    BY <1>1, Elsewhere DEF vars
  <1>2. ASSUME NEW u \in Updaters, LoopStart(u) \/ HandlerUpdate(u) PROVE IInv'
    <2>1. up /\ pc[u] \notin Working /\ ~Reloading
      BY <1>2 DEF LoopStart, HandlerUpdate, Alone, Idle, IInv, Apart, Working, Sweeping
    <2>2. Snapshot(u) /\ UNCHANGED <<up, load, checks, storage, cur, held, stale, reload>>
      BY <1>2 DEF LoopStart, HandlerUpdate, UpdateRest
    <2> QED BY <2>1, <2>2, SnapshotKeeps
  <1>3. ASSUME NEW u \in Updaters, Update(u) PROVE IInv'
    BY <1>3, GetEntryKeeps, LockKeeps, SweepKeeps, DeleteKeeps, UnlockKeeps DEF Update
  <1>4. ASSUME NEW u \in Updaters,
               FindCheck(u) \/ Set(u) \/ \E status \in BOOLEAN : Request(u, status)
        PROVE  IInv'
    BY <1>4, RequestKeeps
  <1>5. CASE (\E c \in Objects : Flip(c)) \/ SendHup \/ SendTerm \/ ReloadRefused
    <2>1. UNCHANGED <<up, load, checks, storage, pc, todo, seen, cur, held, stale, reload>>
      BY <1>5 DEF Flip, SendHup, SendTerm, ReloadRefused, ReloadRest, memory, updaterVars
    <2> QED BY <2>1, Elsewhere
  <1>6. CASE Reload
    BY <1>6, ReloadKeeps
  <1>7. CASE Crash \/ Terminate
    BY <1>7, DieKeeps DEF Crash, Terminate
  <1>8. CASE Boot
    BY <1>8, BootKeeps
  <1> QED BY <1>1, <1>2, <1>3, <1>4, <1>5, <1>6, <1>7, <1>8 DEF Next, Updaters

LEMMA InvHolds ==
  ASSUME ReloadAlone
  PROVE  Spec => []IInv
  <1>1. Init => IInv
    BY InvInit
  <1>2. IInv /\ [Next]_vars => IInv'
    BY InvNext
  <1> QED BY <1>1, <1>2, PTL DEF Spec

(* Only one updater is in the last part: past its last Lock, two would hold *)
(* the entry of the first check, if there is one.                           *)
LEMMA OnlySweeper ==
  ASSUME IInv, Registered # {}, NEW u \in Updaters, NEW v \in Updaters,
         pc[u] \in Sweeping, pc[v] \in Sweeping
  PROVE  u = v
  <1> SUFFICES ASSUME u # v PROVE FALSE
    OBVIOUS
  <1>1. {u, v} \subseteq Updaters /\ \A w \in {u, v} : pc[w] \in Working /\ todo[w] = <<>>
    BY DEF IInv, Tracks, Working
  <1>3. PICK c \in Registered : TRUE
    OBVIOUS
  <1>4. \A w \in {u, v} : storage[Name(c)] \in held[w]
    BY <1>1, <1>3, RangeOfChecks DEF IInv, Held, Types
  <1> QED BY <1>4 DEF IInv, Held

(* Two UpdateDatabase never have the state file open at a time when there  *)
(* is a check: past their last Lock both would hold the entry of the first. *)
THEOREM OneWriterHolds ==
  ASSUME ReloadAlone
  PROVE  Spec => []OneWriter
  <1>1. IInv => OneWriter
    BY OnlySweeper DEF OneWriter, Sweeping
  <1> QED BY <1>1, InvHolds, PTL

-----------------------------------------------------------------------------
Aims == [ids : Seq(Names), check : Objects \cup {None}, status : BOOLEAN]

MoreTypes ==
  /\ up \in BOOLEAN
  /\ mon \in [Objects -> BOOLEAN] /\ saved \in [Entries -> BOOLEAN]
  /\ storage \in [Names -> Entries \cup {None}]
  /\ DOMAIN file \subseteq Names /\ file \in [DOMAIN file -> BOOLEAN]
  /\ DOMAIN buf = Updaters
  /\ \A u \in Updaters : DOMAIN buf[u] \subseteq Names /\ buf[u] \in [DOMAIN buf[u] -> BOOLEAN]
  /\ goal \in [Updaters -> Aims]
  /\ latest \in [Names -> Updaters \cup {None}]
  /\ acked \in [Names -> BOOLEAN \cup {None}]
  /\ channel \in {<<>>, <<"hup">>, <<"term">>}
  /\ \A u \in Updaters : IsFiniteSet(held[u])

(* A handler at work has ids to go through, and the check it found stays   *)
(* registered until it is through with it.                                 *)
Goals == \A u \in Updaters :
  /\ pc[u] \in {"find", "set", "update"} => u \in Handlers
  /\ u \in Handlers /\ ~Idle(u) => goal[u].ids # <<>>
  /\ u \in Handlers /\ pc[u] \in {"set", "update"} \cup Working => goal[u].check \in Registered

(* Two names never share an entry, two checks never share a name: all are  *)
(* of the last load.                                                       *)
Apiece == /\ \A m, n \in Names : storage[m] # None /\ storage[m] = storage[n] => m = n
          /\ \A c \in Registered \cup Range(reload.todo) : c[1] = load

(* A status that was acked is in the entry of a check that is registered   *)
(* or being added again, and in the check once it is registered.           *)
Remembered == \A n \in Names : up /\ acked[n] # None =>
  /\ \E c \in Registered \cup Range(reload.todo) : Name(c) = n
  /\ storage[n] # None /\ saved[storage[n]] = acked[n]
  /\ \A c \in Find(n) : mon[c] = acked[n]

(* A reload waits for the entry of the check it adds, and only takes it    *)
(* for a new one when no status was acked.                                 *)
Restores ==
  /\ ~Reloading => reload.todo = <<>>
  /\ reload.pc = "lock" =>
       /\ reload.cur = storage[Name(Head(reload.todo))] /\ reload.cur # None
       /\ reload.new => acked[Name(Head(reload.todo))] = None

Latest(u) == latest[Name(goal[u].check)] = u

(* The status of a request that nobody has overtaken is in its check, and  *)
(* in the entry once the request has been through it.                      *)
Carried == \A u \in Handlers : pc[u] \in {"update"} \cup Working /\ Latest(u) =>
  /\ mon[goal[u].check] = goal[u].status
  /\ pc[u] \in Working /\ goal[u].check \notin Range(todo[u]) =>
        saved[storage[Name(goal[u].check)]] = goal[u].status

HasAll(f) == \A c \in Registered : Name(c) \in DOMAIN f /\ f[Name(c)] = saved[storage[Name(c)]]

(* What an updater has encoded, and then the file, has what is still saved *)
(* for every registered check.                                             *)
Written == \A u \in Updaters : /\ pc[u] = "write" => HasAll(buf[u])
                               /\ pc[u] = "written" => HasAll(file)

(* Death forgets what was not in the file. *)
Down == ~up => \A n \in Names : acked[n] # None => file # Empty

AckInv == MoreTypes /\ Goals /\ Apiece /\ Remembered /\ Restores /\ Carried /\ Written /\ Down
          /\ AckedSaved

(* There is always another entry object: what the allocator of the code    *)
(* provides.                                                               *)
Plenty == IsFiniteSet(Names) /\ IsFiniteSet(Updaters) /\ ~IsFiniteSet(Entries)

LEMMA RegisteredNames ==
  ASSUME Types
  PROVE  Registered \subseteq Objects /\ \A c \in Registered : Name(c) \in Names
  BY RangeOfChecks, NameType DEF Registered, Types

(* A name has one check at a time. *)
LEMMA OneOfAName ==
  ASSUME IInv, Apiece,
         NEW c \in Registered \cup Range(reload.todo),
         NEW d \in Registered \cup Range(reload.todo), Name(c) = Name(d)
  PROVE  c = d
  <1>1. c \in Objects /\ d \in Objects
    BY RangeOfChecks, RegisteredNames DEF IInv, Types
  <1>2. c[1] = d[1] /\ c[2] = d[2]
    BY DEF Apiece, Name
  <1> QED BY <1>1, <1>2 DEF Objects

(* An updater holds the entry of every check it has been through. *)
LEMMA PassedHeld ==
  ASSUME IInv, NEW u \in Updaters, pc[u] \in Working, NEW c \in Registered, c \notin Range(todo[u])
  PROVE  storage[Name(c)] \in held[u] /\ storage[Name(c)] # None /\ storage[Name(c)] \in Entries
  BY RegistryAssumption DEF IInv, Held, Types

(* In its last part it has been through all of them. *)
LEMMA SweeperHolds ==
  ASSUME IInv, NEW u \in Updaters, pc[u] \in Sweeping, NEW c \in Registered
  PROVE  storage[Name(c)] \in held[u] /\ storage[Name(c)] # None /\ storage[Name(c)] \in Entries
  <1>1. pc[u] \in Working /\ c \notin Range(todo[u])
    BY RangeOfChecks DEF IInv, Tracks, Working, Types
  <1> QED BY <1>1, PassedHeld

(* AddEntry gets an entry that nobody uses. *)
LEMMA FreshEntry ==
  ASSUME IInv, MoreTypes, Plenty
  PROVE  \E x \in Entries : x \notin InUse
  <1>1. ASSUME NEW S, NEW f, f \in [S -> Range(f)], IsFiniteSet(S) PROVE IsFiniteSet(Range(f))
    <2>1. f \in Surjection(S, Range(f))
      BY <1>1 DEF Surjection, Range
    <2> QED BY <1>1, <2>1, FS_Surjection
  <1>2. /\ storage \in [Names -> Range(storage)] /\ cur \in [Updaters -> Range(cur)]
        /\ held \in [Updaters -> Range(held)]
    BY DEF IInv, Types, MoreTypes, Range
  <1>3. IsFiniteSet(Range(storage)) /\ IsFiniteSet(Range(cur)) /\ IsFiniteSet(Range(held))
    BY <1>1, <1>2 DEF Plenty
  <1>4. \A T \in Range(held) : IsFiniteSet(T)
    BY <1>2 DEF Range, MoreTypes
  <1>5. IsFiniteSet(UNION Range(held))
    BY <1>3, <1>4, FS_UNION
  <1>6. IsFiniteSet(InUse)
    <2>1. IsFiniteSet(Range(storage) \cup Range(cur))
      BY <1>3, FS_Union
    <2>2. IsFiniteSet(Range(storage) \cup Range(cur) \cup (UNION Range(held)))
      BY <2>1, <1>5, FS_Union
    <2> QED BY <2>2, FS_AddElement DEF InUse
  <1>7. CASE Entries \subseteq InUse
    <2>1. IsFiniteSet(Entries)
      BY <1>6, <1>7, FS_Subset
    <2> QED BY <2>1 DEF Plenty
  <1> QED BY <1>7

(* New gives every name an entry of its own: a least set of names without  *)
(* enough entries could spare a name.                                      *)
LEMMA PlaceForAll ==
  ASSUME Plenty, NEW S \in SUBSET Names
  PROVE  \E f \in [S -> Entries] : IsInjective(f)
  <1> DEFINE Without == {X \in FiniteSubsetsOf(S) : ~\E f \in [X -> Entries] : IsInjective(f)}
  <1>1. IsFiniteSet(S)
    BY FS_Subset DEF Plenty
  <1>2. S \in FiniteSubsetsOf(S)
    BY <1>1 DEF FiniteSubsetsOf
  <1>3. SUFFICES ASSUME Without # {} PROVE FALSE
    BY <1>2
  <1>4. PICK X \in Without : \A Y \in Without : ~(<<Y, X>> \in StrictSubsetOrdering(S))
    <2>1. IsWellFoundedOn(StrictSubsetOrdering(S), FiniteSubsetsOf(S))
      BY FS_StrictSubsetOrderingWellFounded
    <2>2. Without \subseteq FiniteSubsetsOf(S)
      OBVIOUS
    <2> HIDE DEF Without
    <2> QED BY <1>3, <2>1, <2>2, WFMin
  <1>5. X # {}
    <2>1. [x \in {} |-> x] \in [{} -> Entries] /\ IsInjective([x \in {} |-> x])
      BY DEF IsInjective
    <2> QED BY <2>1
  <1>6. PICK x \in X : TRUE
    BY <1>5
  <1>7. X \ {x} \in FiniteSubsetsOf(S) /\ <<X \ {x}, X>> \in StrictSubsetOrdering(S)
    <2>1. X \subseteq S /\ IsFiniteSet(X)
      BY DEF FiniteSubsetsOf
    <2>2. IsFiniteSet(X \ {x})
      BY <2>1, FS_RemoveElement
    <2> QED BY <2>1, <2>2, <1>6 DEF FiniteSubsetsOf, StrictSubsetOrdering
  <1>8. PICK f \in [X \ {x} -> Entries] : IsInjective(f)
    BY <1>4, <1>7
  <1>9. PICK e \in Entries : e \notin Range(f)
    <2>1. IsFiniteSet(X \ {x})
      BY <1>7 DEF FiniteSubsetsOf
    <2>2. f \in Surjection(X \ {x}, Range(f))
      BY DEF Surjection, Range
    <2>3. IsFiniteSet(Range(f))
      BY <2>1, <2>2, FS_Surjection
    <2>4. CASE Entries \subseteq Range(f)
      BY <2>3, <2>4, FS_Subset DEF Plenty
    <2> QED BY <2>4
  <1> DEFINE g == [y \in X |-> IF y = x THEN e ELSE f[y]]
  <1>10. g \in [X -> Entries]
    OBVIOUS
  <1>11. ASSUME NEW y \in X, NEW z \in X, g[y] = g[z] PROVE y = z
    <2>1. \A w \in X \ {x} : f[w] # e
      BY <1>9 DEF Range
    <2> QED BY <1>11, <2>1, <1>8 DEF IsInjective
  <1>12. IsInjective(g)
    BY <1>10, <1>11 DEF IsInjective
  <1> QED BY <1>4, <1>10, <1>12

(* GetEntry and AddEntry leave the entries of the other names alone. *)
LEMMA EntryGives ==
  ASSUME IInv, MoreTypes, Apiece, Plenty, NEW k \in Names, NEW e \in Entries, Entry(k, e)
  PROVE  /\ storage' \in [Names -> Entries \cup {None}] /\ saved' \in [Entries -> BOOLEAN]
         /\ storage'[k] = e
         /\ \A n \in Names : storage[n] # None =>
              storage'[n] = storage[n] /\ saved'[storage[n]] = saved[storage[n]]
         /\ \A m, n \in Names : storage'[m] # None /\ storage'[m] = storage'[n] => m = n
  <1>1. CASE UNCHANGED <<storage, saved>>
    BY <1>1 DEF Entry, MoreTypes, Apiece
  <1>2. CASE ~UNCHANGED <<storage, saved>>
    <2>1. /\ storage[k] = None /\ storage' = [storage EXCEPT ![k] = e]
          /\ saved' = [saved EXCEPT ![e] = TRUE]
      BY <1>2 DEF Entry
    <2>2. e \notin InUse
      BY <1>2, FreshEntry DEF Entry
    <2>3. \A n \in Names : storage[n] # e
      BY <2>2 DEF InUse, Range, MoreTypes
    <2> QED BY <2>1, <2>3, RegistryAssumption DEF MoreTypes, Apiece
  <1> QED BY <1>1, <1>2

(* The steps of an update keep what is remembered. *)
LEMMA SnapshotKeepsAcked ==
  ASSUME IInv, AckInv, NEW u \in Updaters, LoopStart(u) \/ HandlerUpdate(u)
  PROVE  AckInv'
  <1> USE DEF AckInv
  <1>1. /\ pc' = [pc EXCEPT ![u] = "next"] /\ todo' = [todo EXCEPT ![u] = checks]
        /\ UNCHANGED <<up, load, checks, mon, storage, saved, file, held, buf, goal, reload,
                       channel, latest, acked>>
        /\ pc[u] \in {"idle", "update"} /\ (pc[u] = "idle" => u \in Loopers)
    BY DEF LoopStart, HandlerUpdate, UpdateRest, Snapshot, Goto, Idle
  <1>2. MoreTypes' /\ Apiece' /\ Restores' /\ Down' /\ AckedSaved'
    BY <1>1 DEF MoreTypes, Apiece, Restores, Reloading, Down, AckedSaved, Registered
  <1>3. Remembered'
    BY <1>1 DEF Remembered, Find, Registered
  <1>4. Goals'
    BY <1>1, RegistryAssumption DEF Goals, IInv, Types, Registered, Idle, Working, Sweeping
  <1>5. Carried'
    <2> SUFFICES ASSUME NEW v \in Handlers, pc'[v] \in {"update"} \cup Working, Latest(v)
                 PROVE  /\ mon[goal[v].check] = goal[v].status
                        /\ pc'[v] \in Working /\ goal[v].check \notin Range(todo'[v]) =>
                             saved[storage[Name(goal[v].check)]] = goal[v].status
      BY <1>1 DEF Carried, Latest
    <2>1. CASE v = u
      <3>1. pc[u] = "update" /\ goal[u].check \in Registered
        BY <1>1, <2>1, RegistryAssumption DEF Goals
      <3> QED BY <1>1, <2>1, <3>1 DEF Carried, IInv, Types, Registered
    <2>2. CASE v # u
      BY <1>1, <2>2 DEF Carried, IInv, Types, Updaters
    <2> QED BY <2>1, <2>2
  <1>6. Written'
    BY <1>1 DEF Written, HasAll, Registered, IInv, Types
  <1> QED BY <1>2, <1>3, <1>4, <1>5, <1>6

LEMMA GetEntryKeepsAcked ==
  ASSUME IInv, AckInv, Plenty, NEW u \in Updaters, GetEntry(u)
  PROVE  AckInv'
  <1> USE DEF AckInv
  <1>1. PICK e \in Entries : Entry(Name(Head(todo[u])), e) /\ cur' = [cur EXCEPT ![u] = e]
    BY DEF GetEntry
  <1>2. /\ pc[u] = "next" /\ todo[u] # <<>> /\ pc' = [pc EXCEPT ![u] = "lock"]
        /\ UNCHANGED <<up, load, checks, mon, file, todo, held, buf, goal, reload, channel,
                       latest, acked>>
    BY DEF GetEntry, UpdateRest, Goto
  <1>3. Name(Head(todo[u])) \in Names
    BY <1>2, RangeOfChecks, NameType DEF IInv, Types
  <1>4. /\ storage' \in [Names -> Entries \cup {None}] /\ saved' \in [Entries -> BOOLEAN]
        /\ \A n \in Names : storage[n] # None =>
             storage'[n] = storage[n] /\ saved'[storage[n]] = saved[storage[n]]
        /\ \A m, n \in Names : storage'[m] # None /\ storage'[m] = storage'[n] => m = n
    BY <1>1, <1>3, EntryGives
  <1>5. MoreTypes' /\ Apiece' /\ Down' /\ AckedSaved'
    BY <1>2, <1>4 DEF MoreTypes, Apiece, Down, AckedSaved, Registered
  <1>6. ~Reloading
    BY <1>2 DEF IInv, Apart, Idle
  <1>7. Restores'
    BY <1>2, <1>6 DEF Restores, Reloading
  <1>8. Remembered'
    BY <1>2, <1>4 DEF Remembered, Find, Registered
  <1>9. Goals'
    BY <1>2 DEF Goals, IInv, Types, Registered, Idle, Working, Sweeping
  <1>10. Carried'
    <2> SUFFICES ASSUME NEW v \in Handlers, pc'[v] \in {"update"} \cup Working, Latest(v)
                 PROVE  /\ mon[goal[v].check] = goal[v].status
                        /\ pc'[v] \in Working /\ goal[v].check \notin Range(todo[v]) =>
                             saved'[storage'[Name(goal[v].check)]] = goal[v].status
      BY <1>2 DEF Carried, Latest
    <2>1. pc[v] \in {"update"} \cup Working /\ (pc'[v] \in Working <=> pc[v] \in Working)
      BY <1>2 DEF IInv, Types, Updaters, Working
    <2>2. goal[v].check \in Registered
      BY <2>1 DEF Goals, Updaters
    <2>3. Name(goal[v].check) \in Names
      BY <2>2, RegisteredNames DEF IInv
    <2>4. ASSUME pc[v] \in Working, goal[v].check \notin Range(todo[v])
          PROVE  storage[Name(goal[v].check)] # None
      BY <2>2, <2>4, PassedHeld DEF Updaters
    <2> QED BY <1>4, <2>1, <2>3, <2>4 DEF Carried
  <1>11. Written'
    <2>1. ASSUME NEW v \in Updaters, pc'[v] \in {"write", "written"}, NEW c \in Registered
          PROVE  saved'[storage'[Name(c)]] = saved[storage[Name(c)]]
      <3>1. pc[v] \in Sweeping
        BY <1>2, <2>1 DEF IInv, Types, Sweeping
      <3> QED BY <3>1, <1>4, SweeperHolds, RegisteredNames DEF IInv
    <2>2. \A v \in Updaters : pc'[v] \in {"write", "written"} => pc'[v] = pc[v]
      BY <1>2 DEF IInv, Types
    <2> QED BY <1>2, <2>1, <2>2 DEF Written, HasAll, Registered
  <1> QED BY <1>5, <1>7, <1>8, <1>9, <1>10, <1>11

(* The status that Lock copies is the one that was acked or is carried. *)
LEMMA LockKeepsAcked ==
  ASSUME IInv, AckInv, NEW u \in Updaters, Lock(u)
  PROVE  AckInv'
  <1> USE DEF AckInv
  <1>1. /\ pc[u] = "lock" /\ ~Locked(cur[u])
        /\ held' = [held EXCEPT ![u] = @ \cup {cur[u]}]
        /\ saved' = [saved EXCEPT ![cur[u]] = mon[Head(todo[u])]]
        /\ todo' = [todo EXCEPT ![u] = Tail(@)] /\ pc' = [pc EXCEPT ![u] = "next"]
        /\ UNCHANGED <<up, load, checks, mon, storage, file, buf, goal, reload, channel, latest,
                       acked>>
    BY DEF Lock, UpdateRest, Goto
  <1>2. /\ todo[u] # <<>> /\ cur[u] \in Entries /\ todo[u] \in Seq(Objects)
        /\ cur[u] = storage[Name(Head(todo[u]))]
    BY <1>1 DEF IInv, Tracks, Types, Working
  <1> DEFINE h == Head(todo[u])
  <1>3. /\ h \in Registered /\ Name(h) \in Names /\ h \in Objects
        /\ Range(todo[u]) = {h} \cup Range(Tail(todo[u]))
    <2>1. h \in Range(todo[u]) /\ Range(todo[u]) = {h} \cup Range(Tail(todo[u])) /\ h \in Objects
      BY <1>2, RangeOfChecks
    <2>2. h \in Registered
      BY <1>1, <2>1 DEF IInv, Tracks, Working
    <2> QED BY <2>1, <2>2, NameType
  <1>4. \A n \in Names : storage[n] # None =>
          saved'[storage[n]] = IF n = Name(h) THEN mon[h] ELSE saved[storage[n]]
    BY <1>1, <1>2, <1>3 DEF MoreTypes, Apiece
  <1> HIDE DEF h
  <1>5. MoreTypes'
    <2>1. saved' \in [Entries -> BOOLEAN]
      BY <1>1, <1>3 DEF MoreTypes, h
    <2>2. \A v \in Updaters : IsFiniteSet(held'[v])
      <3>1. IsFiniteSet(held[u] \cup {cur[u]})
        BY FS_AddElement DEF MoreTypes
      <3> QED BY <1>1, <3>1 DEF MoreTypes, IInv, Types
    <2> QED BY <1>1, <2>1, <2>2 DEF MoreTypes
  <1>6. Apiece' /\ Restores' /\ Down' /\ AckedSaved'
    BY <1>1 DEF Apiece, Restores, Reloading, Down, AckedSaved, Registered
  <1>7. Remembered'
    <2> SUFFICES ASSUME NEW n \in Names, up, acked[n] # None
                 PROVE  saved'[storage[n]] = acked[n]
      BY <1>1 DEF Remembered, Find, Registered
    <2> QED BY <1>3, <1>4 DEF Remembered, Find
  <1>8. Goals'
    BY <1>1 DEF Goals, IInv, Types, Registered, Idle, Working, Sweeping
  <1>9. Carried'
    <2> SUFFICES ASSUME NEW v \in Handlers, pc'[v] \in {"update"} \cup Working, Latest(v)
                 PROVE  /\ mon[goal[v].check] = goal[v].status
                        /\ pc'[v] \in Working /\ goal[v].check \notin Range(todo'[v]) =>
                             saved'[storage[Name(goal[v].check)]] = goal[v].status
      BY <1>1 DEF Carried, Latest
    <2>1. pc[v] \in {"update"} \cup Working /\ (pc'[v] \in Working <=> pc[v] \in Working)
      BY <1>1 DEF IInv, Types, Updaters, Working
    <2>2. goal[v].check \in Registered /\ Name(goal[v].check) \in Names
      BY <2>1, RegisteredNames DEF Goals, Updaters, IInv
    <2>3. mon[goal[v].check] = goal[v].status
      BY <2>1 DEF Carried
    <2>4. ASSUME pc[v] \in Working, goal[v].check \notin Range(todo'[v])
          PROVE  saved'[storage[Name(goal[v].check)]] = goal[v].status
      <3>1. CASE goal[v].check = h
        BY <1>2, <1>3, <1>4, <2>3, <3>1, RegistryAssumption DEF h
      <3>2. CASE goal[v].check # h
        <4>1. goal[v].check \notin Range(todo[v])
          BY <1>1, <1>3, <2>4, <3>2 DEF IInv, Types
        <4>2. Name(goal[v].check) # Name(h)
          BY <1>3, <2>2, <3>2, OneOfAName
        <4>3. storage[Name(goal[v].check)] # None
          BY <2>2, <2>4, <4>1, PassedHeld DEF Updaters
        <4> QED BY <1>4, <2>2, <2>4, <4>1, <4>2, <4>3 DEF Carried
      <3> QED BY <3>1, <3>2
    <2> QED BY <2>1, <2>3, <2>4
  <1>10. Written'
    <2>1. ASSUME NEW v \in Updaters, pc'[v] \in {"write", "written"}, NEW c \in Registered
          PROVE  saved'[storage[Name(c)]] = saved[storage[Name(c)]]
      <3>1. pc[v] \in Sweeping
        BY <1>1, <2>1 DEF IInv, Types, Sweeping
      <3>2. storage[Name(c)] # None /\ storage[Name(c)] # cur[u]
        BY <3>1, <1>1, SweeperHolds DEF Locked
      <3>3. Name(c) # Name(h)
        BY <3>2, <1>2 DEF h
      <3> QED BY <3>2, <3>3, <1>4, RegisteredNames DEF IInv
    <2>2. \A v \in Updaters : pc'[v] \in {"write", "written"} => pc'[v] = pc[v]
      BY <1>1 DEF IInv, Types
    <2> QED BY <1>1, <2>1, <2>2 DEF Written, HasAll, Registered
  <1> QED BY <1>5, <1>6, <1>7, <1>8, <1>9, <1>10

(* The file is written by one updater, with what it holds. *)
LEMMA SweepKeepsAcked ==
  ASSUME IInv, AckInv, NEW u \in Updaters, Keys(u) \/ Open(u) \/ Encode(u) \/ Write(u)
  PROVE  AckInv'
  <1> USE DEF AckInv
  <1>1. UNCHANGED <<up, load, checks, mon, storage, saved, todo, held, goal, reload, channel,
                    latest, acked>>
    BY DEF Keys, Open, Encode, Write, UpdateRest
  <1>2. PICK l \in Sweeping : pc' = [pc EXCEPT ![u] = l]
    BY DEF Keys, Open, Encode, Write, Goto, Sweeping
  <1>3. pc[u] \in Working /\ todo[u] = <<>> /\ up
    BY DEF Keys, Open, Encode, Write, IInv, Tracks, Working, Sweeping, Apart, Idle
  <1>4. \A v \in Updaters : /\ pc'[v] \in Working <=> pc[v] \in Working
                            /\ pc'[v] = pc[v] \/ {pc'[v], pc[v]} \subseteq Working
    BY <1>2, <1>3 DEF IInv, Types, Working
  <1>5. Apiece' /\ Restores' /\ Down'
    BY <1>1, <1>3 DEF Apiece, Restores, Reloading, Down, Registered
  <1>6. Remembered'
    BY <1>1 DEF Remembered, Find, Registered
  <1>7. Goals'
    BY <1>1, <1>4 DEF Goals, Registered, Idle, Working, Sweeping
  <1>8. Carried'
    <2>1. \A v \in Handlers : /\ pc'[v] \in Working <=> pc[v] \in Working
                              /\ pc'[v] = "update" <=> pc[v] = "update"
      <3>1. "update" \notin Working \cup {pc[u], l}
        BY <1>3 DEF Working, Sweeping
      <3> QED BY <1>2, <1>4, <3>1 DEF IInv, Types, Updaters
    <2> QED BY <1>1, <2>1 DEF Carried, Latest
  <1>9. \A n \in Names : acked[n] # None => \E c \in Registered : Name(c) = n
    <2>1. Range(reload.todo) = {}
      BY <1>3, RangeOfChecks DEF Restores, IInv, Apart, Idle, Types, Working, Sweeping
    <2> QED BY <1>3, <2>1 DEF Remembered
  <1>10. CASE Keys(u)
    <2>1. UNCHANGED <<file, buf>> /\ pc' = [pc EXCEPT ![u] = "delete"]
      BY <1>10 DEF Keys, UpdateRest, Goto
    <2>2. MoreTypes' /\ AckedSaved' /\ Written'
      BY <1>1, <2>1 DEF MoreTypes, AckedSaved, Written, HasAll, Registered, IInv, Types
    <2> QED BY <1>5, <1>6, <1>7, <1>8, <2>2
  <1>11. ASSUME pc[u] \in Sweeping, Registered # {}
         PROVE  \A v \in Updaters : v # u => pc[v] \notin Sweeping /\ pc'[v] = pc[v]
    BY <1>2, <1>11, OnlySweeper DEF IInv, Types
  <1>15. ASSUME Registered = {} PROVE Written'
    BY <1>1, <1>15 DEF Written, HasAll, Registered
  <1>12. CASE Open(u)
    <2>1. /\ UNCHANGED buf /\ pc[u] \in Sweeping /\ pc'[u] \in {"encode", "failed"}
          /\ file' = Empty \/ UNCHANGED file
      BY <1>12 DEF Open, UpdateRest, Goto, Sweeping, IInv, Types
    <2>2. MoreTypes'
      BY <1>1, <2>1 DEF MoreTypes, Empty
    <2>3. Written'
      BY <1>11, <1>15, <2>1 DEF Written, Sweeping
    <2>4. AckedSaved'
      BY <1>1, <2>1 DEF AckedSaved
    <2> QED BY <1>5, <1>6, <1>7, <1>8, <2>2, <2>3, <2>4
  <1>13. CASE Encode(u)
    <2>1. /\ buf' = [buf EXCEPT ![u] = Contents] /\ UNCHANGED file
          /\ pc[u] \in Sweeping /\ pc'[u] = "write"
      BY <1>13 DEF Encode, UpdateRest, Goto, Sweeping, IInv, Types
    <2>2. DOMAIN Contents \subseteq Names /\ Contents \in [DOMAIN Contents -> BOOLEAN]
      BY DEF Contents, MoreTypes
    <2>3. MoreTypes'
      BY <1>1, <2>1, <2>2 DEF MoreTypes
    <2>4. HasAll(Contents)
      BY <2>1, SweeperHolds, RegisteredNames DEF HasAll, Contents, IInv
    <2>5. HasAll(buf[u])'
      <3>1. buf'[u] = Contents
        BY <2>1 DEF MoreTypes
      <3> QED BY <1>1, <2>4, <3>1 DEF HasAll, Registered
    <2>6. Written'
      <3>1. Registered # {} => \A v \in Updaters : v # u => pc'[v] \notin {"write", "written"}
        BY <1>11, <2>1 DEF Sweeping
      <3> QED BY <1>15, <2>1, <2>5, <3>1 DEF Written
    <2>7. AckedSaved'
      BY <1>1, <2>1 DEF AckedSaved
    <2> QED BY <1>5, <1>6, <1>7, <1>8, <2>3, <2>6, <2>7
  <1>14. CASE Write(u)
    <2>1. /\ buf' = [buf EXCEPT ![u] = Empty] /\ pc[u] \in Sweeping /\ pc[u] = "write"
          /\ \/ file' = buf[u] /\ pc'[u] = "written"
             \/ UNCHANGED file /\ pc'[u] = "failed"
      BY <1>14 DEF Write, UpdateRest, Goto, Sweeping, IInv, Types
    <2>2. MoreTypes'
      BY <1>1, <2>1 DEF MoreTypes, Empty
    <2>3. HasAll(buf[u])
      BY <2>1 DEF Written
    <2>4. Written'
      <3>1. ASSUME Registered # {}, NEW v \in Updaters, v # u
            PROVE  pc'[v] \notin {"write", "written"}
        BY <1>11, <2>1, <3>1 DEF Sweeping
      <3>2. pc'[u] = "written" => HasAll(file)'
        BY <1>1, <2>1, <2>3 DEF HasAll, Registered
      <3> QED BY <1>15, <2>1, <3>1, <3>2 DEF Written
    <2>5. ASSUME NEW n \in Names, acked[n] # None
          PROVE  n \in DOMAIN buf[u] /\ buf[u][n] = acked[n]
      <3>1. PICK c \in Registered : Name(c) = n
        BY <1>9, <2>5
      <3> QED BY <1>3, <2>3, <2>5, <3>1 DEF HasAll, Remembered
    <2>6. AckedSaved'
      BY <1>1, <2>1, <2>5 DEF AckedSaved
    <2> QED BY <1>5, <1>6, <1>7, <1>8, <2>2, <2>4, <2>6
  <1> QED BY <1>10, <1>12, <1>13, <1>14

LEMMA DeleteKeepsAcked ==
  ASSUME IInv, AckInv, NEW u \in Updaters, Delete(u)
  PROVE  AckInv'
  <1> USE DEF AckInv
  <1>1. PICK n \in stale[u] : storage' = [storage EXCEPT ![n] = None]
    BY DEF Delete
  <1>2. /\ pc[u] = "delete"
        /\ UNCHANGED <<up, load, checks, mon, saved, file, pc, todo, held, buf, goal, reload,
                       channel, latest, acked>>
    BY DEF Delete, UpdateRest
  <1>3. n \in Names /\ \A c \in Registered : Name(c) # n
    BY <1>2 DEF IInv, Types, Tracks, Working, Sweeping
  <1>4. \A c \in Registered : storage'[Name(c)] = storage[Name(c)]
    BY <1>1, <1>3, RegisteredNames DEF IInv, Types
  <1>5. up /\ ~Reloading /\ Range(reload.todo) = {}
    BY <1>2, RangeOfChecks DEF Restores, IInv, Apart, Idle, Types
  <1>6. MoreTypes' /\ Down' /\ AckedSaved'
    BY <1>1, <1>2 DEF MoreTypes, Down, AckedSaved
  <1>7. Goals'
    BY <1>2 DEF Goals, Registered, Idle
  <1>8. Apiece'
    BY <1>1, <1>2, <1>3 DEF Apiece, Registered, MoreTypes
  <1>9. Restores'
    BY <1>2, <1>5 DEF Restores, Reloading
  <1>10. Remembered'
    BY <1>2, <1>4, <1>5 DEF Remembered, Find, Registered
  <1>11. Carried'
    <2>1. \A v \in Handlers : pc[v] \in Working => goal[v].check \in Registered
      BY DEF Goals, Updaters
    <2> QED BY <1>2, <1>4, <2>1 DEF Carried, Latest
  <1>12. Written'
    BY <1>2, <1>4 DEF Written, HasAll, Registered
  <1> QED BY <1>6, <1>7, <1>8, <1>9, <1>10, <1>11, <1>12

(* A handler goes on with its next id, or ends. *)
LEMMA NextIdGives ==
  ASSUME IInv, MoreTypes, NEW u \in Updaters, goal[u].ids # <<>>, NextId(u)
  PROVE  /\ pc'[u] \in {"idle", "find"} /\ \A v \in Updaters \ {u} : pc'[v] = pc[v]
         /\ pc'[u] = "find" => goal'[u].ids # <<>>
         /\ goal' \in [Updaters -> Aims]
         /\ \A v \in Updaters \ {u} : goal'[v] = goal[v]
  <1>1. goal[u] \in Aims /\ goal \in [Updaters -> Aims]
    BY DEF MoreTypes
  <1>2. CASE Len(goal[u].ids) = 1
    <2>1. NoGoal \in Aims
      BY DEF Aims, NoGoal
    <2>2. pc' = [pc EXCEPT ![u] = "idle"] /\ goal' = [goal EXCEPT ![u] = NoGoal]
      BY <1>2 DEF NextId, Goto
    <2> QED BY <1>1, <2>1, <2>2 DEF IInv, Types
  <1>3. CASE Len(goal[u].ids) # 1
    <2>1. Tail(goal[u].ids) \in Seq(Names) /\ Tail(goal[u].ids) # <<>>
      <3>1. ASSUME NEW s \in Seq(Names), s # <<>>, Len(s) # 1
            PROVE  Tail(s) \in Seq(Names) /\ Tail(s) # <<>>
        <4>1. Len(s) \in Nat /\ Len(s) # 0
          BY <3>1
        <4>2. Tail(s) \in Seq(Names) /\ Len(Tail(s)) = Len(s) - 1
          BY <3>1
        <4>3. Len(Tail(s)) # 0
          BY <3>1, <4>1, <4>2
        <4> QED BY <4>2, <4>3
      <3>2. goal[u].ids \in Seq(Names)
        BY <1>1 DEF Aims
      <3> QED BY <1>3, <3>1, <3>2
    <2>2. pc' = [pc EXCEPT ![u] = "find"]
          /\ goal' = [goal EXCEPT ![u].ids = Tail(@), ![u].check = None]
      BY <1>3 DEF NextId, Goto
    <2>4. goal'[u].ids = Tail(goal[u].ids) /\ goal'[u] \in Aims
      BY <1>1, <2>1, <2>2 DEF Aims
    <2>5. \A v \in Updaters \ {u} : goal'[v] = goal[v]
      BY <1>1, <2>2
    <2>6. goal' \in [Updaters -> Aims]
      BY <1>1, <2>2, <2>4, <2>5
    <2> QED BY <2>1, <2>2, <2>4, <2>5, <2>6 DEF IInv, Types
  <1> QED BY <1>2, <1>3

(* A request is answered: the status it carried is in its check, its entry *)
(* and the file.                                                           *)
LEMMA UnlockKeepsAcked ==
  ASSUME IInv, AckInv, NEW u \in Updaters, Unlock(u)
  PROVE  AckInv'
  <1> USE DEF AckInv
  <1>1. /\ pc[u] \in {"written", "failed"} /\ held' = [held EXCEPT ![u] = {}]
        /\ UNCHANGED <<up, load, checks, mon, storage, saved, file, todo, buf, reload, channel,
                       latest>>
    BY DEF Unlock, UpdateRest
  <1>2. up /\ ~Reloading /\ pc[u] \in Working
    BY <1>1 DEF IInv, Apart, Idle, Working, Sweeping
  <1>3. /\ pc'[u] \in {"idle", "find"} /\ \A v \in Updaters \ {u} : pc'[v] = pc[v]
        /\ pc'[u] = "find" => u \in Handlers /\ goal'[u].ids # <<>>
        /\ goal' \in [Updaters -> Aims]
        /\ \A v \in Updaters \ {u} : goal'[v] = goal[v]
    <2>1. CASE u \in Loopers
      BY <2>1 DEF Unlock, Goto, IInv, Types, MoreTypes
    <2>2. CASE u \notin Loopers
      <3>1. u \in Handlers /\ NextId(u)
        BY <2>2 DEF Unlock, Updaters
      <3>2. goal[u].ids # <<>>
        BY <3>1, <1>1 DEF Goals, Idle
      <3> QED BY <3>1, <3>2, NextIdGives
    <2> QED BY <2>1, <2>2
  <1> DEFINE c == goal[u].check
  <1>4. ASSUME acked' # acked
        PROVE  /\ pc[u] = "written" /\ u \in Handlers /\ latest[Name(c)] = u
               /\ acked' = [acked EXCEPT ![Name(c)] = goal[u].status]
    BY <1>4 DEF Unlock, Updaters
  <1>5. ASSUME acked' # acked
        PROVE  /\ c \in Registered /\ Name(c) \in Names /\ mon[c] = goal[u].status
               /\ storage[Name(c)] # None /\ saved[storage[Name(c)]] = goal[u].status
               /\ Name(c) \in DOMAIN file /\ file[Name(c)] = goal[u].status
               /\ goal[u].status \in BOOLEAN
    <2>1. pc[u] = "written" /\ u \in Handlers /\ latest[Name(c)] = u
      BY <1>4, <1>5
    <2>2. c \in Registered /\ Name(c) \in Names /\ goal[u].status \in BOOLEAN
      BY <2>1, <1>2, RegisteredNames DEF Goals, IInv, MoreTypes, Aims
    <2>3. c \notin Range(todo[u]) /\ pc[u] \in Sweeping
      BY <2>1, <1>2, RangeOfChecks DEF IInv, Tracks, Types, Sweeping
    <2>4. mon[c] = goal[u].status /\ saved[storage[Name(c)]] = goal[u].status
      BY <1>2, <2>1, <2>3 DEF Carried, Latest
    <2>5. storage[Name(c)] # None
      BY <2>2, <2>3, SweeperHolds
    <2>6. Name(c) \in DOMAIN file /\ file[Name(c)] = goal[u].status
      BY <2>1, <2>2, <2>4 DEF Written, HasAll
    <2> QED BY <2>2, <2>4, <2>5, <2>6
  <1> HIDE DEF c
  <1>6. MoreTypes'
    <2>1. acked' \in [Names -> BOOLEAN \cup {None}]
      BY <1>4, <1>5 DEF MoreTypes
    <2>2. \A v \in Updaters : IsFiniteSet(held'[v])
      BY <1>1, FS_EmptySet DEF MoreTypes, IInv, Types
    <2> QED BY <1>1, <1>3, <2>1, <2>2 DEF MoreTypes
  <1>7. Apiece' /\ Restores' /\ Down'
    BY <1>1, <1>2 DEF Apiece, Restores, Reloading, Down, Registered
  <1>8. Goals'
    BY <1>1, <1>3 DEF Goals, Registered, Idle, Working, Sweeping
  <1>9. Carried'
    BY <1>1, <1>3 DEF Carried, Latest, Updaters, Working, Sweeping
  <1>10. Written'
    BY <1>1, <1>3 DEF Written, HasAll, Registered
  <1>11. Remembered'
    <2>1. CASE acked' = acked
      BY <1>1, <2>1 DEF Remembered, Find, Registered
    <2>2. CASE acked' # acked
      <3>1. \A d \in Find(Name(c)) : d = c
        BY <1>5, <2>2, OneOfAName DEF Find
      <3>2. \A n \in Names : acked'[n] = IF n = Name(c) THEN goal[u].status ELSE acked[n]
        BY <1>4, <1>5, <2>2 DEF MoreTypes
      <3> QED BY <1>1, <1>5, <2>2, <3>1, <3>2 DEF Remembered, Find, Registered
    <2> QED BY <2>1, <2>2
  <1>12. AckedSaved'
    <2>1. CASE acked' = acked
      BY <1>1, <2>1 DEF AckedSaved
    <2>2. CASE acked' # acked
      BY <1>1, <1>4, <1>5, <2>2 DEF AckedSaved, MoreTypes
    <2> QED BY <2>1, <2>2
  <1> QED BY <1>6, <1>7, <1>8, <1>9, <1>10, <1>11, <1>12

(* A request that sets a flag overtakes the others for that name. *)
LEMMA SetKeepsAcked ==
  ASSUME IInv, AckInv, NEW u \in Updaters, Set(u)
  PROVE  AckInv'
  <1> USE DEF AckInv
  <1> DEFINE c == goal[u].check
  <1>1. /\ pc[u] = "set" /\ pc' = [pc EXCEPT ![u] = "update"]
        /\ mon' = [mon EXCEPT ![c] = goal[u].status]
        /\ latest' = [latest EXCEPT ![Name(c)] = u]
        /\ acked' = [acked EXCEPT ![Name(c)] = None]
        /\ UNCHANGED <<up, load, checks, storage, saved, file, todo, held, buf, goal, reload,
                       channel>>
    BY DEF Set, Goto, Changed
  <1>2. /\ u \in Handlers /\ c \in Registered /\ c \in Objects /\ Name(c) \in Names
        /\ goal[u].status \in BOOLEAN /\ up
    BY <1>1, RegisteredNames DEF Goals, IInv, MoreTypes, Apart, Idle, Aims
  <1>3. ASSUME NEW d \in Registered, Name(d) # Name(c) PROVE mon'[d] = mon[d]
    BY <1>1, <1>2, <1>3, RegisteredNames DEF MoreTypes, IInv
  <1>4. mon'[c] = goal[u].status
    BY <1>1, <1>2 DEF MoreTypes
  <1> HIDE DEF c
  <1>5. MoreTypes'
    BY <1>1, <1>2 DEF MoreTypes
  <1>6. Apiece' /\ Down'
    BY <1>1, <1>2 DEF Apiece, Down, Registered
  <1>7. Restores'
    BY <1>1, <1>2 DEF Restores, Reloading, IInv, Apart, Idle
  <1>8. Goals'
    BY <1>1, <1>2 DEF Goals, Registered, Idle, IInv, Types, c
  <1>9. AckedSaved'
    BY <1>1, <1>2 DEF AckedSaved, MoreTypes
  <1>10. Remembered'
    BY <1>1, <1>2, <1>3 DEF Remembered, Find, Registered, MoreTypes
  <1>11. Carried'
    <2> SUFFICES ASSUME NEW v \in Handlers, pc'[v] \in {"update"} \cup Working, Latest(v)'
                 PROVE  /\ mon'[goal[v].check] = goal[v].status
                        /\ pc'[v] \in Working /\ goal[v].check \notin Range(todo[v]) =>
                             saved[storage[Name(goal[v].check)]] = goal[v].status
      BY <1>1 DEF Carried
    <2>1. CASE v = u
      <3>1. pc'[u] = "update" /\ "update" \notin Working
        BY <1>1 DEF IInv, Types, Working, Sweeping
      <3> QED BY <2>1, <3>1, <1>4 DEF c
    <2>2. CASE v # u
      <3>1. pc[v] \in {"update"} \cup Working /\ pc'[v] = pc[v] /\ goal[v].check \in Registered
        BY <1>1, <2>2 DEF IInv, Types, Updaters, Goals
      <3>2. Name(goal[v].check) \in Names
        BY <3>1, RegisteredNames DEF IInv
      <3>3. Name(goal[v].check) # Name(c) /\ Latest(v)
        BY <1>1, <1>2, <2>2, <3>2 DEF Latest, MoreTypes
      <3> QED BY <1>3, <3>1, <3>3 DEF Carried
    <2> QED BY <2>1, <2>2
  <1>12. Written'
    BY <1>1 DEF Written, HasAll, Registered, IInv, Types
  <1> QED BY <1>5, <1>6, <1>7, <1>8, <1>9, <1>10, <1>11, <1>12


LEMMA RequestKeepsAcked ==
  ASSUME IInv, AckInv, NEW u \in Updaters, FindCheck(u) \/ \E status \in BOOLEAN : Request(u, status)
  PROVE  AckInv'
  <1> USE DEF AckInv
  <1>1. UNCHANGED <<up, load, checks, mon, storage, saved, file, todo, held, buf, reload, channel,
                    latest, acked>>
    BY DEF FindCheck, Request, memory, history
  <1> DEFINE OnlyU == /\ u \in Handlers /\ pc'[u] \in {"idle", "find", "set"}
                      /\ \A v \in Updaters \ {u} : pc'[v] = pc[v] /\ goal'[v] = goal[v]
                      /\ goal' \in [Updaters -> Aims]
                      /\ pc'[u] # "idle" => goal'[u].ids # <<>>
                      /\ pc'[u] = "set" => goal'[u].check \in Registered
  <1>2. OnlyU
    <2>1. ASSUME NEW status \in BOOLEAN, Request(u, status) PROVE OnlyU
      <3> DEFINE Known == [k \in DOMAIN checks |-> Name(checks[k])]
      <3>1. PICK ids \in {<<n>> : n \in Names} \cup ({Known} \ {<<>>}) :
              goal' = [goal EXCEPT ![u] = [ids |-> ids, check |-> None, status |-> status]]
        BY <2>1 DEF Request
      <3>2. u \in Handlers /\ pc' = [pc EXCEPT ![u] = "find"]
        BY <2>1 DEF Request, Goto
      <3>3. Known \in Seq(Names)
        <4>1. checks \in Seq(Objects)
          BY DEF IInv, Types
        <4>2. DOMAIN checks = 1..Len(checks) /\ Len(checks) \in Nat
          BY <4>1
        <4>3. \A k \in 1..Len(checks) : Name(checks[k]) \in Names
          BY <4>1, NameType
        <4> QED BY <4>2, <4>3
      <3> HIDE DEF Known
      <3>4. ids \in Seq(Names) /\ ids # <<>>
        <4>1. CASE \E n \in Names : ids = <<n>>
          BY <4>1
        <4>2. CASE ids = Known /\ ids # <<>>
          BY <3>3, <4>2
        <4> QED BY <4>1, <4>2
      <3>5. [ids |-> ids, check |-> None, status |-> status] \in Aims
        BY <3>4 DEF Aims
      <3> QED BY <3>1, <3>2, <3>4, <3>5 DEF IInv, Types, MoreTypes
    <2>2. CASE FindCheck(u)
      <3>1. pc[u] = "find" /\ u \in Handlers /\ goal[u].ids # <<>>
        BY <2>2 DEF FindCheck, Goals, Idle
      <3>2. CASE NextId(u)
        BY <3>1, <3>2, NextIdGives
      <3>3. ASSUME NEW c \in Find(Head(goal[u].ids)),
                   goal' = [goal EXCEPT ![u].check = c], Goto(u, "set")
            PROVE  OnlyU
        <4>1. c \in Registered /\ c \in Objects
          BY RegisteredNames DEF Find, IInv
        <4>2. goal'[u] = [goal[u] EXCEPT !.check = c] /\ goal[u] \in Aims
          BY <3>3 DEF MoreTypes
        <4>3. goal'[u] \in Aims /\ goal'[u].ids = goal[u].ids /\ goal'[u].check = c
          BY <4>1, <4>2 DEF Aims
        <4>4. \A v \in Updaters \ {u} : pc'[v] = pc[v] /\ goal'[v] = goal[v]
          BY <3>3 DEF MoreTypes, IInv, Types, Goto
        <4>5. goal' \in [Updaters -> Aims]
          BY <3>3, <4>3, <4>4 DEF MoreTypes
        <4>6. pc'[u] = "set"
          BY <3>3 DEF Goto, IInv, Types
        <4> QED BY <3>1, <4>1, <4>3, <4>4, <4>5, <4>6
      <3> QED BY <2>2, <3>2, <3>3 DEF FindCheck
    <2> QED BY <2>1, <2>2
  <1>3. pc[u] \notin {"set", "update"} \cup Working /\ pc'[u] \notin {"update"} \cup Working
    BY <1>2 DEF FindCheck, Request, Idle, Working, Sweeping
  <1>4. MoreTypes'
    BY <1>1, <1>2 DEF MoreTypes
  <1>5. Apiece' /\ Restores' /\ Down' /\ AckedSaved'
    BY <1>1 DEF Apiece, Restores, Reloading, Down, AckedSaved, Registered
  <1>6. Remembered'
    BY <1>1 DEF Remembered, Find, Registered
  <1>7. Goals'
    BY <1>1, <1>2, <1>3 DEF Goals, Registered, Idle
  <1>8. Carried'
    BY <1>1, <1>2, <1>3 DEF Carried, Latest, Updaters
  <1>9. Written'
    BY <1>1, <1>2 DEF Written, HasAll, Registered
  <1> QED BY <1>4, <1>5, <1>6, <1>7, <1>8, <1>9

(* A flag that an operation changes is nobody's request any more. *)
LEMMA FlipKeepsAcked ==
  ASSUME IInv, AckInv, NEW c \in Objects, Flip(c)
  PROVE  AckInv'
  <1> USE DEF AckInv
  <1>1. /\ c \in Registered /\ mon' = [mon EXCEPT ![c] = ~@]
        /\ latest' = [latest EXCEPT ![Name(c)] = None]
        /\ acked' = [acked EXCEPT ![Name(c)] = None]
        /\ UNCHANGED <<up, load, checks, storage, saved, file, pc, todo, held, buf, goal, reload,
                       channel>> /\ up
    BY DEF Flip, Changed, updaterVars
  <1>2. Name(c) \in Names
    BY NameType
  <1>3. ASSUME NEW d \in Registered, Name(d) # Name(c) PROVE mon'[d] = mon[d]
    BY <1>1, <1>3, RegisteredNames DEF MoreTypes, IInv
  <1>4. MoreTypes'
    BY <1>1, <1>2 DEF MoreTypes
  <1>5. Apiece' /\ Goals' /\ Down'
    BY <1>1 DEF Apiece, Goals, Down, Registered, Idle
  <1>6. \A n \in Names : acked'[n] = IF n = Name(c) THEN None ELSE acked[n]
    BY <1>1 DEF MoreTypes
  <1>7. Restores'
    <2>1. reload.pc = "lock" => Name(Head(reload.todo)) \in Names
      BY RangeOfChecks, NameType DEF IInv, Types, Apart
    <2> QED BY <1>1, <1>6, <2>1 DEF Restores, Reloading
  <1>8. AckedSaved'
    BY <1>1, <1>6 DEF AckedSaved
  <1>9. Remembered'
    BY <1>1, <1>3, <1>6 DEF Remembered, Find, Registered
  <1>10. Carried'
    <2> SUFFICES ASSUME NEW v \in Handlers, pc[v] \in {"update"} \cup Working, Latest(v)'
                 PROVE  Latest(v) /\ mon'[goal[v].check] = mon[goal[v].check]
      BY <1>1 DEF Carried
    <2>1. goal[v].check \in Registered
      BY DEF Goals, Updaters
    <2>2. Name(goal[v].check) \in Names
      BY <2>1, RegisteredNames DEF IInv
    <2>3. None \notin Handlers
      BY RegistryAssumption
    <2>4. Name(goal[v].check) # Name(c) /\ Latest(v)
      BY <1>1, <2>2, <2>3 DEF Latest, MoreTypes
    <2> QED BY <1>3, <2>1, <2>4
  <1>11. Written'
    BY <1>1 DEF Written, HasAll, Registered
  <1> QED BY <1>4, <1>5, <1>7, <1>8, <1>9, <1>10, <1>11

(* Signals wait in the channel. *)
LEMMA SignalKeepsAcked ==
  ASSUME IInv, AckInv, SendHup \/ SendTerm \/ ReloadRefused \/ UNCHANGED vars
  PROVE  AckInv'
  <1> USE DEF AckInv
  <1>1. UNCHANGED <<up, load, checks, mon, storage, saved, file, pc, todo, held, buf, goal, reload,
                    latest, acked>>
    BY DEF SendHup, SendTerm, ReloadRefused, vars, ReloadRest, memory, history, updaterVars
  <1>2. channel' \in {<<>>, <<"hup">>, <<"term">>}
    BY DEF SendHup, SendTerm, ReloadRefused, vars, Deliver, MoreTypes
  <1>3. MoreTypes'
    BY <1>1, <1>2 DEF MoreTypes
  <1>4. Apiece' /\ Goals' /\ Down' /\ Restores' /\ AckedSaved'
    BY <1>1 DEF Apiece, Goals, Down, Restores, Reloading, AckedSaved, Registered, Idle
  <1>5. Remembered' /\ Carried' /\ Written'
    BY <1>1 DEF Remembered, Find, Carried, Latest, Written, HasAll, Registered
  <1> QED BY <1>3, <1>4, <1>5

(* The objects of a configuration have its names and the last generation. *)
LEMMA RangeOfObjs ==
  ASSUME NEW conf \in Confs, NEW g \in 0..MaxLoads
  PROVE  /\ Range(Objs(conf, g)) \subseteq Objects
         /\ \A c \in Range(Objs(conf, g)) : c[1] = g
         /\ \A n \in Range(conf) : n \in Names /\ \E c \in Range(Objs(conf, g)) : Name(c) = n
         /\ \A c \in Range(Objs(conf, g)) : c = <<g, Name(c)>> /\ Name(c) \in Range(conf)
  <1>1. conf \in Seq(Names) /\ DOMAIN conf = 1..Len(conf)
    BY RegistryAssumption
  <1>2. Range(Objs(conf, g)) = {<<g, conf[k]>> : k \in 1..Len(conf)}
    BY DEF Objs, Range
  <1>3. Range(conf) = {conf[k] : k \in 1..Len(conf)}
    BY <1>1 DEF Range
  <1>4. \A k \in 1..Len(conf) : conf[k] \in Names
    BY <1>1
  <1>5. ASSUME NEW c \in Range(Objs(conf, g))
        PROVE  c \in Objects /\ c[1] = g /\ c = <<g, Name(c)>> /\ Name(c) \in Range(conf)
    <2>1. PICK k \in 1..Len(conf) : c = <<g, conf[k]>>
      BY <1>2
    <2> QED BY <1>3, <1>4, <2>1 DEF Name, Objects
  <1>6. ASSUME NEW n \in Range(conf)
        PROVE  n \in Names /\ \E c \in Range(Objs(conf, g)) : Name(c) = n
    <2>1. PICK k \in 1..Len(conf) : n = conf[k]
      BY <1>3
    <2>2. <<g, n>> \in Range(Objs(conf, g)) /\ Name(<<g, n>>) = n
      BY <1>2, <2>1 DEF Name
    <2> QED BY <1>4, <2>1, <2>2
  <1> QED BY <1>5, <1>6

(* While nobody works on the database, no handler carries a status and     *)
(* nobody writes the file.                                                 *)
LEMMA QuietKeepsAcked ==
  ASSUME AckInv, \A u \in Updaters : pc'[u] = "idle",
         MoreTypes', Apiece', Remembered', Restores', Down', AckedSaved'
  PROVE  AckInv'
  BY DEF AckInv, Goals, Carried, Written, Idle, Working, Sweeping, Updaters

(* A reload takes the status of every check it adds from the entry. *)
LEMMA ReloadKeepsAcked ==
  ASSUME IInv, AckInv, Plenty, ReloadAlone, Reload
  PROVE  AckInv'
  <1> USE DEF AckInv
  <1>1. /\ UNCHANGED <<up, file, pc, todo, held, buf, goal, latest>>
        /\ \A u \in Updaters : pc[u] = "idle"
    <2>1. \A u \in Updaters : Idle(u)
      BY DEF Reload, ReloadStart, ReloadGet, ReloadAdd, ReloadEnd, IInv, Apart, Reloading
    <2> QED BY <2>1
            DEF Reload, ReloadStart, ReloadGet, ReloadAdd, ReloadEnd, ReloadRest, updaterVars, Idle
  <1>2. CASE ReloadStart
    <2>1. PICK conf \in Confs :
            /\ reload' = [pc |-> "next", todo |-> Objs(conf, load + 1), cur |-> None, new |-> FALSE]
            /\ acked' = [n \in Names |-> IF n \in Range(conf) THEN acked[n] ELSE None]
      BY <1>2 DEF ReloadStart
    <2>2. /\ load' = load + 1 /\ load' \in 0..MaxLoads /\ up /\ checks' = <<>>
          /\ channel' = <<>> /\ UNCHANGED <<storage, saved>>
          /\ mon' = [c \in Objects |-> IF c[1] = load + 1 THEN TRUE ELSE mon[c]]
      BY <1>2, RegistryAssumption DEF ReloadStart, IInv, Types
    <2>3. Registered' = {}
      BY <2>2 DEF Registered, Range
    <2>4. MoreTypes'
      BY <1>1, <2>1, <2>2 DEF MoreTypes
    <2>5. Apiece'
      BY <2>1, <2>2, <2>3, RangeOfObjs DEF Apiece
    <2>6. Restores' /\ Down'
      BY <1>1, <2>1, <2>2 DEF Restores, Reloading, Down
    <2>7. AckedSaved'
      BY <1>1, <2>1 DEF AckedSaved
    <2>8. Remembered'
      BY <1>1, <2>1, <2>2, <2>3, RangeOfObjs DEF Remembered, Find
    <2> QED BY <1>1, <2>4, <2>5, <2>6, <2>7, <2>8, QuietKeepsAcked
  <1>3. CASE ReloadGet
    <2> DEFINE n == Name(Head(reload.todo))
    <2>1. PICK e \in Entries :
            /\ Entry(n, e)
            /\ reload' = [reload EXCEPT !.pc = "lock", !.cur = e, !.new = storage[n] = None]
      BY <1>3 DEF ReloadGet
    <2>2. /\ reload.pc = "next" /\ reload.todo # <<>>
          /\ UNCHANGED <<load, checks, mon, channel, acked>>
      BY <1>3 DEF ReloadGet
    <2>3. n \in Names
      BY <2>2, RangeOfChecks, NameType DEF IInv, Types
    <2> HIDE DEF n
    <2>4. /\ storage' \in [Names -> Entries \cup {None}] /\ saved' \in [Entries -> BOOLEAN]
          /\ storage'[n] = e
          /\ \A m \in Names : storage[m] # None =>
               storage'[m] = storage[m] /\ saved'[storage[m]] = saved[storage[m]]
          /\ \A m, k \in Names : storage'[m] # None /\ storage'[m] = storage'[k] => m = k
      BY <2>1, <2>3, EntryGives
    <2>5. /\ reload'.pc = "lock" /\ reload'.todo = reload.todo /\ reload'.cur = e
          /\ reload'.new = (storage[n] = None)
      BY <2>1 DEF IInv, Types
    <2>6. MoreTypes' /\ AckedSaved' /\ Down' /\ Apiece'
      BY <1>1, <2>2, <2>4, <2>5 DEF MoreTypes, AckedSaved, Down, Apiece, Registered
    <2>7. Restores'
      <3>1. up
        BY <2>2 DEF IInv, Apart, Reloading
      <3>2. storage[n] = None => acked[n] = None
        BY <2>3, <3>1 DEF Remembered
      <3> QED BY <2>2, <2>4, <2>5, <3>2, RegistryAssumption DEF Restores, Reloading, n
    <2>8. Remembered'
      BY <1>1, <2>2, <2>4, <2>5 DEF Remembered, Find, Registered
    <2> QED BY <1>1, <2>6, <2>7, <2>8, QuietKeepsAcked
  <1>4. CASE ReloadAdd
    <2> DEFINE c == Head(reload.todo)
    <2>1. /\ reload.pc = "lock" /\ checks' = Append(checks, c)
          /\ reload' = [reload EXCEPT !.pc = "next", !.todo = Tail(@), !.cur = None, !.new = FALSE]
          /\ IF reload.new
               THEN saved' = [saved EXCEPT ![reload.cur] = mon[c]] /\ UNCHANGED mon
               ELSE mon' = [mon EXCEPT ![c] = saved[reload.cur]] /\ UNCHANGED saved
          /\ UNCHANGED <<load, storage, channel, acked>>
      BY <1>4 DEF ReloadAdd
    <2>2. /\ c \in Objects /\ c \in Range(reload.todo) /\ Name(c) \in Names
          /\ Range(reload.todo) = {c} \cup Range(Tail(reload.todo)) /\ up
      BY <2>1, RangeOfChecks, NameType DEF IInv, Types, Apart, Reloading
    <2>3. /\ reload'.pc = "next" /\ reload'.todo = Tail(reload.todo)
      BY <2>1 DEF IInv, Types
    <2>4. Registered' = Registered \cup {c}
      <3>1. checks \in Seq(Objects)
        BY DEF IInv, Types
      <3> QED BY <2>1, <2>2, <3>1 DEF Registered, Range
    <2>5. reload.cur = storage[Name(c)] /\ reload.cur # None /\ reload.cur \in Entries
          /\ (reload.new => acked[Name(c)] = None)
      BY <2>1 DEF Restores, IInv, Types
    <2> HIDE DEF c
    <2>6. /\ mon' \in [Objects -> BOOLEAN] /\ saved' \in [Entries -> BOOLEAN]
          /\ \A d \in Objects : d # c => mon'[d] = mon[d]
          /\ \A n \in Names : n # Name(c) /\ storage[n] # None =>
               saved'[storage[n]] = saved[storage[n]]
          /\ ~reload.new => saved' = saved /\ mon'[c] = saved[storage[Name(c)]]
      BY <2>1, <2>2, <2>5 DEF MoreTypes, Apiece
    <2>7. MoreTypes' /\ AckedSaved' /\ Down'
      BY <1>1, <2>1, <2>6 DEF MoreTypes, AckedSaved, Down
    <2>8. Apiece'
      BY <2>1, <2>2, <2>3, <2>4 DEF Apiece
    <2>9. Restores'
      BY <2>3 DEF Restores, Reloading
    <2>10. Remembered'
      <3> SUFFICES ASSUME NEW n \in Names, acked[n] # None
                   PROVE  /\ \E d \in (Registered \cup Range(reload.todo))' : Name(d) = n
                          /\ storage[n] # None /\ saved'[storage[n]] = acked[n]
                          /\ \A d \in Find(n)' : mon'[d] = acked[n]
        BY <1>1, <2>1 DEF Remembered
      <3>1. /\ \E d \in Registered \cup Range(reload.todo) : Name(d) = n
            /\ storage[n] # None /\ saved[storage[n]] = acked[n]
            /\ \A d \in Find(n) : mon[d] = acked[n]
        BY <2>2 DEF Remembered
      <3>2. (Registered \cup Range(reload.todo))' = Registered \cup Range(reload.todo)
        BY <2>2, <2>3, <2>4
      <3>3. saved'[storage[n]] = acked[n]
        BY <2>5, <2>6, <3>1
      <3>4. ASSUME NEW d \in Registered \cup {c}, Name(d) = n PROVE mon'[d] = acked[n]
        <4>1. d = c => n = Name(c) /\ ~reload.new
          BY <2>5, <3>4
        <4>2. CASE d = c
          BY <2>6, <3>1, <4>1, <4>2
        <4>3. CASE d # c
          BY <2>6, <3>1, <3>4, <4>3, RegisteredNames DEF Find, IInv
        <4> QED BY <4>2, <4>3
      <3> QED BY <2>4, <3>1, <3>2, <3>3, <3>4 DEF Find
    <2> QED BY <1>1, <2>7, <2>8, <2>9, <2>10, QuietKeepsAcked
  <1>5. CASE ReloadEnd
    <2>1. /\ reload.pc = "next" /\ reload.todo = <<>>
          /\ reload' = [reload EXCEPT !.pc = "idle"]
          /\ UNCHANGED <<load, checks, mon, storage, saved, channel, acked>>
      BY <1>5 DEF ReloadEnd, memory
    <2>2. reload'.pc = "idle" /\ reload'.todo = <<>>
      BY <2>1 DEF IInv, Types
    <2>3. MoreTypes' /\ AckedSaved' /\ Down' /\ Apiece' /\ Restores'
      BY <1>1, <2>1, <2>2
      DEF MoreTypes, AckedSaved, Down, Apiece, Registered, Restores, Reloading
    <2>4. Remembered'
      BY <1>1, <2>1, <2>2 DEF Remembered, Find, Registered
    <2> QED BY <1>1, <2>3, <2>4, QuietKeepsAcked
  <1> QED BY <1>2, <1>3, <1>4, <1>5 DEF Reload

(* Death keeps what is in the file ... *)
LEMMA DieKeepsAcked ==
  ASSUME IInv, AckInv, Die
  PROVE  AckInv'
  <1> USE DEF AckInv
  <1>1. /\ up' = FALSE /\ UNCHANGED <<load, file>> /\ checks' = <<>> /\ channel' = <<>>
        /\ mon' = [c \in Objects |-> TRUE] /\ saved' = [e \in Entries |-> TRUE]
        /\ storage' = Nobody /\ latest' = Nobody
        /\ pc' = All("idle") /\ held' = All({}) /\ buf' = All(Empty) /\ goal' = All(NoGoal)
        /\ reload' = NoReload /\ acked' = IF file = Empty THEN Nobody ELSE acked
    BY DEF Die
  <1>2. Registered' = {} /\ Range(reload.todo)' = {}
    BY <1>1 DEF Registered, Range, NoReload
  <1>3. MoreTypes'
    <2>1. NoGoal \in Aims
      BY DEF NoGoal, Aims
    <2>2. acked' \in [Names -> BOOLEAN \cup {None}]
      BY <1>1 DEF MoreTypes, Nobody
    <2>3. DOMAIN Empty \subseteq Names /\ Empty \in [DOMAIN Empty -> BOOLEAN]
      BY DEF Empty
    <2>4. \A u \in Updaters : IsFiniteSet(held'[u])
      BY <1>1, FS_EmptySet DEF All
    <2> QED BY <1>1, <2>1, <2>2, <2>3, <2>4 DEF MoreTypes, All, Nobody
  <1>4. Apiece' /\ Restores'
    BY <1>1, <1>2 DEF Apiece, Restores, Nobody, NoReload, Reloading
  <1>5. Down' /\ AckedSaved' /\ Remembered'
    BY <1>1 DEF Down, AckedSaved, Remembered, Nobody
  <1> QED BY <1>1, <1>3, <1>4, <1>5, QuietKeepsAcked DEF All

(* ... and the next start restores it. *)
LEMMA BootKeepsAcked ==
  ASSUME IInv, AckInv, Plenty, Boot
  PROVE  AckInv'
  <1> USE DEF AckInv
  <1>1. PICK conf \in Confs :
          /\ Populate(conf, load + 1)
          /\ acked' = [n \in Names |-> IF n \in Range(conf) THEN acked[n] ELSE None]
    BY DEF Boot
  <1>2. /\ ~up /\ up' /\ load' = load + 1 /\ load' \in 0..MaxLoads
        /\ UNCHANGED <<file, pc, todo, held, buf, goal, reload, channel, latest>>
    BY RegistryAssumption DEF Boot, IInv, Types, updaterVars
  <1>3. ~Reloading /\ reload.todo = <<>> /\ \A u \in Updaters : pc[u] = "idle"
    BY <1>2 DEF IInv, Apart, Idle, Restores
  <1> DEFINE known == DOMAIN file \cup Range(conf)
             place == CHOOSE f \in [known -> Entries] : IsInjective(f)
             status == [n \in known |-> IF n \in DOMAIN file THEN file[n] ELSE TRUE]
  <1>4. /\ storage' = [n \in Names |-> IF n \in known THEN place[n] ELSE None]
        /\ saved' = [e \in Entries |-> \A n \in known : place[n] = e => status[n]]
        /\ mon' = [c \in Objects |-> (c[1] = load + 1 /\ Name(c) \in known) => status[Name(c)]]
        /\ checks' = Objs(conf, load + 1)
    BY <1>1 DEF Populate
  <1>5. known \in SUBSET Names
    BY <1>2, RangeOfObjs DEF MoreTypes
  <1>6. place \in [known -> Entries] /\ \A m, n \in known : place[m] = place[n] => m = n
    BY <1>5, PlaceForAll DEF IsInjective
  <1>7. \A n \in known : status[n] \in BOOLEAN /\ (n \in DOMAIN file => status[n] = file[n])
    BY DEF MoreTypes
  <1> HIDE DEF place, status
  <1>8. \A n \in known : saved'[place[n]] = status[n]
    BY <1>4, <1>6, <1>7
  <1> HIDE DEF known
  <1>9. MoreTypes'
    <2>1. saved' \in [Entries -> BOOLEAN] /\ mon' \in [Objects -> BOOLEAN]
      BY <1>4, <1>7
    <2> QED BY <1>1, <1>2, <1>4, <1>6, <2>1 DEF MoreTypes
  <1>10. Apiece'
    <2>1. \A c \in (Registered \cup Range(reload.todo))' : c[1] = load'
      BY <1>2, <1>3, <1>4, RangeOfObjs, RangeOfChecks DEF Registered, IInv, Types
    <2> QED BY <1>4, <1>6, <2>1 DEF Apiece
  <1>11. Restores' /\ Down'
    BY <1>2, <1>3 DEF Restores, Reloading, Down
  <1>12. AckedSaved'
    BY <1>1, <1>2 DEF AckedSaved
  <1>13. Remembered'
    <2> SUFFICES ASSUME NEW n \in Names, acked'[n] # None
                 PROVE  /\ \E c \in Registered' : Name(c) = n
                        /\ storage'[n] # None /\ saved'[storage'[n]] = acked'[n]
                        /\ \A c \in Find(n)' : mon'[c] = acked'[n]
      BY DEF Remembered
    <2>1. n \in Range(conf) /\ acked'[n] = acked[n] /\ acked[n] # None
      BY <1>1
    <2>2. n \in DOMAIN file /\ file[n] = acked[n]
      BY <1>2, <2>1 DEF Down, AckedSaved
    <2>3. n \in known /\ status[n] = acked[n]
      BY <1>7, <2>2 DEF known
    <2>4. storage'[n] = place[n] /\ place[n] \in Entries
      BY <1>4, <1>6, <2>3
    <2>5. \E c \in Registered' : Name(c) = n
      BY <1>2, <1>4, <2>1, RangeOfObjs DEF Registered
    <2>6. ASSUME NEW c \in Registered', Name(c) = n PROVE mon'[c] = acked[n]
      <3>1. c \in Objects /\ c = <<load + 1, n>>
        BY <1>2, <1>4, <2>6, RangeOfObjs DEF Registered
      <3> QED BY <1>4, <1>7, <2>3, <2>6, <3>1
    <2> QED BY <1>8, <2>1, <2>3, <2>4, <2>5, <2>6, RegistryAssumption DEF Find
  <1> QED BY <1>2, <1>3, <1>9, <1>10, <1>11, <1>12, <1>13, QuietKeepsAcked

LEMMA AckedInit ==
  ASSUME Plenty
  PROVE  Init => AckInv
  <1> SUFFICES ASSUME Init PROVE AckInv
    OBVIOUS
  <1>1. PICK conf \in Confs :
          /\ checks = Objs(conf, 0)
          /\ storage = [n \in Names |-> IF n \in Range(conf)
               THEN (CHOOSE f \in [Range(conf) -> Entries] : IsInjective(f))[n] ELSE None]
    BY DEF Init
  <1> DEFINE place == CHOOSE f \in [Range(conf) -> Entries] : IsInjective(f)
  <1>2. Range(conf) \in SUBSET Names /\ 0 \in 0..MaxLoads
    BY RangeOfObjs, RegistryAssumption
  <1>3. /\ place \in [Range(conf) -> Entries]
        /\ \A m, n \in Range(conf) : place[m] = place[n] => m = n
    BY <1>2, PlaceForAll DEF IsInjective
  <1>4. storage = [n \in Names |-> IF n \in Range(conf) THEN place[n] ELSE None]
    BY <1>1
  <1> HIDE DEF place
  <1>5. /\ up = TRUE /\ load = 0 /\ file = Empty /\ channel = <<>>
        /\ mon = [c \in Objects |-> TRUE] /\ saved = [e \in Entries |-> TRUE]
        /\ latest = Nobody /\ acked = Nobody
        /\ pc = All("idle") /\ held = All({}) /\ buf = All(Empty) /\ goal = All(NoGoal)
        /\ reload = NoReload
    BY DEF Init
  <1>6. MoreTypes
    <2>1. NoGoal \in Aims
      BY DEF NoGoal, Aims
    <2>2. DOMAIN Empty \subseteq Names /\ Empty \in [DOMAIN Empty -> BOOLEAN]
      BY DEF Empty
    <2>3. \A u \in Updaters : IsFiniteSet(held[u])
      BY <1>5, FS_EmptySet DEF All
    <2>4. storage \in [Names -> Entries \cup {None}]
      BY <1>3, <1>4
    <2> QED BY <1>5, <2>1, <2>2, <2>3, <2>4 DEF MoreTypes, All, Nobody
  <1>7. Apiece
    <2>1. \A c \in Registered \cup Range(reload.todo) : c[1] = load
      BY <1>1, <1>2, <1>5, RangeOfObjs DEF Registered, NoReload, Range
    <2> QED BY <1>3, <1>4, <2>1 DEF Apiece
  <1>8. Goals /\ Carried /\ Written
    BY <1>5 DEF Goals, Carried, Written, Idle, All, Working, Sweeping, Updaters
  <1>9. Remembered /\ Restores /\ Down /\ AckedSaved
    BY <1>5 DEF Remembered, Restores, Reloading, NoReload, Down, AckedSaved, Nobody
  <1> QED BY <1>6, <1>7, <1>8, <1>9 DEF AckInv

LEMMA AckedNext ==
  ASSUME ReloadAlone, Plenty
  PROVE  IInv /\ AckInv /\ [Next]_vars => AckInv'
  <1> SUFFICES ASSUME IInv, AckInv, [Next]_vars PROVE AckInv'
    OBVIOUS
  <1>1. CASE SendHup \/ SendTerm \/ ReloadRefused \/ UNCHANGED vars
    BY <1>1, SignalKeepsAcked
  <1>2. ASSUME NEW u \in Updaters, LoopStart(u) \/ HandlerUpdate(u) PROVE AckInv'
    BY <1>2, SnapshotKeepsAcked
  <1>3. ASSUME NEW u \in Updaters, Update(u) PROVE AckInv'
    BY <1>3, GetEntryKeepsAcked, LockKeepsAcked, SweepKeepsAcked, DeleteKeepsAcked,
       UnlockKeepsAcked DEF Update
  <1>4. ASSUME NEW u \in Updaters, FindCheck(u) \/ \E status \in BOOLEAN : Request(u, status)
        PROVE  AckInv'
    BY <1>4, RequestKeepsAcked
  <1>5. ASSUME NEW u \in Updaters, Set(u) PROVE AckInv'
    BY <1>5, SetKeepsAcked
  <1>6. ASSUME NEW c \in Objects, Flip(c) PROVE AckInv'
    BY <1>6, FlipKeepsAcked
  <1>7. CASE Reload
    BY <1>7, ReloadKeepsAcked
  <1>8. CASE Crash \/ Terminate
    BY <1>8, DieKeepsAcked DEF Crash, Terminate
  <1>9. CASE Boot
    BY <1>9, BootKeepsAcked
  <1> QED BY <1>1, <1>2, <1>3, <1>4, <1>5, <1>6, <1>7, <1>8, <1>9 DEF Next, Updaters

LEMMA AckInvHolds ==
  ASSUME ReloadAlone, Plenty
  PROVE  Spec => [](IInv /\ AckInv)
  <1>1. Init => IInv /\ AckInv
    BY InvInit, AckedInit
  <1>2. IInv /\ AckInv /\ [Next]_vars => (IInv /\ AckInv)'
    BY InvNext, AckedNext
  <1> QED BY <1>1, <1>2, PTL DEF Spec

(* The registry, the database and the file only hold what they are made    *)
(* for, and an entry has one holder.                                       *)
THEOREM TypesHold ==
  ASSUME ReloadAlone, Plenty
  PROVE  Spec => []TypeOK
  <1>1. IInv /\ AckInv => TypeOK
    <2> SUFFICES ASSUME IInv, AckInv PROVE TypeOK
      OBVIOUS
    <2>1. Range(file) \subseteq BOOLEAN
      BY DEF AckInv, MoreTypes, Range
    <2>2. Len(channel) <= 1
      <3>1. channel \in {<<>>, <<"hup">>, <<"term">>}
        BY DEF AckInv, MoreTypes
      <3>2. Len(<<>>) <= 1 /\ Len(<<"hup">>) <= 1 /\ Len(<<"term">>) <= 1
        OBVIOUS
      <3> QED BY <3>1, <3>2
    <2> QED BY <2>1, <2>2
            DEF TypeOK, IInv, AckInv, Types, MoreTypes, Held, Aims, Places, Working, Sweeping
  <1> QED BY <1>1, AckInvHolds, PTL

(* What a monitor or unmonitor request was told is saved stays in the      *)
(* state file that UpdateDatabase rewrites, whoever rewrites it.           *)
THEOREM AckedIsSaved ==
  ASSUME ReloadAlone, Plenty
  PROVE  Spec => []AckedSaved
  <1>1. AckInv => AckedSaved
    BY DEF AckInv
  <1> QED BY <1>1, AckInvHolds, PTL

(* It stays the status of the registered check, through reloads, deaths of *)
(* the daemon and starts from the file, until somebody changes it.         *)
THEOREM AckedStays ==
  ASSUME ReloadAlone, Plenty
  PROVE  Spec => []AckedHolds
  <1>1. AckInv => AckedHolds
    BY DEF AckInv, Remembered, AckedHolds
  <1> QED BY <1>1, AckInvHolds, PTL

-----------------------------------------------------------------------------
(* The order of the locks.  The registered checks, with those a reload has *)
(* still to add, are those of a configuration, so that none has the name   *)
(* of another.                                                             *)
Configured == up => \E conf \in Confs : checks \o reload.todo = Objs(conf, load)

(* An updater has been through the first checks, has the others to do, in  *)
(* their order, and holds no other entry than those of the first.          *)
Through(u) == Len(checks) - Len(todo[u])

Ranged(u) == /\ Through(u) \in Nat
             /\ \A i \in 1..Len(todo[u]) : todo[u][i] = checks[Through(u) + i]
             /\ \A e \in held[u] : \E i \in 1..Through(u) : e = storage[Name(checks[i])]

InOrder == \A u \in Updaters : pc[u] \in Working => Ranged(u)

LEMMA ConfNames ==
  ASSUME NEW conf \in Confs, NEW g, NEW i \in 1..Len(Objs(conf, g)), NEW j \in 1..Len(Objs(conf, g)),
         Name(Objs(conf, g)[i]) = Name(Objs(conf, g)[j])
  PROVE  i = j
  <1>1. conf \in Seq(Names) /\ Cardinality(Range(conf)) = Len(conf)
    BY RegistryAssumption
  <1>2. IsFiniteSet(1..Len(conf)) /\ Cardinality(1..Len(conf)) = Len(conf)
    <2>1. Len(conf) \in Nat
      BY <1>1
    <2>2. ASSUME NEW n \in Nat PROVE IsFiniteSet(1..n) /\ Cardinality(1..n) = n
      <3>1. \A a, b \in Int : /\ IsFiniteSet(a..b)
                              /\ Cardinality(a..b) = IF a > b THEN 0 ELSE b - a + 1
        BY FS_Interval
      <3>2. 1 \in Int /\ n \in Int
        OBVIOUS
      <3>3. IsFiniteSet(1..n) /\ Cardinality(1..n) = IF 1 > n THEN 0 ELSE n - 1 + 1
        BY <3>1, <3>2, Zenon
      <3>4. (IF 1 > n THEN 0 ELSE n - 1 + 1) = n
        OBVIOUS
      <3> QED BY <3>3, <3>4
    <2> QED BY <2>1, <2>2
  <1>3. /\ conf \in [1..Len(conf) -> Range(conf)]
        /\ \A x \in Range(conf) : \E k \in 1..Len(conf) : conf[k] = x
    BY <1>1 DEF Range
  <1>4. conf \in Surjection(1..Len(conf), Range(conf))
    BY <1>3 DEF Surjection
  <1>5. conf \in Injection(1..Len(conf), Range(conf))
    BY <1>1, <1>2, <1>4, FS_SurjSameCardinalityImpliesInj
  <1>6. \A k, l \in 1..Len(conf) : conf[k] = conf[l] => k = l
    BY <1>1, <1>5 DEF Injection, IsInjective
  <1>7. Len(Objs(conf, g)) = Len(conf) /\ \A k \in 1..Len(conf) : Name(Objs(conf, g)[k]) = conf[k]
    BY <1>1 DEF Objs, Name
  <1> QED BY <1>6, <1>7

(* Steps that change no check, and no entry that is held. *)
LEMMA OrderStays ==
  ASSUME IInv, InOrder, UNCHANGED <<checks, todo>>,
         \A u \in Updaters : pc'[u] \in Working => pc[u] \in Working /\ held'[u] = held[u],
         \A c \in Registered : storage[Name(c)] # None => storage'[Name(c)] = storage[Name(c)]
  PROVE  InOrder'
  <1> SUFFICES ASSUME NEW u \in Updaters, pc'[u] \in Working PROVE Ranged(u)'
    BY DEF InOrder
  <1>1. Ranged(u) /\ held'[u] = held[u] /\ Through(u)' = Through(u)
    BY DEF InOrder, Through
  <1>2. ASSUME NEW e \in held[u] PROVE \E i \in 1..Through(u) : e = storage'[Name(checks[i])]
    <2>1. PICK i \in 1..Through(u) : e = storage[Name(checks[i])]
      BY <1>1 DEF Ranged
    <2>2. e # None
      BY <1>2, RegistryAssumption DEF IInv, Types
    <2>3. i \in DOMAIN checks
      BY <1>1 DEF IInv, Types, Ranged, Through
    <2> QED BY <2>1, <2>2, <2>3 DEF Registered, Range
  <1> QED BY <1>1, <1>2 DEF Ranged, Through

(* A snapshot has all the checks to do. *)
LEMMA SnapshotInOrder ==
  ASSUME IInv, InOrder, NEW u \in Updaters, pc[u] \notin Working, Snapshot(u),
         UNCHANGED <<checks, held, storage>>
  PROVE  InOrder'
  <1>1. pc' = [pc EXCEPT ![u] = "next"] /\ todo' = [todo EXCEPT ![u] = checks]
    BY DEF Snapshot, Goto
  <1>2. checks \in Seq(Objects) /\ held[u] = {}
    BY DEF IInv, Types, Held
  <1>3. Ranged(u)'
    <2>1. todo'[u] = checks /\ Through(u)' = 0 /\ held'[u] = {}
      BY <1>1, <1>2 DEF Through, IInv, Types
    <2> QED BY <1>2, <2>1 DEF Ranged
  <1>4. ASSUME NEW v \in Updaters, v # u, pc'[v] \in Working PROVE Ranged(v)'
    <2>1. Ranged(v) /\ todo'[v] = todo[v]
      BY <1>1, <1>4 DEF IInv, Types, InOrder
    <2> QED BY <2>1 DEF Ranged, Through
  <1> QED BY <1>3, <1>4 DEF InOrder

(* A lock that is taken is that of the next check. *)
LEMMA LockInOrder ==
  ASSUME IInv, InOrder, NEW u \in Updaters, Lock(u)
  PROVE  InOrder'
  <1>1. /\ pc[u] = "lock" /\ pc' = [pc EXCEPT ![u] = "next"]
        /\ held' = [held EXCEPT ![u] = @ \cup {cur[u]}] /\ todo' = [todo EXCEPT ![u] = Tail(@)]
        /\ UNCHANGED <<checks, storage>>
    BY DEF Lock, UpdateRest, Goto
  <1>2. /\ checks \in Seq(Objects) /\ todo[u] \in Seq(Objects) /\ todo[u] # <<>>
        /\ cur[u] = storage[Name(Head(todo[u]))] /\ Ranged(u)
    BY <1>1 DEF IInv, Types, Tracks, InOrder, Working
  <1>3. ASSUME NEW v \in Updaters, v # u, pc'[v] \in Working PROVE Ranged(v)'
    <2>1. Ranged(v) /\ todo'[v] = todo[v] /\ held'[v] = held[v]
      BY <1>1, <1>3 DEF IInv, Types, InOrder
    <2>2. UNCHANGED <<checks, storage>> /\ Through(v)' = Through(v)
      BY <1>1, <2>1 DEF Through
    <2> QED BY <2>1, <2>2 DEF Ranged
  <1>4. Ranged(u)'
    <2>1. todo'[u] = Tail(todo[u]) /\ held'[u] = held[u] \cup {cur[u]}
      BY <1>1 DEF IInv, Types
    <2>2. Len(todo'[u]) = Len(todo[u]) - 1 /\ \A i \in 1..Len(todo'[u]) : todo'[u][i] = todo[u][i + 1]
      BY <1>2, <2>1
    <2>3. /\ Through(u)' = Through(u) + 1 /\ Through(u) \in Nat
          /\ Head(todo[u]) = checks[Through(u) + 1]
      <3>1. Head(todo[u]) = todo[u][1] /\ 1 \in 1..Len(todo[u])
        BY <1>2
      <3>2. todo[u][1] = checks[Through(u) + 1] /\ Through(u) \in Nat
        BY <1>2, <3>1 DEF Ranged
      <3>3. Len(checks) \in Nat /\ Len(todo[u]) \in Nat /\ checks' = checks
        BY <1>1, <1>2
      <3>4. Through(u)' = Through(u) + 1
        BY <2>2, <3>3 DEF Through
      <3> QED BY <3>1, <3>2, <3>4
    <2>4. ASSUME NEW i \in 1..Len(todo'[u]) PROVE todo'[u][i] = checks[Through(u) + 1 + i]
      <3>1. i + 1 \in 1..Len(todo[u]) /\ todo'[u][i] = todo[u][i + 1]
        BY <1>2, <2>2
      <3>2. todo[u][i + 1] = checks[Through(u) + (i + 1)]
        BY <1>2, <3>1 DEF Ranged
      <3>3. Through(u) + (i + 1) = Through(u) + 1 + i
        BY <2>3
      <3> QED BY <3>1, <3>2, <3>3
    <2>5. ASSUME NEW e \in held'[u]
          PROVE  \E i \in 1..(Through(u) + 1) : e = storage[Name(checks[i])]
      <3>1. CASE e \in held[u]
        BY <1>2, <2>3, <3>1 DEF Ranged
      <3>2. CASE e = cur[u]
        BY <1>2, <2>3, <3>2
      <3> QED BY <2>1, <2>5, <3>1, <3>2
    <2> QED BY <1>1, <2>3, <2>4, <2>5 DEF Ranged
  <1> QED BY <1>3, <1>4 DEF InOrder

(* Every step of an update keeps the order. *)
LEMMA UpdateInOrder ==
  ASSUME IInv, InOrder, NEW u \in Updaters, Update(u)
  PROVE  InOrder'
  <1> USE DEF IInv
  <1>1. ASSUME GetEntry(u) PROVE InOrder'
    <2>1. PICK e \in Entries : Entry(Name(Head(todo[u])), e)
      BY <1>1 DEF GetEntry
    <2>2. /\ pc[u] = "next" /\ pc' = [pc EXCEPT ![u] = "lock"]
          /\ UNCHANGED <<checks, todo, held>>
      BY <1>1 DEF GetEntry, UpdateRest, Goto
    <2>3. \A n \in Names : storage[n] # None => storage'[n] = storage[n]
      BY <2>1 DEF Entry, Types
    <2>4. \A v \in Updaters : pc'[v] \in Working => pc[v] \in Working /\ held'[v] = held[v]
      BY <2>2 DEF Types, Working
    <2> QED BY <2>2, <2>3, <2>4, RegisteredNames, OrderStays
  <1>2. ASSUME Delete(u) PROVE InOrder'
    <2>1. UNCHANGED <<checks, pc, todo, held>>
      BY <1>2 DEF Delete, UpdateRest
    <2>2. ASSUME NEW c \in Registered PROVE storage'[Name(c)] = storage[Name(c)]
      <3>1. Name(c) \in Names /\ Find(Name(c)) # {}
        BY RegisteredNames DEF Find
      <3> QED BY <1>2, <3>1, DeleteKeeps
    <2> QED BY <2>1, <2>2, OrderStays
  <1>3. ASSUME Keys(u) \/ Open(u) \/ Encode(u) \/ Write(u) PROVE InOrder'
    <2>1. UNCHANGED <<checks, todo, held, storage>> /\ pc[u] \in Working
      BY <1>3 DEF Keys, Open, Encode, Write, UpdateRest, Working, Sweeping
    <2>2. \E l \in Places : pc' = [pc EXCEPT ![u] = l]
      BY <1>3 DEF Keys, Open, Encode, Write, Goto, Places, Working, Sweeping
    <2>3. \A v \in Updaters : pc'[v] \in Working => pc[v] \in Working
      BY <2>1, <2>2 DEF Types
    <2> QED BY <2>1, <2>3, OrderStays
  <1>4. ASSUME Unlock(u) PROVE InOrder'
    <2>1. UNCHANGED <<checks, todo, storage>> /\ held' = [held EXCEPT ![u] = {}]
      BY <1>4 DEF Unlock, UpdateRest
    <2>2. \E l \in {"idle", "find"} : pc' = [pc EXCEPT ![u] = l]
      BY <1>4 DEF Unlock, NextId, Goto
    <2>3. \A v \in Updaters : pc'[v] \in Working => pc[v] \in Working /\ held'[v] = held[v]
      BY <2>1, <2>2 DEF Types, Working, Sweeping
    <2> QED BY <2>1, <2>3, OrderStays
  <1> QED BY <1>1, <1>2, <1>3, <1>4, LockInOrder DEF Update

LEMMA ReloadsAlone ==
  ASSUME IInv, ReloadAlone, Reload
  PROVE  UNCHANGED pc /\ \A u \in Updaters : Idle(u)
  <1>1. UNCHANGED pc
    BY DEF Reload, ReloadStart, ReloadGet, ReloadAdd, ReloadEnd, ReloadRest, updaterVars
  <1>2. \A u \in Updaters : Idle(u)
    BY DEF IInv, Reload, ReloadStart, ReloadGet, ReloadAdd, ReloadEnd, Apart, Reloading
  <1> QED BY <1>1, <1>2

LEMMA OrderNext ==
  ASSUME ReloadAlone
  PROVE  IInv /\ InOrder /\ [Next]_vars => InOrder'
  <1> SUFFICES ASSUME IInv, InOrder, [Next]_vars PROVE InOrder'
    OBVIOUS
  <1>1. ASSUME NEW u \in Updaters, LoopStart(u) \/ HandlerUpdate(u) PROVE InOrder'
    <2>1. pc[u] \notin Working
      BY <1>1 DEF LoopStart, HandlerUpdate, Idle, Working, Sweeping
    <2>2. Snapshot(u) /\ UNCHANGED <<checks, held, storage>>
      BY <1>1 DEF LoopStart, HandlerUpdate, UpdateRest
    <2> QED BY <2>1, <2>2, SnapshotInOrder
  <1>2. ASSUME NEW u \in Updaters, Update(u) PROVE InOrder'
    BY <1>2, UpdateInOrder
  <1>3. ASSUME NEW u \in Updaters,
               FindCheck(u) \/ Set(u) \/ \E status \in BOOLEAN : Request(u, status)
        PROVE  InOrder'
    <2>1. UNCHANGED <<checks, todo, held, storage>>
      BY <1>3 DEF FindCheck, Set, Request, memory
    <2>2. \E l \in {"idle", "find", "set", "update"} : pc' = [pc EXCEPT ![u] = l]
      BY <1>3 DEF FindCheck, Set, Request, Goto, NextId
    <2>3. \A v \in Updaters : pc'[v] \in Working => pc[v] \in Working
      BY <2>2 DEF IInv, Types, Working, Sweeping
    <2> QED BY <2>1, <2>3, OrderStays
  <1>4. CASE (\E c \in Objects : Flip(c)) \/ SendHup \/ SendTerm \/ ReloadRefused \/ UNCHANGED vars
    <2>1. UNCHANGED <<checks, pc, todo, held, storage>>
      BY <1>4 DEF Flip, SendHup, SendTerm, ReloadRefused, ReloadRest, memory, updaterVars, vars
    <2> QED BY <2>1, OrderStays
  <1>5. CASE Reload \/ Crash \/ Terminate \/ Boot
    <2>1. \A u \in Updaters : pc'[u] = "idle"
      <3>1. CASE Reload
        BY <3>1, ReloadsAlone DEF Idle
      <3>2. CASE Crash \/ Terminate
        BY <3>2 DEF Crash, Terminate, Die, All
      <3>3. CASE Boot
        BY <3>3 DEF IInv, Boot, Apart, Idle, updaterVars
      <3> QED BY <1>5, <3>1, <3>2, <3>3
    <2> QED BY <2>1 DEF InOrder, Working, Sweeping
  <1> QED BY <1>1, <1>2, <1>3, <1>4, <1>5 DEF Next, Updaters

(* A check that goes from the head of one list to the end of the other     *)
(* leaves the two together as they were.                                   *)
LEMMA CheckMoved ==
  ASSUME NEW l \in Seq(Objects), NEW m \in Seq(Objects), m # <<>>
  PROVE  Append(l, Head(m)) \o Tail(m) = l \o m
  <1> DEFINE x == Append(l, Head(m)) \o Tail(m)
             y == l \o m
  <1>1. x \in Seq(Objects) /\ y \in Seq(Objects) /\ Len(x) = Len(y)
    OBVIOUS
  <1>2. ASSUME NEW i \in 1..Len(x) PROVE x[i] = y[i]
    OBVIOUS
  <1> QED BY <1>1, <1>2, SeqEqual

LEMMA ConfiguredNext ==
  ASSUME ReloadAlone
  PROVE  IInv /\ Restores /\ Configured /\ [Next]_vars => Configured'
  <1> SUFFICES ASSUME IInv, Restores, Configured, [Next]_vars PROVE Configured'
    OBVIOUS
  <1>1. ASSUME UNCHANGED <<up, load, checks, reload>> PROVE Configured'
    BY <1>1 DEF Configured
  <1>2. ASSUME NEW u \in Updaters,
               \/ LoopStart(u) \/ Update(u) \/ FindCheck(u) \/ Set(u) \/ HandlerUpdate(u)
               \/ \E status \in BOOLEAN : Request(u, status)
        PROVE  Configured'
    <2>1. UNCHANGED <<up, load, checks, reload>>
      BY <1>2 DEF LoopStart, Update, GetEntry, Lock, Keys, Delete, Open, Encode, Write, Unlock,
                  FindCheck, Set, HandlerUpdate, Request, UpdateRest, memory
    <2> QED BY <1>1, <2>1
  <1>3. CASE (\E c \in Objects : Flip(c)) \/ SendHup \/ SendTerm \/ ReloadRefused \/ UNCHANGED vars
    BY <1>1, <1>3 DEF Flip, SendHup, SendTerm, ReloadRefused, ReloadRest, memory, vars
  <1>4. CASE ReloadStart
    <2>1. PICK conf \in Confs :
            reload' = [pc |-> "next", todo |-> Objs(conf, load + 1), cur |-> None, new |-> FALSE]
      BY <1>4 DEF ReloadStart
    <2>2. checks' = <<>> /\ load' = load + 1 /\ load + 1 \in 0..MaxLoads
      BY <1>4, RegistryAssumption DEF ReloadStart, IInv, Types
    <2>3. Objs(conf, load + 1) \in Seq(Objects)
      BY <2>2, ObjsType
    <2>4. <<>> \o Objs(conf, load + 1) = Objs(conf, load + 1)
      BY <2>3
    <2> QED BY <2>1, <2>2, <2>4 DEF Configured
  <1>5. CASE ReloadGet \/ ReloadEnd
    <2>1. UNCHANGED <<up, load, checks>>
      BY <1>5 DEF ReloadGet, ReloadEnd, ReloadRest, memory
    <2>2. reload'.todo = reload.todo
      <3>1. CASE ReloadGet
        <4>1. PICK e \in Entries : reload' = [reload EXCEPT !.pc = "lock", !.cur = e,
                                        !.new = storage[Name(Head(reload.todo))] = None]
          BY <3>1 DEF ReloadGet
        <4> QED BY <4>1 DEF IInv, Types
      <3>2. CASE ReloadEnd
        BY <3>2 DEF ReloadEnd, IInv, Types
      <3> QED BY <1>5, <3>1, <3>2
    <2> QED BY <2>1, <2>2 DEF Configured
  <1>6. CASE ReloadAdd
    <2>1. /\ reload.pc = "lock" /\ checks' = Append(checks, Head(reload.todo))
          /\ reload'.todo = Tail(reload.todo) /\ UNCHANGED <<up, load>>
      BY <1>6 DEF ReloadAdd, ReloadRest, IInv, Types
    <2>2. reload.todo \in Seq(Objects) /\ reload.todo # <<>> /\ checks \in Seq(Objects)
      BY <2>1 DEF IInv, Types, Apart
    <2>3. checks' \o reload'.todo = checks \o reload.todo
      BY <2>1, <2>2, CheckMoved
    <2> QED BY <2>1, <2>3 DEF Configured
  <1>7. CASE Crash \/ Terminate
    BY <1>7 DEF Crash, Terminate, Die, Configured
  <1>8. CASE Boot
    <2>1. PICK conf \in Confs : checks' = Objs(conf, load + 1)
      BY <1>8 DEF Boot, Populate
    <2>2. load' = load + 1 /\ load + 1 \in 0..MaxLoads /\ reload' = reload /\ reload.todo = <<>>
      BY <1>8, RegistryAssumption DEF Boot, IInv, Types, Apart, Restores
    <2>3. Objs(conf, load + 1) \in Seq(Objects)
      BY <2>2, ObjsType
    <2>4. Objs(conf, load + 1) \o <<>> = Objs(conf, load + 1)
      BY <2>3
    <2> QED BY <2>1, <2>2, <2>4 DEF Configured
  <1> QED BY <1>2, <1>3, <1>4, <1>5, <1>6, <1>7, <1>8 DEF Next, Reload, Updaters

LEMMA OrderHolds ==
  ASSUME ReloadAlone, Plenty
  PROVE  Spec => [](IInv /\ AckInv /\ Configured /\ InOrder)
  <1>1. Init => Configured /\ InOrder
    <2> SUFFICES ASSUME Init PROVE Configured /\ InOrder
      OBVIOUS
    <2>1. PICK conf \in Confs : checks = Objs(conf, 0)
      BY DEF Init
    <2>2. load = 0 /\ reload.todo = <<>> /\ 0 \in 0..MaxLoads /\ \A u \in Updaters : pc[u] = "idle"
      BY RegistryAssumption DEF Init, NoReload, All
    <2>3. Objs(conf, 0) \in Seq(Objects)
      BY <2>2, ObjsType
    <2>4. Objs(conf, 0) \o <<>> = Objs(conf, 0)
      BY <2>3
    <2> QED BY <2>1, <2>2, <2>4 DEF Configured, InOrder, Working, Sweeping
  <1>2. AckInv => Restores
    BY DEF AckInv
  <1>3. IInv /\ AckInv /\ Configured /\ InOrder /\ [Next]_vars => (Configured /\ InOrder)'
    BY <1>2, OrderNext, ConfiguredNext
  <1> QED BY <1>1, <1>3, AckInvHolds, PTL DEF Spec

-----------------------------------------------------------------------------
LEMMA LeastOf ==
  ASSUME NEW T \in SUBSET Nat, T # {}
  PROVE  \E n \in T : \A m \in T : n <= m
  <1> DEFINE Below == OpToRel(<, Nat)
  <1>1. IsWellFoundedOn(Below, Nat)
    BY NatLessThanWellFounded, Zenon
  <1>2. \A m, n \in Nat : m < n => <<m, n>> \in Below
    BY Zenon DEF OpToRel
  <1> HIDE DEF Below
  <1>3. PICK n \in T : \A m \in T : ~(<<m, n>> \in Below)
    BY <1>1, WFMin
  <1>4. \A m \in T : ~(m < n)
    BY <1>2, <1>3
  <1> QED BY <1>4

(* What is left of a list and how far one has come in it. *)
LEMMA FurtherOn ==
  ASSUME NEW n \in Nat, NEW m \in Nat, NEW l \in Nat
  PROVE  /\ n - m \in Nat /\ m > 0 => n - m + 1 \in 1..n
         /\ n - m + 1 \in 1..(n - l) => l < m
         /\ n - m \in Nat => \A i \in 1..(n - m) : i \in 1..n
  OBVIOUS

(* An update that waits for another has more checks to do than the other:  *)
(* what it waits for is the entry of its next check, which the other has   *)
(* been through.                                                           *)
LEMMA WaitsForTheShorter ==
  ASSUME IInv, Apiece, Restores, Configured, InOrder,
         NEW u \in Updaters, NEW v \in Updaters, WaitsFor(u, v)
  PROVE  Len(todo[u]) \in Nat /\ Len(todo[v]) \in Nat /\ Len(todo[v]) < Len(todo[u])
  <1>1. pc[u] = "lock" /\ pc[v] \in Working /\ cur[u] \in held[v]
    BY DEF WaitsFor, IInv, Held
  <1>2. up /\ reload.todo = <<>>
    BY <1>1 DEF IInv, Apart, Restores, Idle
  <1>3. /\ todo[u] # <<>> /\ cur[u] # None /\ cur[u] = storage[Name(Head(todo[u]))]
        /\ Ranged(u) /\ Ranged(v)
    BY <1>1 DEF IInv, Tracks, InOrder, Working
  <1>4. /\ checks \in Seq(Objects) /\ todo[u] \in Seq(Objects) /\ todo[v] \in Seq(Objects)
    BY DEF IInv, Types
  <1>5. Len(checks) \in Nat /\ Len(todo[u]) \in Nat /\ Len(todo[v]) \in Nat /\ Len(todo[u]) > 0
    BY <1>3, <1>4
  <1> DEFINE k == Through(u) + 1
  <1>6. k \in 1..Len(checks) /\ Head(todo[u]) = checks[k]
    <2>1. Head(todo[u]) = todo[u][1] /\ 1 \in 1..Len(todo[u])
      BY <1>3, <1>4
    <2>2. Through(u) \in Nat /\ todo[u][1] = checks[Through(u) + 1]
      BY <1>3, <2>1 DEF Ranged
    <2>3. k \in 1..Len(checks)
      BY <1>5, <2>2, FurtherOn DEF Through
    <2> QED BY <2>1, <2>2, <2>3
  <1>7. PICK i \in 1..Through(v) : cur[u] = storage[Name(checks[i])]
    BY <1>1, <1>3 DEF Ranged
  <1>8. i \in 1..Len(checks)
    BY <1>3, <1>5 DEF Ranged, Through
  <1>9. Name(checks[i]) = Name(checks[k])
    <2>1. Name(checks[i]) \in Names /\ Name(checks[k]) \in Names
      BY <1>4, <1>6, <1>8, NameType
    <2> QED BY <1>3, <1>6, <1>7, <2>1 DEF Apiece
  <1>10. PICK conf \in Confs : checks = Objs(conf, load)
    BY <1>2, <1>4 DEF Configured
  <1>11. i = k
    <2> HIDE DEF k
    <2> QED BY <1>6, <1>8, <1>9, <1>10, ConfNames
  <1>12. Through(u) + 1 \in 1..Through(v)
    BY <1>11
  <1> QED BY <1>5, <1>12, FurtherOn DEF Through

(* No updates wait for each other in a circle, and none for itself: the    *)
(* one with the fewest checks to do waits for none of the others.          *)
THEOREM UpdatesNeverInterlock ==
  ASSUME ReloadAlone, Plenty
  PROVE  Spec => []NoCircularWait
  <1>1. IInv /\ AckInv /\ Configured /\ InOrder => NoCircularWait
    <2> SUFFICES ASSUME IInv, AckInv, Configured, InOrder,
                        NEW S \in SUBSET Updaters, S # {},
                        \A u \in S : \E v \in S : WaitsFor(u, v)
                 PROVE  FALSE
      BY DEF NoCircularWait
    <2> DEFINE T == {Len(todo[u]) : u \in S}
    <2>1. Apiece /\ Restores
      BY DEF AckInv
    <2>2. T \in SUBSET Nat /\ T # {}
      <3>1. \A u \in S : todo[u] \in Seq(Objects)
        BY DEF IInv, Types
      <3>2. \A u \in S : Len(todo[u]) \in Nat
        BY <3>1
      <3> QED BY <3>2
    <2>3. PICK n \in T : \A m \in T : n <= m
      <3> HIDE DEF T
      <3> QED BY <2>2, LeastOf
    <2>4. PICK u \in S : n = Len(todo[u])
      OBVIOUS
    <2>5. PICK v \in S : WaitsFor(u, v)
      OBVIOUS
    <2>6. Len(todo[u]) \in Nat /\ Len(todo[v]) \in Nat /\ Len(todo[v]) < Len(todo[u])
      BY <2>1, <2>5, WaitsForTheShorter
    <2> QED BY <2>3, <2>4, <2>6
  <1> QED BY <1>1, OrderHolds, PTL
-----------------------------------------------------------------------------
(* One service across a reload (Reloaded).  Each of its two check objects  *)
(* is one that ProcessCheckProofs speaks of, but for the steps of the      *)
(* other one, the reload and the save.                                     *)
CONSTANTS OldId, NewId, NoId, Ops, Prompt, MaxTries, Requests, Switches,
          MaxCommands, MaxCrashes, MaxRoutines, MaxPolls

VARIABLES running, commands, crashes, lastCommand, registered, entry,
          oldInProgress, oldPhase, oldTimer, oldTarget, oldKind, oldPc, oldMonitored,
          oldTries, oldRoutines, oldPolls, oldAttempts, oldCalm,
          newInProgress, newPhase, newTimer, newTarget, newKind, newPc, newMonitored,
          newTries, newRoutines, newPolls, newAttempts, newCalm

Across == INSTANCE Reloaded

Old == INSTANCE ProcessCheckProofs WITH
         Check <- OldId, Overrunning <- {},
         inProgress <- oldInProgress, phase <- oldPhase, timer <- oldTimer,
         target <- oldTarget, kind <- oldKind, pc <- oldPc, monitored <- oldMonitored,
         tries <- oldTries, routines <- oldRoutines, polls <- oldPolls,
         attempts <- oldAttempts, calm <- oldCalm

New == INSTANCE ProcessCheckProofs WITH
         Check <- NewId, Overrunning <- {},
         inProgress <- newInProgress, phase <- newPhase, timer <- newTimer,
         target <- newTarget, kind <- newKind, pc <- newPc, monitored <- newMonitored,
         tries <- newTries, routines <- newRoutines, polls <- newPolls,
         attempts <- newAttempts, calm <- newCalm

(* The objects of Reloaded are those that ProcessCheckProofs speaks of. *)
LEMMA SameOld ==
  /\ \A o \in Ops : Across!Old!Operation(o) <=> Old!Operation(o)
  /\ Across!Old!Routine <=> Old!Routine
  /\ Across!Old!CheckOnce <=> Old!CheckOnce
  /\ Across!Old!Poll <=> Old!Poll
  /\ Across!Old!Command <=> Old!Command
  /\ Across!Old!Crash <=> Old!Crash
  BY DEF Across!Old!Operation, Across!Old!Begin, Across!Old!Leaving, Across!Old!Perform,
          Across!Old!performMonitored, Across!Old!performRunning, Across!Old!performLook,
          Across!Old!performTimeout, Across!Old!performCount, Across!Old!performGiveUp,
          Across!Old!performReset, Across!Old!Start, Across!Old!Stop, Across!Old!Routine,
          Across!Old!startEnter, Across!Old!startCheck, Across!Old!startExec,
          Across!Old!stopEnter, Across!Old!stopCheck, Across!Old!stopExec, Across!Old!Poll,
          Across!Old!CheckOnce, Across!Old!Command, Across!Old!Request, Across!Old!Switch,
          Across!Old!Crash, Across!Old!Take, Across!Old!At, Across!Old!Goto, Across!Old!Done,
          Across!Old!TimesOut, Across!Old!Spawn, Across!Old!Spawned, Across!Old!Leave,
          Across!Old!Proceed, Across!Old!OpRest, Across!Old!RoutineRest, Across!Old!Entry,
          Across!Old!Starting, Across!Old!Stopping, Across!Old!guardVars, Across!Old!checkVars,
          Across!Old!budgets, Across!Old!history, Across!Old!Guard!Take, Across!Old!Guard!Begin,
          Across!Old!Guard!Return, Across!Old!Guard!StopTimer, Across!Old!Guard!Finish,
          Across!Old!Guard!Fire, Across!Old!Guard!Expire, Across!Old!Guard!Release,
          Across!Old!Guard!cleanUp, Across!Old!Guard!Unused, Old!Operation, Old!Begin,
          Old!Leaving, Old!Perform, Old!performMonitored, Old!performRunning, Old!performLook,
          Old!performTimeout, Old!performCount, Old!performGiveUp, Old!performReset, Old!Start,
          Old!Stop, Old!Routine, Old!startEnter, Old!startCheck, Old!startExec, Old!stopEnter,
          Old!stopCheck, Old!stopExec, Old!Poll, Old!CheckOnce, Old!Command, Old!Request,
          Old!Switch, Old!Crash, Old!Take, Old!At, Old!Goto, Old!Done, Old!TimesOut, Old!Spawn,
          Old!Spawned, Old!Leave, Old!Proceed, Old!OpRest, Old!RoutineRest, Old!Entry,
          Old!Starting, Old!Stopping, Old!guardVars, Old!checkVars, Old!budgets, Old!history,
          Old!Guard!Take, Old!Guard!Begin, Old!Guard!Return, Old!Guard!StopTimer,
          Old!Guard!Finish, Old!Guard!Fire, Old!Guard!Expire, Old!Guard!Release,
          Old!Guard!cleanUp, Old!Guard!Unused

LEMMA SameOldStates ==
  /\ Across!Old!Init => Old!Init
  /\ Across!Old!Settled <=> Old!Settled
  BY DEF Across!Old!Init, Across!Old!Guard!Init, Across!Old!Ids, Across!Old!Starting,
         Across!Old!Stopping, Across!Old!Settled, Across!Old!Harmless,
         Old!Init, Old!Guard!Init, Old!Ids, Old!Starting, Old!Stopping, Old!Settled, Old!Harmless

LEMMA SameNew ==
  /\ \A o \in Ops : Across!New!Operation(o) <=> New!Operation(o)
  /\ Across!New!Routine <=> New!Routine
  /\ Across!New!CheckOnce <=> New!CheckOnce
  /\ Across!New!Poll <=> New!Poll
  /\ Across!New!Command <=> New!Command
  /\ Across!New!Crash <=> New!Crash
  BY DEF Across!New!Operation, Across!New!Begin, Across!New!Leaving, Across!New!Perform,
          Across!New!performMonitored, Across!New!performRunning, Across!New!performLook,
          Across!New!performTimeout, Across!New!performCount, Across!New!performGiveUp,
          Across!New!performReset, Across!New!Start, Across!New!Stop, Across!New!Routine,
          Across!New!startEnter, Across!New!startCheck, Across!New!startExec,
          Across!New!stopEnter, Across!New!stopCheck, Across!New!stopExec, Across!New!Poll,
          Across!New!CheckOnce, Across!New!Command, Across!New!Request, Across!New!Switch,
          Across!New!Crash, Across!New!Take, Across!New!At, Across!New!Goto, Across!New!Done,
          Across!New!TimesOut, Across!New!Spawn, Across!New!Spawned, Across!New!Leave,
          Across!New!Proceed, Across!New!OpRest, Across!New!RoutineRest, Across!New!Entry,
          Across!New!Starting, Across!New!Stopping, Across!New!guardVars, Across!New!checkVars,
          Across!New!budgets, Across!New!history, Across!New!Guard!Take, Across!New!Guard!Begin,
          Across!New!Guard!Return, Across!New!Guard!StopTimer, Across!New!Guard!Finish,
          Across!New!Guard!Fire, Across!New!Guard!Expire, Across!New!Guard!Release,
          Across!New!Guard!cleanUp, Across!New!Guard!Unused, New!Operation, New!Begin,
          New!Leaving, New!Perform, New!performMonitored, New!performRunning, New!performLook,
          New!performTimeout, New!performCount, New!performGiveUp, New!performReset, New!Start,
          New!Stop, New!Routine, New!startEnter, New!startCheck, New!startExec, New!stopEnter,
          New!stopCheck, New!stopExec, New!Poll, New!CheckOnce, New!Command, New!Request,
          New!Switch, New!Crash, New!Take, New!At, New!Goto, New!Done, New!TimesOut, New!Spawn,
          New!Spawned, New!Leave, New!Proceed, New!OpRest, New!RoutineRest, New!Entry,
          New!Starting, New!Stopping, New!guardVars, New!checkVars, New!budgets, New!history,
          New!Guard!Take, New!Guard!Begin, New!Guard!Return, New!Guard!StopTimer,
          New!Guard!Finish, New!Guard!Fire, New!Guard!Expire, New!Guard!Release,
          New!Guard!cleanUp, New!Guard!Unused

LEMMA SameNewStates ==
  /\ Across!New!Init => New!Init
  /\ Across!New!Settled <=> New!Settled
  BY DEF Across!New!Init, Across!New!Guard!Init, Across!New!Ids, Across!New!Starting,
         Across!New!Stopping, Across!New!Settled, Across!New!Harmless,
         New!Init, New!Guard!Init, New!Ids, New!Starting, New!Stopping, New!Settled, New!Harmless

(* Each object is as ProcessCheckProofs has it, and the new one is not     *)
(* touched before it is registered.                                        *)
ReloadInv == /\ Old!TypeOK /\ Old!KindInv /\ New!TypeOK /\ New!KindInv
             /\ registered \in {"old", "new"} /\ entry \in BOOLEAN
             /\ registered = "old" => New!Untouched

(* Across!Down *)
IsDown == ~entry /\ Old!Settled /\ (registered = "new" => New!Settled)

StaysDown == IsDown /\ ~Old!Command /\ ~New!Command => IsDown' /\ (running' => running)

LEMMA OldMoves ==
  ASSUME Across!ConstantsOK, ReloadInv, Old!Next, Across!OldRest
  PROVE  ReloadInv' /\ StaysDown
  <1>1. Old!TypeOK' /\ Old!KindInv'
    <2>1. Old!TypeOK'
      BY Old!NextTypeOK DEF Across!ConstantsOK, ReloadInv
    <2> QED BY <2>1, Old!KindStep DEF Across!ConstantsOK, ReloadInv
  <1>2. /\ running' \in BOOLEAN /\ commands' \in 0..MaxCommands /\ crashes' \in 0..MaxCrashes
        /\ lastCommand' \in Old!Kinds \cup {"none", "monitor", "unmonitor", "restarted", "gaveUp"}
    BY <1>1 DEF Old!TypeOK
  <1>3. UNCHANGED <<New!guardVars, newKind, newPc, newTries, newRoutines, newPolls, newAttempts,
                    newCalm>>
    BY DEF Across!OldRest, Across!newVars, New!guardVars
  <1>4. newMonitored' = newMonitored /\ newMonitored \in BOOLEAN /\ New!Kinds = Old!Kinds
    BY DEF Across!OldRest, Across!newVars, ReloadInv, New!TypeOK, New!Kinds, Old!Kinds
  <1>5. /\ New!TypeOK' /\ New!KindInv' /\ (New!Untouched => New!Untouched')
        /\ New!Untouched \/ New!Settled => (~newMonitored' => New!Settled')
    BY <1>2, <1>3, <1>4, New!OthersMove DEF Across!ConstantsOK, ReloadInv
  <1>6. registered' = registered /\ entry' = entry
    BY DEF Across!OldRest
  <1>7. ReloadInv'
    BY <1>1, <1>5, <1>6 DEF ReloadInv
  <1>8. Old!Settled /\ ~Old!Command => Old!Settled' /\ (running' => running)
    BY <1>1, Old!SettledStep DEF Across!ConstantsOK, ReloadInv
  <1>9. New!Settled => New!Settled'
    BY <1>4, <1>5 DEF New!Settled
  <1> QED BY <1>6, <1>7, <1>8, <1>9 DEF StaysDown, IsDown

LEMMA NewMoves ==
  ASSUME Across!ConstantsOK, ReloadInv, registered = "new", New!Next, Across!NewRest
  PROVE  ReloadInv' /\ StaysDown
  <1>1. New!TypeOK' /\ New!KindInv'
    <2>1. New!TypeOK'
      BY New!NextTypeOK DEF Across!ConstantsOK, ReloadInv
    <2> QED BY <2>1, New!KindStep DEF Across!ConstantsOK, ReloadInv
  <1>2. /\ running' \in BOOLEAN /\ commands' \in 0..MaxCommands /\ crashes' \in 0..MaxCrashes
        /\ lastCommand' \in New!Kinds \cup {"none", "monitor", "unmonitor", "restarted", "gaveUp"}
    BY <1>1 DEF New!TypeOK
  <1>3. UNCHANGED <<Old!guardVars, oldKind, oldPc, oldTries, oldRoutines, oldPolls, oldAttempts,
                    oldCalm>>
    BY DEF Across!NewRest, Across!oldVars, Old!guardVars
  <1>4. oldMonitored' = oldMonitored /\ oldMonitored \in BOOLEAN /\ New!Kinds = Old!Kinds
    BY DEF Across!NewRest, Across!oldVars, ReloadInv, Old!TypeOK, New!Kinds, Old!Kinds
  <1>5. /\ Old!TypeOK' /\ Old!KindInv'
        /\ Old!Untouched \/ Old!Settled => (~oldMonitored' => Old!Settled')
    BY <1>2, <1>3, <1>4, Old!OthersMove DEF Across!ConstantsOK, ReloadInv
  <1>6. registered' = "new" /\ entry' = entry
    BY DEF Across!NewRest
  <1>7. ReloadInv'
    BY <1>1, <1>5, <1>6 DEF ReloadInv
  <1>8. New!Settled /\ ~New!Command => New!Settled' /\ (running' => running)
    BY <1>1, New!SettledStep DEF Across!ConstantsOK, ReloadInv
  <1>9. Old!Settled => Old!Settled'
    BY <1>4, <1>5 DEF Old!Settled
  <1> QED BY <1>6, <1>7, <1>8, <1>9 DEF StaysDown, IsDown

(* Nothing of the new object moves before the reload. *)
LEMMA NewWaits ==
  ASSUME Across!ConstantsOK, ReloadInv, Across!NewRun
  PROVE  registered = "new" /\ New!Next
  <1>1. (\E o \in Ops : New!Operation(o)) \/ New!Routine \/ New!CheckOnce
    BY SameNew DEF Across!NewRun
  <1>2. CASE registered = "old"
    <2>1. New!TypeOK /\ New!Untouched
      BY <1>2 DEF ReloadInv
    <2> QED BY <1>1, <2>1, New!UntouchedRests DEF Across!ConstantsOK
  <1> QED BY <1>1, <1>2 DEF ReloadInv, New!Next

(* The new object has the status that was saved. *)
LEMMA ReloadMoves ==
  ASSUME Across!ConstantsOK, ReloadInv, Across!Reload \/ Across!Save
  PROVE  ReloadInv' /\ StaysDown
  <1>1. UNCHANGED <<running, commands, crashes, lastCommand>> /\ UNCHANGED Across!oldVars
    BY DEF Across!Reload, Across!Save, Across!service
  <1>2. UNCHANGED <<New!guardVars, newKind, newPc, newTries, newRoutines, newPolls, newAttempts,
                    newCalm>>
    BY DEF Across!Reload, Across!Save, Across!newVars, New!guardVars
  <1>3. /\ running' \in BOOLEAN /\ commands' \in 0..MaxCommands /\ crashes' \in 0..MaxCrashes
        /\ lastCommand' \in New!Kinds \cup {"none", "monitor", "unmonitor", "restarted", "gaveUp"}
    BY <1>1 DEF ReloadInv, New!TypeOK
  <1>4. newMonitored' \in BOOLEAN /\ entry' \in BOOLEAN /\ registered' \in {"old", "new"}
    BY DEF Across!Reload, Across!Save, Across!Registered, Across!newVars, ReloadInv, New!TypeOK,
           Old!TypeOK
  <1>5. /\ New!TypeOK' /\ New!KindInv' /\ (New!Untouched => New!Untouched')
        /\ New!Untouched \/ New!Settled => (~newMonitored' => New!Settled')
    BY <1>2, <1>3, <1>4, New!OthersMove DEF Across!ConstantsOK, ReloadInv
  <1>6. /\ UNCHANGED <<Old!guardVars, oldKind, oldPc, oldTries, oldRoutines, oldPolls, oldAttempts,
                       oldCalm, oldMonitored>>
        /\ oldMonitored \in BOOLEAN /\ New!Kinds = Old!Kinds
    BY <1>1 DEF Across!oldVars, Old!guardVars, ReloadInv, Old!TypeOK, New!Kinds, Old!Kinds
  <1>7. /\ Old!TypeOK' /\ Old!KindInv'
        /\ Old!Untouched \/ Old!Settled => (~oldMonitored' => Old!Settled')
    BY <1>3, <1>6, Old!OthersMove DEF Across!ConstantsOK, ReloadInv
  <1>8. registered' = "old" => registered = "old"
    BY DEF Across!Reload, Across!Save
  <1>9. ReloadInv'
    BY <1>4, <1>5, <1>7, <1>8 DEF ReloadInv
  <1>10. IsDown => Old!Settled'
    BY <1>6, <1>7 DEF IsDown, Old!Settled
  <1>11. CASE Across!Reload
    <2>1. registered = "old" /\ newMonitored' = entry /\ entry' = entry
      BY <1>11 DEF Across!Reload
    <2>2. IsDown => New!Settled' /\ ~entry'
      BY <1>5, <2>1 DEF IsDown, ReloadInv
    <2> QED BY <1>1, <1>9, <1>10, <2>2 DEF StaysDown, IsDown
  <1>12. CASE Across!Save
    <2>1. /\ entry' = (IF registered = "old" THEN oldMonitored ELSE newMonitored)
          /\ newMonitored' = newMonitored /\ registered' = registered
      BY <1>12 DEF Across!Save, Across!Registered, Across!newVars
    <2>2. IsDown => ~entry'
      BY <2>1 DEF IsDown, ReloadInv, Old!Settled, New!Settled
    <2>3. New!Settled => New!Settled'
      BY <1>5, <2>1 DEF New!Settled
    <2> QED BY <1>1, <1>9, <1>10, <2>1, <2>2, <2>3 DEF StaysDown, IsDown
  <1> QED BY <1>11, <1>12

LEMMA AcrossStep ==
  ASSUME Across!ConstantsOK, ReloadInv, Across!Next
  PROVE  ReloadInv' /\ StaysDown
  <1>1. CASE Across!OldRun
    <2>1. Old!Next /\ Across!OldRest
      BY <1>1, SameOld DEF Across!OldRun, Old!Next
    <2> QED BY <2>1, OldMoves
  <1>2. CASE Across!NewRun
    <2>1. registered = "new" /\ New!Next /\ Across!NewRest
      BY <1>2, NewWaits DEF Across!NewRun
    <2> QED BY <2>1, NewMoves
  <1>3. CASE Across!Drive
    <2>1. \/ Old!Next /\ Across!OldRest
          \/ registered = "new" /\ New!Next /\ Across!NewRest
      BY <1>3, SameOld, SameNew DEF Across!Drive, Old!Next, New!Next
    <2> QED BY <2>1, OldMoves, NewMoves
  <1> QED BY <1>1, <1>2, <1>3, ReloadMoves DEF Across!Next

LEMMA ReloadInvInit ==
  ASSUME Across!ConstantsOK, Across!Init
  PROVE  ReloadInv
  <1>1. Old!Init /\ New!Init
    BY SameOldStates, SameNewStates DEF Across!Init
  <1>2. Old!TypeOK /\ Old!KindInv
    BY <1>1, Old!InitTypeOK, Old!KindInit DEF Across!ConstantsOK
  <1>3. New!TypeOK /\ New!KindInv /\ New!Untouched
    BY <1>1, New!InitTypeOK, New!KindInit, New!InitUntouched DEF Across!ConstantsOK
  <1>4. entry \in BOOLEAN
    BY <1>2 DEF Across!Init, Old!TypeOK
  <1> QED BY <1>2, <1>3, <1>4 DEF Across!Init, ReloadInv

(* A service that is down by command, with the status saved and what was   *)
(* starting it over, is not started by a reload, nor by what the old check *)
(* object has still under way, nor by the polls of the new one, until a    *)
(* command arrives.                                                        *)
THEOREM DownStaysDown ==
  ASSUME Across!ConstantsOK
  PROVE  Across!Spec => Across!DownAcrossReload
  <1>1. Across!Init => ReloadInv
    BY ReloadInvInit
  <1>2. ReloadInv /\ UNCHANGED Across!vars => ReloadInv'
    <2> SUFFICES ASSUME ReloadInv, UNCHANGED Across!vars PROVE ReloadInv'
      OBVIOUS
    <2>1. UNCHANGED <<running, commands, crashes, lastCommand, registered, entry>>
      BY DEF Across!vars, Across!service
    <2>2. /\ UNCHANGED <<New!guardVars, newKind, newPc, newTries, newRoutines, newPolls, newAttempts,
                         newCalm, newMonitored>>
          /\ UNCHANGED <<Old!guardVars, oldKind, oldPc, oldTries, oldRoutines, oldPolls, oldAttempts,
                         oldCalm, oldMonitored>>
      BY DEF Across!vars, Across!oldVars, Across!newVars, Old!guardVars, New!guardVars
    <2>3. /\ running' \in BOOLEAN /\ commands' \in 0..MaxCommands /\ crashes' \in 0..MaxCrashes
          /\ lastCommand' \in New!Kinds \cup {"none", "monitor", "unmonitor", "restarted", "gaveUp"}
          /\ oldMonitored' \in BOOLEAN /\ newMonitored' \in BOOLEAN /\ New!Kinds = Old!Kinds
      BY <2>1, <2>2 DEF ReloadInv, Old!TypeOK, New!TypeOK, New!Kinds, Old!Kinds
    <2>4. New!TypeOK' /\ New!KindInv' /\ (New!Untouched => New!Untouched')
      BY <2>2, <2>3, New!OthersMove DEF Across!ConstantsOK, ReloadInv
    <2>5. Old!TypeOK' /\ Old!KindInv'
      BY <2>2, <2>3, Old!OthersMove DEF Across!ConstantsOK, ReloadInv
    <2> QED BY <2>1, <2>4, <2>5 DEF ReloadInv
  <1>3. ReloadInv /\ [Across!Next]_(Across!vars) => ReloadInv'
    BY <1>2, AcrossStep
  <1>4. ReloadInv /\ [Across!Next]_(Across!vars)
          => [Across!Down /\ ~Across!Old!Command /\ ~Across!New!Command
                => Across!Down' /\ (running' => running)]_(Across!vars)
    <2>1. Across!Down <=> IsDown
      BY SameOldStates, SameNewStates DEF Across!Down, IsDown
    <2>2. Across!Down' <=> IsDown'
      BY DEF Across!Down, IsDown, Across!Old!Settled, Across!Old!Harmless,
             Across!Old!Starting, Across!New!Settled, Across!New!Harmless, Across!New!Starting,
             Old!Settled, Old!Harmless, Old!Starting, New!Settled, New!Harmless, New!Starting
    <2> QED BY <2>1, <2>2, AcrossStep, SameOld, SameNew DEF StaysDown
  <1> QED BY <1>1, <1>3, <1>4, PTL DEF Across!Spec, Across!DownAcrossReload
=============================================================================
