---------------------------- MODULE DaemonProofs ----------------------------
(***************************************************************************)
(* Proofs about Daemon: for any set of processes and any number of         *)
(* commands, what the run checks holds as long as no command overlaps the  *)
(* start of a daemon and no pid is given away twice.                       *)
(***************************************************************************)
EXTENDS Daemon, FiniteSetTheorems, TLAPS

(* Where a process of each kind can be. *)
Shape == \A p \in Procs :
  /\ kind[p] \in {"run", "reload"} => pc[p] \in {"check", "wake"}
  /\ kind[p] = "quit" => pc[p] \in {"check", "read", "term", "wait"}
  /\ kind[p] = "set" => pc[p] \in {"check", "post", "own", "open", "write"}
  /\ kind[p] = "daemon" => pc[p] \in {"init", "pid", "write", "signals", "unlink",
                                      "listen", "loop", "exit"}
  /\ kind[p] \in {"free", "dead", "other"} => pc[p] = "none"

Up(p) == kind[p] = "daemon" /\ pc[p] \in {"loop", "exit"}
Bystander(p) == kind[p] \in {"free", "dead", "other"}

(* Beside a start there is at most a daemon that is up, and beside a       *)
(* daemon that is being started there is nothing of gonit.                 *)
Solo == \A p, q \in Procs : p # q =>
  /\ Starting(p) => Bystander(q) \/ Up(q)
  /\ kind[p] = "daemon" /\ Starting(p) => Bystander(q)

(* The pid file names the daemon, from the moment it has been written, and *)
(* never anything but a daemon or what is left of one.                     *)
Named == /\ \A p \in Procs : kind[p] = "daemon" /\ pc[p] \notin {"init", "pid", "write"}
                               => pidfile = p
         /\ pidfile # None => kind[pidfile] \in {"daemon", "dead"}

(* A command that is about to send a signal has a pid to send it to. *)
Aimed == \A p \in Procs :
  /\ pc[p] \in {"wake", "read", "term", "wait"} => pidfile # None
  /\ pc[p] \in {"term", "wait"} => target[p] # None

(* Only a daemon listens. *)
Served == socket # None => kind[socket] = "daemon"

(* Who writes the state file: a daemon that is up, or a set command that   *)
(* works by itself.                                                        *)
Writers == \A p \in Procs : writing[p] # None => Up(p) \/ (Setting(p) /\ target[p] = p)

(* Where a set command has set the status: in itself, or in a daemon that  *)
(* may have ended since.                                                   *)
Targeted == \A p \in Procs : Setting(p) =>
  /\ target[p] # None
  /\ target[p] = p \/ kind[target[p]] \in {"daemon", "dead"}

(* The way of a promised status to the file: the flag, what is being       *)
(* written, and the file once no command is under way.                     *)
Promise == acked # None =>
  /\ \A p \in Daemons : pc[p] # "init" => flag[p] = acked
  /\ \A p \in Procs : Setting(p) =>
       /\ target[p] = p => Daemons = {}
       /\ target[p] = p /\ pc[p] = "open" => flag[p] = acked
       /\ pc[p] = "write" => writing[target[p]] \in {None, acked}
  /\ (\A p \in Procs : ~Setting(p)) =>
       /\ \A p \in Procs : writing[p] \in {None, acked}
       /\ file = acked \/ \E p \in Daemons : writing[p] = acked

Kept == Writers /\ Targeted /\ Promise

(* What the answers of start and quit leave behind. *)
Answered ==
  /\ last = "quit" => \A p \in Daemons : Up(p) /\ (pc[p] = "exit" \/ channel[p] = "term")
  /\ last \in {"awakened", "dropped"} =>
       /\ pidfile # None /\ kind[pidfile] = "daemon"
       /\ pc[pidfile] = "loop" /\ channel[pidfile] # "term"

(* All of it but the answers. *)
Table == TypeOK /\ Shape /\ Solo /\ Named /\ Aimed /\ Served /\ NoVictims /\ Kept

IInv == Table /\ Answered

-----------------------------------------------------------------------------
LEMMA InvInit == Init => IInv
  BY DaemonAssumption DEF Init, IInv, Table, TypeOK, Kinds, Commands, Shape, Solo, Starting,
     Named, Aimed, Served, Daemons, NoVictims, Kept, Writers, Targeted, Promise, Setting,
     Answered, Up

(* A step that no set command takes part in: it leaves the state file, the *)
(* promise and the commands that have set the status alone; a daemon that  *)
(* ends was not writing.                                                   *)
Apart ==
  /\ UNCHANGED <<file, writing, acked>>
  /\ \A q \in Procs :
       /\ Setting(q)' <=> Setting(q)
       /\ Setting(q) => UNCHANGED <<pc[q], target[q], flag[q]>>
       /\ Up(q) => Up(q)' \/ writing[q] = None
       /\ kind[q] \in {"daemon", "dead"} => kind'[q] \in {"daemon", "dead"}
       /\ kind[q] = "daemon" => kind'[q] = "daemon" \/ writing[q] = None
       /\ kind'[q] = "daemon" => kind[q] = "daemon"
       /\ kind'[q] = "daemon" /\ pc'[q] # "init" => pc[q] # "init" /\ flag'[q] = flag[q]

LEMMA KeptFrame == ASSUME TypeOK, Kept, Apart PROVE Kept'
  <1>1. Writers'
    <2> SUFFICES ASSUME NEW q \in Procs, writing'[q] # None
                 PROVE  Up(q)' \/ (Setting(q)' /\ target'[q] = q)
      BY DEF Writers
    <2>1. writing[q] # None
      BY DEF Apart
    <2>2. Up(q) \/ (Setting(q) /\ target[q] = q)
      BY <2>1 DEF Kept, Writers
    <2>3. CASE Up(q)
      <3>1. Up(q)'
        BY <2>1, <2>3 DEF Apart
      <3> QED BY <3>1
    <2>4. CASE Setting(q) /\ target[q] = q
      <3>1. Setting(q)'
        BY <2>4 DEF Apart
      <3>2. target'[q] = q
        BY <2>4 DEF Apart
      <3> QED BY <3>1, <3>2
    <2> QED BY <2>2, <2>3, <2>4
  <1>2. Targeted'
    BY DEF Kept, Targeted, Apart, TypeOK
  <1>3. Promise'
    <2> SUFFICES ASSUME acked # None PROVE Promise'
      BY DEF Promise, Apart
    <2>1. Daemons' \subseteq Daemons
      BY DEF Daemons, Apart
    <2>2. \A q \in Daemons' : pc'[q] # "init" => flag'[q] = acked
      BY DEF Kept, Promise, Daemons, Apart
    <2>3. ASSUME NEW q \in Procs, Setting(q)'
          PROVE  /\ target'[q] = q => Daemons' = {}
                 /\ target'[q] = q /\ pc'[q] = "open" => flag'[q] = acked
                 /\ pc'[q] = "write" => writing[target'[q]] \in {None, acked}
      BY <2>1, <2>3 DEF Kept, Promise, Apart
    <2>4. ASSUME \A q \in Procs : ~Setting(q)'
          PROVE  /\ \A q \in Procs : writing[q] \in {None, acked}
                 /\ file = acked \/ \E q \in Daemons' : writing[q] = acked
      BY <2>4 DEF Kept, Promise, Daemons, Apart
    <2>5. UNCHANGED <<file, writing, acked>>
      BY DEF Apart
    <2> QED BY <2>2, <2>3, <2>4, <2>5 DEF Promise
  <1> QED BY <1>1, <1>2, <1>3 DEF Kept

(* Beside a command every daemon is up, and the pid file names it. *)
LEMMA BesideCommand ==
  ASSUME Table, NEW p \in Procs, kind[p] \in Commands, NEW q \in Daemons
  PROVE  Up(q) /\ q = pidfile
  <1>1. q \in Procs /\ q # p /\ kind[q] = "daemon" /\ ~Bystander(p)
    BY DEF Daemons, Commands, Bystander
  <1>2. ~Starting(q)
    BY <1>1 DEF Table, Solo
  <1> QED BY <1>1, <1>2 DEF Table, Shape, Named, Up, Starting

(* No answer is being kept while a daemon starts. *)
LEMMA StartForgets ==
  ASSUME IInv, NEW p \in Procs, kind[p] = "daemon", Starting(p)
  PROVE  last \notin {"quit", "awakened", "dropped"}
  <1>1. last # "quit"
    BY DEF IInv, Answered, Daemons, Up, Starting
  <1>2. ASSUME last \in {"awakened", "dropped"} PROVE FALSE
    <2>1. pidfile \in Procs /\ kind[pidfile] = "daemon" /\ pc[pidfile] = "loop"
      BY <1>2 DEF IInv, Answered, Table, TypeOK
    <2> QED BY <2>1 DEF IInv, Table, Solo, Starting, Bystander
  <1> QED BY <1>1, <1>2

(* A command goes on to l. *)
LEMMA MoveKeeps ==
  ASSUME StartAlone, ~Reuse, IInv, NEW p \in Procs, kind[p] \in Commands, NEW l, Goto(p, l),
         l \in CASE kind[p] \in {"run", "reload"} -> {"wake"}
                [] kind[p] = "quit" -> {"read", "term", "wait"}
                [] kind[p] = "set" -> {"post", "own", "open", "write"},
         l \in {"wake", "read"} => pidfile # None,
         l \in {"term", "wait"} => pidfile # None /\ target'[p] # None,
         target' \in [Procs -> Procs \cup {None}],
         \A q \in Procs \ {p} : target'[q] = target[q],
         UNCHANGED <<want, channel, socket, pidfile, commands, others, victims, last>>,
         flag' \in [Procs -> BOOLEAN], file' \in BOOLEAN \cup {None},
         writing' \in [Procs -> BOOLEAN \cup {None}], acked' \in BOOLEAN \cup {None},
         Kept'
  PROVE  IInv'
  <1> USE DaemonAssumption DEF IInv, Table, TypeOK, Shape, Goto, Commands
  <1>1. TypeOK'
    BY DEF Kinds, Commands
  <1>2. Shape'
    OBVIOUS
  <1>3. Solo'
    BY DEF Solo, Starting, Bystander, Up
  <1>4. Aimed'
    BY DEF Aimed
  <1>5. Served'
    BY DEF Served
  <1>6. Named' /\ NoVictims' /\ Answered'
    BY DEF Named, NoVictims, Daemons, Answered, Up
  <1> QED BY <1>1, <1>2, <1>3, <1>4, <1>5, <1>6

(* A command that has not set the status goes on, and does not set it. *)
LEMMA StepKeeps ==
  ASSUME StartAlone, ~Reuse, IInv, NEW p \in Procs, kind[p] \in Commands, ~Setting(p),
         NEW l, Goto(p, l),
         l \in CASE kind[p] \in {"run", "reload"} -> {"wake"}
                [] kind[p] = "quit" -> {"read", "term", "wait"}
                [] kind[p] = "set" -> {"post", "own"},
         l \in {"wake", "read"} => pidfile # None,
         l \in {"term", "wait"} => pidfile # None /\ target'[p] # None,
         target' \in [Procs -> Procs \cup {None}],
         \A q \in Procs \ {p} : target'[q] = target[q],
         UNCHANGED <<want, flag, channel, socket, files, commands, others, history>>
  PROVE  IInv'
  <1>1. Apart
    BY DEF Apart, Goto, files, history, Setting, Up, Commands, IInv, Table, TypeOK
  <1>2. Kept'
    BY <1>1, KeptFrame DEF IInv, Table
  <1>3. /\ flag' \in [Procs -> BOOLEAN] /\ file' \in BOOLEAN \cup {None}
        /\ writing' \in [Procs -> BOOLEAN \cup {None}] /\ acked' \in BOOLEAN \cup {None}
    BY DEF files, history, IInv, Table, TypeOK
  <1>4. l \in CASE kind[p] \in {"run", "reload"} -> {"wake"}
               [] kind[p] = "quit" -> {"read", "term", "wait"}
               [] kind[p] = "set" -> {"post", "own", "open", "write"}
    BY DEF Commands
  <1> QED BY <1>2, <1>3, <1>4, MoveKeeps DEF files, history

(* A command ends, and may have sent a signal or written the state file. *)
LEMMA EndKeeps ==
  ASSUME StartAlone, ~Reuse, IInv, NEW p \in Procs, kind[p] \in Commands, Exit({p}),
         UNCHANGED <<pidfile, commands, others, victims>>,
         channel' \in [Procs -> {"hup", "term", None}],
         last' \in {"none", "started", "awakened", "quit", "dropped"},
         file' \in BOOLEAN \cup {None}, writing' \in [Procs -> BOOLEAN \cup {None}],
         acked' \in BOOLEAN \cup {None},
         Kept'
  PROVE  Table'
  <1> USE DaemonAssumption DEF IInv, Table, TypeOK, Shape, Exit, Commands
  <1>1. TypeOK'
    BY DEF Kinds, Commands
  <1>2. Shape'
    OBVIOUS
  <1>3. Solo'
    BY DEF Solo, Starting, Bystander, Up
  <1>4. Named'
    BY DEF Named
  <1>5. Aimed' /\ Served' /\ NoVictims'
    BY DEF Aimed, Served, NoVictims
  <1> QED BY <1>1, <1>2, <1>3, <1>4, <1>5

(* The end of a command that has set nothing breaks no promise. *)
LEMMA EndApart ==
  ASSUME ~Reuse, IInv, NEW p \in Procs, kind[p] \in Commands, ~Setting(p), Exit({p}),
         UNCHANGED <<file, writing, acked>>
  PROVE  Kept'
  <1>1. Apart
    BY DEF Apart, Exit, Setting, Up, Commands, IInv, Table, TypeOK
  <1> QED BY <1>1, KeptFrame DEF IInv, Table

LEMMA ForeignKeeps ==
  ASSUME StartAlone, ~Reuse, IInv, NEW p \in Procs, Foreign(p)
  PROVE  IInv'
  <1> USE DaemonAssumption DEF IInv, Table, TypeOK, Shape, Foreign, Fresh, args, files, history
  <1>1. TypeOK'
    BY DEF Kinds, Commands
  <1>2. Solo'
    BY DEF Solo, Starting, Bystander, Up
  <1>3. Named'
    BY DEF Named
  <1>4. Shape' /\ Aimed' /\ Served' /\ NoVictims' /\ Answered'
    BY DEF Aimed, Served, Daemons, NoVictims, Answered, Up
  <1>5. Kept'
    <2>1. Apart
      BY DEF Apart, Setting, Up
    <2> QED BY <2>1, KeptFrame
  <1> QED BY <1>1, <1>2, <1>3, <1>4, <1>5

LEMMA InvokeKeeps ==
  ASSUME StartAlone, ~Reuse, IInv, NEW p \in Procs, NEW k \in Commands, Invoke(p, k)
  PROVE  IInv'
  <1> USE DaemonAssumption DEF IInv, Table, TypeOK, Shape, Invoke, Fresh, files, history,
         Commands
  <1>1. TypeOK'
    <2>1. PICK status \in BOOLEAN \cup {None} : want' = [want EXCEPT ![p] = status]
      OBVIOUS
    <2>2. want' \in [Procs -> BOOLEAN \cup {None}]
      BY <2>1
    <2> QED BY <2>2 DEF Kinds
  <1>2. Shape'
    OBVIOUS
  <1>3. Solo'
    BY DEF Solo, Starting, Bystander, Up, AtRest
  <1>4. Named' /\ Aimed' /\ Served' /\ NoVictims' /\ Answered'
    BY DEF Named, Aimed, Served, Daemons, NoVictims, Answered, Up
  <1>5. Kept'
    <2>1. Apart
      BY DEF Apart, Setting, Up
    <2> QED BY <2>1, KeptFrame
  <1> QED BY <1>1, <1>2, <1>3, <1>4, <1>5

(* A daemon is started: nothing else of gonit runs. *)
LEMMA BecomeDaemonKeeps ==
  ASSUME StartAlone, ~Reuse, IInv, NEW p \in Procs, NEW d \in Procs,
         At(p, "run", "check"), ~IsDaemonRunning, BecomeDaemon(p, d)
  PROVE  IInv'
  <1> USE DaemonAssumption DEF IInv, Table, TypeOK, Shape, BecomeDaemon, Fresh, At, args, files
  <1>0. \A q \in Procs \ {p} : Bystander(q)
    <2> SUFFICES ASSUME NEW q \in Procs \ {p} PROVE ~Up(q)
      BY DEF Solo, Starting
    <2> QED BY DEF Up, Named, IsDaemonRunning, Alive
  <1>1. TypeOK'
    BY DEF Kinds, Commands
  <1>2. Shape'
    OBVIOUS
  <1>3. Solo'
    BY <1>0 DEF Solo, Starting, Bystander, Up
  <1>4. Named'
    BY <1>0 DEF Named, Bystander
  <1>5. Served'
    BY <1>0 DEF Served, Daemons, Bystander
  <1>6. Aimed' /\ NoVictims' /\ Answered'
    BY DEF Aimed, NoVictims, Daemons, Answered, Up
  <1>7. Kept'
    <2>1. Daemons = {} /\ (\A q \in Procs : ~Setting(q) /\ ~Up(q))
      BY <1>0 DEF Daemons, Setting, Up, Bystander
    <2>2. \A q \in Procs : writing[q] = None
      BY <2>1 DEF Kept, Writers
    <2>3. acked # None => file = acked
      BY <2>1, <2>2 DEF Kept, Promise
    <2>4. \A q \in Procs : ~Setting(q)' /\ (kind'[q] = "daemon" => pc'[q] = "init")
      BY <1>0 DEF Setting, Bystander
    <2> QED BY <2>2, <2>3, <2>4 DEF Kept, Writers, Targeted, Promise, Daemons
  <1> QED BY <1>1, <1>2, <1>3, <1>4, <1>5, <1>6, <1>7

(* A daemon reads the state file. *)
LEMMA LoadKeeps ==
  ASSUME StartAlone, ~Reuse, IInv, NEW p \in Procs, At(p, "daemon", "init"), Goto(p, "pid"),
         flag' = [flag EXCEPT ![p] = Loaded],
         UNCHANGED <<socket, files>>, Rest
  PROVE  IInv'
  <1> USE DaemonAssumption DEF IInv, Table, TypeOK, Shape, At, Goto, Rest, args, files, history
  <1>1. TypeOK'
    BY DEF Kinds, Commands, Loaded
  <1>2. Solo'
    BY DEF Solo, Starting, Bystander, Up
  <1>3. Kept'
    <2>1. \A q \in Procs : ~Setting(q) /\ ~Up(q) /\ (kind[q] = "daemon" => q = p)
      BY DEF Solo, Starting, Bystander, Setting, Up
    <2>2. \A q \in Procs : writing[q] = None
      BY <2>1 DEF Kept, Writers
    <2>3. acked # None => file = acked
      BY <2>1, <2>2 DEF Kept, Promise, Daemons
    <2>4. acked # None => flag'[p] = acked
      BY <2>3 DEF Loaded
    <2>5. \A q \in Procs : ~Setting(q)' /\ (kind'[q] = "daemon" => q = p)
      BY <2>1 DEF Setting
    <2> QED BY <2>2, <2>3, <2>4, <2>5 DEF Kept, Writers, Targeted, Promise, Daemons
  <1>4. Shape' /\ Named' /\ Aimed' /\ Served' /\ NoVictims' /\ Answered'
    BY DEF Named, Aimed, Served, Daemons, NoVictims, Answered, Up
  <1> QED BY <1>1, <1>2, <1>3, <1>4

(* A daemon whose configuration is invalid ends. *)
LEMMA RefusedKeeps ==
  ASSUME StartAlone, ~Reuse, IInv, NEW p \in Procs, At(p, "daemon", "init"), GiveUp(p)
  PROVE  IInv'
  <1> USE DaemonAssumption DEF IInv, Table, TypeOK, Shape, At, GiveUp, Exit, files, history
  <1>1. TypeOK'
    BY DEF Kinds, Commands
  <1>2. Solo'
    BY DEF Solo, Starting, Bystander, Up
  <1>3. Named'
    BY DEF Named
  <1>4. Shape' /\ Aimed' /\ Served' /\ NoVictims' /\ Answered'
    BY DEF Aimed, Served, Daemons, NoVictims, Answered, Up
  <1>5. Kept'
    <2>1. writing[p] = None
      BY DEF Kept, Writers, Up, Setting
    <2>2. Apart
      BY <2>1 DEF Apart, Setting, Up
    <2> QED BY <2>2, KeptFrame
  <1> QED BY <1>1, <1>2, <1>3, <1>4, <1>5

LEMMA TruncatePidKeeps ==
  ASSUME StartAlone, ~Reuse, IInv, NEW p \in Procs, TruncatePid(p)
  PROVE  IInv'
  <1> USE DaemonAssumption DEF IInv, Table, TypeOK, Shape, TruncatePid, At, Goto, Rest,
         args, history
  <1>1. TypeOK'
    BY DEF Kinds, Commands
  <1>2. Solo'
    BY DEF Solo, Starting, Bystander, Up
  <1>3. Named'
    BY DEF Named, Solo, Starting, Bystander
  <1>4. Aimed'
    BY DEF Aimed, Solo, Starting, Bystander
  <1>5. Answered'
    <2>1. last \notin {"quit", "awakened", "dropped"}
      BY StartForgets DEF Starting
    <2> QED BY <2>1 DEF Answered
  <1>6. Shape' /\ Served' /\ NoVictims'
    BY DEF Served, Daemons, NoVictims
  <1>7. Kept'
    <2>1. Apart
      BY DEF Apart, Setting, Up
    <2> QED BY <2>1, KeptFrame
  <1> QED BY <1>1, <1>2, <1>3, <1>4, <1>5, <1>6, <1>7

LEMMA WritePidKeeps ==
  ASSUME StartAlone, ~Reuse, IInv, NEW p \in Procs, WritePid(p)
  PROVE  IInv'
  <1> USE DaemonAssumption DEF IInv, Table, TypeOK, Shape, WritePid, At, Goto, Rest, args,
         history
  <1>1. TypeOK'
    BY DEF Kinds, Commands
  <1>2. Solo'
    BY DEF Solo, Starting, Bystander, Up
  <1>3. Named'
    BY DEF Named, Solo, Starting, Bystander
  <1>4. Answered'
    <2>1. last \notin {"quit", "awakened", "dropped"}
      BY StartForgets DEF Starting
    <2> QED BY <2>1 DEF Answered
  <1>5. Shape' /\ Aimed' /\ Served' /\ NoVictims'
    BY DEF Aimed, Served, Daemons, NoVictims
  <1>6. Kept'
    <2>1. Apart
      BY DEF Apart, Setting, Up
    <2> QED BY <2>1, KeptFrame
  <1> QED BY <1>1, <1>2, <1>3, <1>4, <1>5, <1>6

LEMMA SetupSignalsKeeps ==
  ASSUME StartAlone, ~Reuse, IInv, NEW p \in Procs, SetupSignals(p)
  PROVE  IInv'
  <1> USE DaemonAssumption DEF IInv, Table, TypeOK, Shape, SetupSignals, At, Goto, Rest,
         args, files, history
  <1>1. TypeOK'
    BY DEF Kinds, Commands
  <1>2. Solo'
    BY DEF Solo, Starting, Bystander, Up
  <1>3. Named'
    BY DEF Named
  <1>4. Shape' /\ Aimed' /\ Served' /\ NoVictims' /\ Answered'
    BY DEF Aimed, Served, Daemons, NoVictims, Answered, Up
  <1>5. Kept'
    <2>1. Apart
      BY DEF Apart, Setting, Up
    <2> QED BY <2>1, KeptFrame
  <1> QED BY <1>1, <1>2, <1>3, <1>4, <1>5

LEMMA UnlinkKeeps ==
  ASSUME StartAlone, ~Reuse, IInv, NEW p \in Procs, Unlink(p)
  PROVE  IInv'
  <1> USE DaemonAssumption DEF IInv, Table, TypeOK, Shape, Unlink, At, Goto, Rest, args,
         files, history
  <1>1. TypeOK'
    BY DEF Kinds, Commands
  <1>2. Solo'
    BY DEF Solo, Starting, Bystander, Up
  <1>3. Served'
    BY DEF Served, Daemons
  <1>4. Shape' /\ Named' /\ Aimed' /\ NoVictims' /\ Answered'
    BY DEF Named, Aimed, NoVictims, Daemons, Answered, Up
  <1>5. Kept'
    <2>1. Apart
      BY DEF Apart, Setting, Up
    <2> QED BY <2>1, KeptFrame
  <1> QED BY <1>1, <1>2, <1>3, <1>4, <1>5

LEMMA ListenKeeps ==
  ASSUME StartAlone, ~Reuse, IInv, NEW p \in Procs, Listen(p)
  PROVE  IInv'
  <1> USE DaemonAssumption DEF IInv, Table, TypeOK, Shape, Listen, At, Goto, Rest, args,
         files, history
  <1>1. TypeOK'
    BY DEF Kinds, Commands
  <1>2. Solo'
    BY DEF Solo, Starting, Bystander, Up
  <1>3. Served'
    BY DEF Served, Daemons
  <1>4. Answered'
    BY DEF Answered, Daemons, Up
  <1>5. Shape' /\ Named' /\ Aimed' /\ NoVictims'
    BY DEF Named, Aimed, NoVictims, Daemons
  <1>6. Kept'
    <2>1. Apart
      BY DEF Apart, Setting, Up
    <2> QED BY <2>1, KeptFrame
  <1> QED BY <1>1, <1>2, <1>3, <1>4, <1>5, <1>6

LEMMA SaveKeeps ==
  ASSUME StartAlone, ~Reuse, IInv, NEW p \in Procs, SaveOpen(p) \/ SaveWrite(p)
  PROVE  IInv'
  <1> USE DEF IInv, Table
  <1>1. kind[p] = "daemon" /\ UNCHANGED <<table, flag, socket, pidfile>> /\ Rest
    BY DEF SaveOpen, SaveWrite
  <1>2. file' \in BOOLEAN \cup {None} /\ writing' \in [Procs -> BOOLEAN \cup {None}]
    BY DEF SaveOpen, SaveWrite, Truncate, Write, TypeOK
  <1>3. TypeOK'
    BY <1>1, <1>2 DEF TypeOK, Kinds, Commands, Rest, table, args, history
  <1>4. Shape' /\ Solo' /\ Named' /\ Aimed' /\ Served' /\ NoVictims' /\ Answered'
    BY <1>1 DEF Rest, table, args, history, Shape, Solo, Starting, Bystander, Up, Named, Aimed,
                Served, Daemons, NoVictims, Answered
  <1>5. Targeted' /\ Daemons' = Daemons /\ (\A q \in Procs : Setting(q)' <=> Setting(q))
    BY <1>1 DEF Rest, table, args, Kept, Targeted, Setting, Daemons
  <1>6. CASE SaveOpen(p)
    <2>1. Up(p) /\ writing' = [writing EXCEPT ![p] = flag[p]] /\ UNCHANGED <<kind, pc, target>>
      BY <1>1, <1>6 DEF SaveOpen, Truncate, Up, table, Rest, args
    <2>2. Writers'
      <3> SUFFICES ASSUME NEW q \in Procs, writing'[q] # None
                   PROVE  Up(q)' \/ (Setting(q)' /\ target'[q] = q)
        BY DEF Writers
      <3>1. CASE q = p
        <4>1. Up(q)'
          BY <2>1, <3>1 DEF Up
        <4> QED BY <4>1
      <3>2. CASE q # p
        BY <2>1, <3>2 DEF Kept, Writers, Up, Setting, TypeOK
      <3> QED BY <3>1, <3>2
    <2>3. Promise'
      <3> SUFFICES ASSUME acked # None PROVE Promise'
        BY <1>1 DEF Promise, Rest, history
      <3>1. flag[p] = acked /\ p \in Daemons
        BY <2>1 DEF Kept, Promise, Up, Daemons
      <3>2. \A q \in Procs : writing'[q] = IF q = p THEN acked ELSE writing[q]
        BY <2>1, <3>1 DEF TypeOK
      <3>3. UNCHANGED <<acked, flag, pc, target>>
        BY <1>1, <2>1 DEF Rest, history
      <3>4. ASSUME NEW q \in Procs, Setting(q)'
            PROVE  /\ target'[q] = q => Daemons' = {}
                   /\ target'[q] = q /\ pc'[q] = "open" => flag'[q] = acked
                   /\ pc'[q] = "write" => writing'[target'[q]] \in {None, acked}
        <4>1. Setting(q) /\ target[q] \in Procs
          BY <1>5, <3>4 DEF Kept, Targeted, TypeOK
        <4> QED BY <1>5, <3>2, <3>3, <4>1 DEF Kept, Promise
      <3>5. ASSUME \A q \in Procs : ~Setting(q)'
            PROVE  \A q \in Procs : writing'[q] \in {None, acked}
        BY <1>5, <3>2, <3>5 DEF Kept, Promise
      <3> QED BY <1>5, <3>1, <3>2, <3>3, <3>4, <3>5 DEF Kept, Promise, Daemons
    <2> QED BY <1>3, <1>4, <1>5, <2>2, <2>3 DEF Kept
  <1>7. CASE SaveWrite(p)
    <2>1. file' = writing[p] /\ writing[p] # None /\ writing' = [writing EXCEPT ![p] = None]
      BY <1>7 DEF SaveWrite, Write
    <2>2. Writers'
      BY <1>1, <2>1 DEF Rest, table, args, Kept, Writers, Up, Setting, TypeOK
    <2>3. Promise'
      BY <1>1, <1>5, <2>1 DEF Rest, table, args, history, Kept, Promise, Daemons, TypeOK
    <2> QED BY <1>3, <1>4, <1>5, <2>2, <2>3 DEF Kept
  <1> QED BY <1>6, <1>7

LEMMA HupKeeps ==
  ASSUME StartAlone, ~Reuse, IInv, NEW p \in Procs, Hup(p)
  PROVE  IInv'
  <1> USE DaemonAssumption DEF IInv, Table, TypeOK, Shape, Hup, Handles, table, args,
         files, history
  <1>1. TypeOK'
    BY DEF Kinds, Commands
  <1>2. Answered'
    BY DEF Answered, Daemons, Up
  <1>3. Shape' /\ Solo' /\ Named' /\ Aimed' /\ Served' /\ NoVictims'
    BY DEF Solo, Starting, Bystander, Up, Named, Aimed, Served, Daemons, NoVictims
  <1>4. Kept'
    <2>1. Apart
      BY DEF Apart, Setting, Up
    <2> QED BY <2>1, KeptFrame
  <1> QED BY <1>1, <1>2, <1>3, <1>4

LEMMA TermKeeps ==
  ASSUME StartAlone, ~Reuse, IInv, NEW p \in Procs, Term(p)
  PROVE  IInv'
  <1> USE DaemonAssumption DEF IInv, Table, TypeOK, Shape, Term, Handles, Goto, args,
         files, history
  <1>1. TypeOK'
    BY DEF Kinds, Commands
  <1>2. Solo'
    BY DEF Solo, Starting, Bystander, Up
  <1>3. Named'
    BY DEF Named
  <1>4. Answered'
    BY DEF Answered, Daemons, Up
  <1>5. Shape' /\ Aimed' /\ Served' /\ NoVictims'
    BY DEF Aimed, Served, Daemons, NoVictims
  <1>6. Kept'
    <2>1. Apart
      BY DEF Apart, Setting, Up
    <2> QED BY <2>1, KeptFrame
  <1> QED BY <1>1, <1>2, <1>3, <1>4, <1>5, <1>6

(* The daemon leaves, and its pid stays in the pid file. *)
LEMMA LeaveKeeps ==
  ASSUME StartAlone, ~Reuse, IInv, NEW p \in Procs, Leave(p)
  PROVE  IInv'
  <1> USE DaemonAssumption DEF IInv, Table, TypeOK, Shape, Leave, At, Exit, Cut
  <1>1. TypeOK'
    BY DEF Kinds, Commands
  <1>2. Solo'
    BY DEF Solo, Starting, Bystander, Up
  <1>3. Named'
    BY DEF Named
  <1>4. Answered'
    BY DEF Answered, Daemons, Up
  <1>5. Shape' /\ Aimed' /\ Served' /\ NoVictims'
    BY DEF Aimed, Served, Daemons, NoVictims
  <1>6. Kept'
    <2>1. CASE writing[p] = None
      <3>1. Apart
        BY <2>1 DEF Apart, Setting, Up
      <3> QED BY <3>1, KeptFrame
    <2>2. CASE writing[p] # None
      BY <2>2 DEF Kept, Writers, Targeted, Promise, Setting, Up
    <2> QED BY <2>1, <2>2
  <1> QED BY <1>1, <1>2, <1>3, <1>4, <1>5, <1>6

(* ... and sends no signal. *)
LEMMA AnswerKeeps ==
  ASSUME StartAlone, ~Reuse, IInv, NEW p \in Procs, kind[p] \in Commands, Exit({p}),
         UNCHANGED <<pidfile, channel, commands, others, victims, last>>,
         file' \in BOOLEAN \cup {None}, writing' \in [Procs -> BOOLEAN \cup {None}],
         acked' \in BOOLEAN \cup {None},
         Kept'
  PROVE  IInv'
  <1>1. Table'
    BY EndKeeps DEF IInv, Table, TypeOK
  <1>2. Answered'
    BY DEF Exit, IInv, Answered, Table, TypeOK, Daemons, Up, Commands
  <1> QED BY <1>1, <1>2 DEF IInv

LEMMA GiveUpKeeps ==
  ASSUME StartAlone, ~Reuse, IInv, NEW p \in Procs, kind[p] \in Commands, ~Setting(p), GiveUp(p)
  PROVE  IInv'
  <1>1. Kept'
    BY EndApart DEF GiveUp, files, history
  <1> QED BY <1>1, AnswerKeeps DEF GiveUp, files, history, IInv, Table, TypeOK

(* A set command sets the status in a daemon that is up, or in itself. *)
LEMMA SetFlagKeeps ==
  ASSUME StartAlone, ~Reuse, IInv, NEW p \in Procs, kind[p] = "set", ~Setting(p),
         NEW t \in Procs, t = p \/ kind[t] = "daemon", NEW status \in BOOLEAN,
         want[p] # None => status = want[p],
         want[p] = None /\ acked # None /\ (\A q \in Procs : ~Setting(q))
           /\ (t = p => Daemons = {}) => status = acked,
         SetFlag(p, t, status)
  PROVE  IInv'
  <1> USE DEF IInv, Table
  <1>1. /\ flag' = [flag EXCEPT ![t] = status] /\ target' = [target EXCEPT ![p] = t]
        /\ pc' = [pc EXCEPT ![p] = "open"] /\ UNCHANGED <<kind, file, writing>>
    BY DEF SetFlag, Goto, files
  <1>2. /\ UNCHANGED <<want, channel, socket, pidfile, commands, others, victims, last>>
        /\ Goto(p, "open")
    BY DEF SetFlag, files
  <1>3. acked' = None \/ /\ acked' = status
                         /\ t = p => Daemons = {}
                         /\ acked = status \/ \A q \in Procs : ~Setting(q)
    <2>1. acked' = IF \/ t = p /\ (\E q \in Procs : kind[q] = "daemon")
                      \/ acked # status /\ (\E q \in Procs : Setting(q))
                   THEN None ELSE IF want[p] = None THEN acked ELSE status
      BY DEF SetFlag
    <2> QED BY <2>1 DEF Daemons
  <1>4. acked' \in BOOLEAN \cup {None}
    BY <1>3
  <1>5. /\ \A q \in Procs : Setting(q)' <=> q = p \/ Setting(q)
        /\ \A q \in Procs : Up(q)' <=> Up(q)
    BY <1>1 DEF Setting, Up, TypeOK
  <1>6. Daemons' = Daemons /\ p \notin Daemons /\ \A q \in Daemons : Up(q) /\ pc'[q] = pc[q]
    BY <1>1, BesideCommand DEF Daemons, Commands, TypeOK
  <1>7. Writers'
    BY <1>1, <1>5 DEF Kept, Writers, TypeOK, Up
  <1>8. Targeted'
    BY <1>1, <1>5, DaemonAssumption DEF Kept, Targeted, TypeOK
  <1>9. Promise'
    <2> SUFFICES ASSUME acked' # None PROVE Promise'
      BY DEF Promise
    <2>1. acked' = status /\ (t = p => Daemons = {})
      BY <1>3
    <2>2. ASSUME NEW q \in Daemons' PROVE flag'[q] = status
      <3>1. CASE t = q
        BY <1>1, <3>1 DEF TypeOK
      <3>2. CASE t # q
        <4>1. t = p
          BY <1>6, <3>2, BesideCommand DEF Daemons, Commands
        <4> QED BY <1>6, <2>1, <4>1
      <3> QED BY <3>1, <3>2
    <2>3. ASSUME NEW q \in Procs, Setting(q)'
          PROVE  /\ target'[q] = q => Daemons' = {}
                 /\ target'[q] = q /\ pc'[q] = "open" => flag'[q] = status
                 /\ pc'[q] = "write" => writing[target'[q]] \in {None, status}
      <3>1. CASE q = p
        BY <1>1, <1>6, <2>1, <3>1 DEF TypeOK
      <3>2. CASE q # p
        <4>1. Setting(q) /\ acked = status
          BY <1>3, <1>5, <2>3, <3>2
        <4>2. q # t
          BY <3>2, <4>1 DEF Setting
        <4>3. UNCHANGED <<target[q], pc[q], flag[q], writing>>
          BY <1>1, <3>2, <4>2 DEF TypeOK
        <4> QED BY <1>6, <2>1, <4>1, <4>3 DEF Kept, Promise
      <3> QED BY <3>1, <3>2
    <2> QED BY <1>1, <1>5, <2>1, <2>2, <2>3 DEF Promise
  <1>10. flag' \in [Procs -> BOOLEAN] /\ target' \in [Procs -> Procs \cup {None}]
         /\ (\A q \in Procs \ {p} : target'[q] = target[q])
    BY <1>1 DEF TypeOK
  <1>11. file' \in BOOLEAN \cup {None} /\ writing' \in [Procs -> BOOLEAN \cup {None}]
    BY <1>1 DEF TypeOK
  <1> HIDE DEF IInv, Table
  <1> QED BY <1>2, <1>4, <1>7, <1>8, <1>9, <1>10, <1>11, MoveKeeps DEF Commands, Kept

(* Its status is what was set, or what was there before. *)
LEMMA SetsKeep ==
  ASSUME StartAlone, ~Reuse, IInv, NEW p \in Procs, SetPost(p) \/ SetOwn(p)
  PROVE  IInv'
  <1> USE DEF IInv, Table
  <1>1. kind[p] = "set" /\ ~Setting(p) /\ kind[p] \in Commands
    BY DEF SetPost, SetOwn, At, Setting, Commands
  <1>2. CASE socket # None /\ SetFlag(p, socket, Asked(p, flag[socket]))
    <2>1. socket \in Procs /\ kind[socket] = "daemon"
      BY <1>2 DEF TypeOK, Served
    <2>2. socket \in Daemons /\ Up(socket)
      BY <1>1, <2>1, BesideCommand DEF Daemons
    <2>3. acked # None => flag[socket] = acked
      BY <2>2 DEF Kept, Promise, Up
    <2>4. Asked(p, flag[socket]) \in BOOLEAN
      BY <2>1 DEF Asked, TypeOK
    <2>5. Asked(p, flag[socket]) = IF want[p] = None THEN flag[socket] ELSE want[p]
      BY DEF Asked
    <2> HIDE DEF IInv, Table
    <2> QED BY <1>1, <1>2, <2>1, <2>3, <2>4, <2>5, SetFlagKeeps
  <1>3. CASE SetOwn(p)
    <2>1. Asked(p, Loaded) \in BOOLEAN /\ Loaded \in BOOLEAN
      BY DEF Asked, Loaded, TypeOK
    <2>2. acked # None /\ (\A q \in Procs : ~Setting(q)) /\ Daemons = {} => Loaded = acked
      BY DEF Kept, Promise, Loaded
    <2>3. Asked(p, Loaded) = IF want[p] = None THEN Loaded ELSE want[p]
      BY DEF Asked
    <2>4. SetFlag(p, p, Asked(p, Loaded))
      BY <1>3 DEF SetOwn
    <2> HIDE DEF IInv, Table
    <2> QED BY <1>1, <2>1, <2>2, <2>3, <2>4, SetFlagKeeps
  <1>4. CASE GiveUp(p)
    BY <1>1, <1>4, GiveUpKeeps
  <1> QED BY <1>2, <1>3, <1>4 DEF SetPost

LEMMA SetOpenKeeps ==
  ASSUME StartAlone, ~Reuse, IInv, NEW p \in Procs, SetOpen(p)
  PROVE  IInv'
  <1> USE DEF IInv, Table
  <1> DEFINE t == target[p]
  <1>1. /\ kind[p] = "set" /\ Setting(p) /\ pc[p] = "open" /\ kind[p] \in Commands
        /\ t # p => kind[t] = "daemon"
    BY DEF SetOpen, At, Setting, Commands
  <1>2. t \in Procs /\ (t # p => t \in Daemons /\ Up(t))
    BY <1>1, BesideCommand DEF Kept, Targeted, TypeOK, Daemons
  <1>3. /\ UNCHANGED <<kind, target, flag, want, channel, socket, pidfile, commands, others>>
        /\ UNCHANGED <<acked, victims, last>>
        /\ Goto(p, "write") /\ pc' = [pc EXCEPT ![p] = "write"]
        /\ file' = None /\ writing' = [writing EXCEPT ![t] = flag[t]]
    BY DEF SetOpen, Goto, Truncate, args, history
  <1>4. /\ \A q \in Procs : Setting(q)' <=> Setting(q)
        /\ \A q \in Procs : Up(q)' <=> Up(q)
        /\ Daemons' = Daemons
    BY <1>1, <1>3 DEF Setting, Up, TypeOK, Daemons
  <1>5. Writers'
    <2> SUFFICES ASSUME NEW q \in Procs, writing'[q] # None
                 PROVE  Up(q)' \/ (Setting(q)' /\ target'[q] = q)
      BY DEF Writers
    <2>1. CASE q = t
      <3>1. CASE t = p
        <4>1. Setting(p)' /\ target'[p] = p
          BY <1>1, <1>3, <1>4, <3>1
        <4> QED BY <2>1, <3>1, <4>1
      <3>2. CASE t # p
        <4>1. Up(q) <=> Up(t)
          BY <2>1
        <4>2. Up(q)'
          BY <1>2, <1>4, <3>2, <4>1
        <4> QED BY <4>2
      <3> QED BY <3>1, <3>2
    <2>2. CASE q # t
      BY <1>2, <1>3, <1>4, <2>2 DEF Kept, Writers, TypeOK
    <2> QED BY <2>1, <2>2
  <1>6. Targeted'
    BY <1>3, <1>4 DEF Kept, Targeted
  <1>7. Promise'
    <2> SUFFICES ASSUME acked # None PROVE Promise'
      BY <1>3 DEF Promise
    <2>1. flag[t] = acked
      BY <1>1, <1>2 DEF Kept, Promise, Up
    <2>2. \A q \in Procs : writing'[q] = IF q = t THEN acked ELSE writing[q]
      BY <1>2, <1>3, <2>1 DEF TypeOK
    <2>3. ASSUME NEW q \in Procs, Setting(q)'
          PROVE  /\ target'[q] = q => Daemons' = {}
                 /\ target'[q] = q /\ pc'[q] = "open" => flag'[q] = acked
                 /\ pc'[q] = "write" => writing'[target'[q]] \in {None, acked}
      <3>1. CASE q = p
        BY <1>1, <1>2, <1>3, <1>4, <2>2, <3>1 DEF Kept, Promise, TypeOK
      <3>2. CASE q # p
        <4>1. Setting(q) /\ target[q] \in Procs
          BY <1>4, <2>3 DEF Kept, Targeted, TypeOK
        <4> QED BY <1>3, <1>4, <2>2, <3>2, <4>1 DEF Kept, Promise, TypeOK
      <3> QED BY <3>1, <3>2
    <2>4. \A q \in Daemons' : pc'[q] # "init" => flag'[q] = acked
      BY <1>1, <1>3, <1>4 DEF Kept, Promise, Daemons, TypeOK
    <2>5. Setting(p)'
      BY <1>1, <1>4
    <2> QED BY <1>3, <2>3, <2>4, <2>5 DEF Promise
  <1>8. file' \in BOOLEAN \cup {None} /\ writing' \in [Procs -> BOOLEAN \cup {None}]
    BY <1>2, <1>3 DEF TypeOK
  <1>9. /\ flag' \in [Procs -> BOOLEAN] /\ target' \in [Procs -> Procs \cup {None}]
        /\ acked' \in BOOLEAN \cup {None} /\ \A q \in Procs \ {p} : target'[q] = target[q]
    BY <1>3 DEF TypeOK
  <1> HIDE DEF IInv, Table
  <1> QED BY <1>1, <1>3, <1>5, <1>6, <1>7, <1>8, <1>9, MoveKeeps DEF Kept, Commands

LEMMA SetWriteKeeps ==
  ASSUME StartAlone, ~Reuse, IInv, NEW p \in Procs, SetWrite(p)
  PROVE  IInv'
  <1> USE DEF IInv, Table
  <1> DEFINE t == target[p]
  <1>1. kind[p] = "set" /\ Setting(p) /\ pc[p] = "write" /\ kind[p] \in Commands
    BY DEF SetWrite, At, Setting, Commands
  <1>2. /\ writing[t] # None /\ file' = writing[t] /\ writing' = [writing EXCEPT ![t] = None]
        /\ Exit({p}) /\ UNCHANGED <<pidfile, channel, commands, others, acked, victims, last>>
    BY DEF SetWrite, Write, history
  <1>3. t \in Procs /\ (t # p => kind[t] \in {"daemon", "dead"})
    BY <1>1 DEF Kept, Targeted, TypeOK
  <1>4. t # p => Up(t) /\ t \in Daemons
    BY <1>2, <1>3 DEF Kept, Writers, Setting, Up, Daemons
  <1>5. /\ \A q \in Procs : Setting(q)' <=> Setting(q) /\ q # p
        /\ \A q \in Procs \ {p} : UNCHANGED <<kind[q], pc[q], target[q], flag[q]>>
        /\ Daemons' = Daemons /\ p \notin Daemons
    BY <1>1, <1>2 DEF Exit, Setting, Daemons, TypeOK
  <1>6. Writers'
    <2> SUFFICES ASSUME NEW q \in Procs, writing'[q] # None
                 PROVE  Up(q)' \/ (Setting(q)' /\ target'[q] = q)
      BY DEF Writers
    <2>1. q # t /\ writing[q] # None
      BY <1>2, <1>3 DEF TypeOK
    <2>2. q # p
      BY <1>1, <2>1 DEF Kept, Writers, Up
    <2> QED BY <1>5, <2>1, <2>2 DEF Kept, Writers, Up
  <1>7. Targeted'
    <2> SUFFICES ASSUME NEW q \in Procs, Setting(q)'
                 PROVE  /\ target'[q] # None
                        /\ target'[q] = q \/ kind'[target'[q]] \in {"daemon", "dead"}
      BY DEF Targeted
    <2> QED BY <1>1, <1>5 DEF Kept, Targeted, TypeOK
  <1>8. Promise'
    <2> SUFFICES ASSUME acked # None PROVE Promise'
      BY <1>2 DEF Promise
    <2>1. writing[t] = acked
      BY <1>1, <1>2 DEF Kept, Promise
    <2>2. \A q \in Daemons' : pc'[q] # "init" => flag'[q] = acked
      BY <1>5 DEF Kept, Promise, Daemons
    <2>3. ASSUME NEW q \in Procs, Setting(q)'
          PROVE  /\ target'[q] = q => Daemons' = {}
                 /\ target'[q] = q /\ pc'[q] = "open" => flag'[q] = acked
                 /\ pc'[q] = "write" => writing'[target'[q]] \in {None, acked}
      <3>1. Setting(q) /\ q # p /\ target[q] \in Procs /\ target'[q] = target[q]
        BY <1>5, <2>3 DEF Kept, Targeted, TypeOK
      <3>2. writing'[target[q]] \in {None, writing[target[q]]}
        BY <1>2, <1>3, <3>1 DEF TypeOK
      <3> QED BY <1>5, <3>1, <3>2 DEF Kept, Promise
    <2>4. ASSUME \A q \in Procs : ~Setting(q)', NEW q \in Procs
          PROVE  writing'[q] = None
      <3> SUFFICES ASSUME writing'[q] # None PROVE FALSE
        OBVIOUS
      <3>1. q # t /\ writing[q] # None
        BY <1>2, <1>3 DEF TypeOK
      <3>2. Up(q) /\ q \in Daemons
        BY <1>1, <1>5, <2>4, <3>1 DEF Kept, Writers, Up, Daemons
      <3>3. t # p
        BY <1>1, <3>2 DEF Kept, Promise
      <3> QED BY <1>1, <1>4, <3>1, <3>2, <3>3, BesideCommand
    <2> QED BY <1>2, <2>1, <2>2, <2>3, <2>4 DEF Promise
  <1>9. file' \in BOOLEAN \cup {None} /\ writing' \in [Procs -> BOOLEAN \cup {None}]
        /\ acked' \in BOOLEAN \cup {None}
    BY <1>2, <1>3 DEF TypeOK
  <1> HIDE DEF IInv, Table
  <1> QED BY <1>1, <1>2, <1>6, <1>7, <1>8, <1>9, AnswerKeeps DEF Kept

LEMMA SetLostKeeps ==
  ASSUME StartAlone, ~Reuse, IInv, NEW p \in Procs, SetLost(p)
  PROVE  IInv'
  <1> USE DEF IInv, Table
  <1>1. Setting(p) /\ kind[p] \in Commands /\ Exit({p}) /\ Cut({p})
        /\ UNCHANGED <<channel, pidfile, file, commands, others, victims, last>>
    BY DEF SetLost, Setting, Commands
  <1>2. acked' = None /\ writing' = [q \in Procs |-> IF q \in {p} THEN None ELSE writing[q]]
    BY <1>1 DEF Cut
  <1>3. /\ \A q \in Procs : Setting(q)' <=> Setting(q) /\ q # p
        /\ \A q \in Procs \ {p} : UNCHANGED <<kind[q], pc[q], target[q], flag[q]>>
    BY <1>1 DEF Exit, Setting, TypeOK
  <1>4. Kept'
    BY <1>1, <1>2, <1>3 DEF Kept, Writers, Targeted, Promise, Up, Setting, TypeOK
  <1>5. file' \in BOOLEAN \cup {None} /\ writing' \in [Procs -> BOOLEAN \cup {None}]
        /\ acked' \in BOOLEAN \cup {None}
    BY <1>1, <1>2 DEF TypeOK
  <1> HIDE DEF IInv, Table
  <1> QED BY <1>1, <1>4, <1>5, AnswerKeeps

(* A signal of a command reaches the daemon that is up, or nobody. *)
LEMMA SignalEffect ==
  ASSUME IInv, NEW p \in Procs, kind[p] \in Commands, pidfile # None,
         NEW s \in {"hup", "term"}, KillAndExit(p, pidfile, s)
  PROVE  /\ Exit({p}) /\ UNCHANGED <<writing, acked, victims>>
         /\ channel' = [q \in Procs |->
              IF q = pidfile /\ Up(q) /\ channel[q] = None THEN s ELSE channel[q]]
         /\ Alive(pidfile) <=> Up(pidfile)
  <1> USE DEF IInv, Table
  <1>1. pidfile \in Procs /\ (Alive(pidfile) <=> Up(pidfile))
    BY BesideCommand DEF TypeOK, Named, Alive, Up, Daemons
  <1>2. Signalled(p, pidfile) = {q \in {pidfile} : Up(q)}
    BY <1>1 DEF Signalled
  <1>3. {q \in Signalled(p, pidfile) : s = "kill" \/ ~Handles(q)} = {}
    BY <1>2 DEF Up, Handles
  <1> HIDE DEF IInv, Table
  <1>4. Exit({p}) /\ victims' = victims /\ Cut({})
    BY <1>3 DEF KillAndExit
  <1>6. writing' = writing /\ acked' = acked
    BY <1>4 DEF Cut, IInv, Table, TypeOK
  <1>5. channel' = [q \in Procs |->
          CASE q \in {} -> None
            [] q \in Signalled(p, pidfile) /\ channel[q] = None -> s
            [] OTHER -> channel[q]]
    BY <1>3 DEF KillAndExit
  <1> QED BY <1>1, <1>2, <1>4, <1>5, <1>6

LEMMA WakeKeeps ==
  ASSUME StartAlone, ~Reuse, IInv, NEW p \in Procs, Wake(p)
  PROVE  IInv'
  <1> USE DEF IInv, Table
  <1>1. kind[p] \in Commands /\ ~Setting(p) /\ pidfile # None
    BY DEF Wake, Commands, Aimed, Setting
  <1>2. /\ Exit({p}) /\ UNCHANGED <<writing, acked, victims>> /\ (Alive(pidfile) <=> Up(pidfile))
        /\ channel' = [q \in Procs |->
             IF q = pidfile /\ Up(q) /\ channel[q] = None THEN "hup" ELSE channel[q]]
    BY <1>1, SignalEffect DEF Wake
  <1>3. UNCHANGED <<pidfile, file, commands, others>>
        /\ last' = IF kind[p] = "run" /\ Listening(None) THEN "awakened" ELSE last
    BY DEF Wake
  <1>4. channel' \in [Procs -> {"hup", "term", None}]
    BY <1>2 DEF TypeOK
  <1>5. last' \in {"none", "started", "awakened", "quit", "dropped"}
    BY <1>3 DEF TypeOK
  <1>6. Table'
    <2>1. Kept'
      BY <1>1, <1>2, <1>3, EndApart
    <2> QED BY <1>1, <1>2, <1>3, <1>4, <1>5, <2>1, EndKeeps DEF TypeOK
  <1>7. /\ UNCHANGED pidfile /\ Daemons' = Daemons
        /\ \A q \in Daemons : kind'[q] = kind[q] /\ pc'[q] = pc[q]
    BY <1>1, <1>2, <1>3 DEF Exit, Daemons, Commands
  <1>8. last' = "quit" => last = "quit" /\ \A q \in Daemons : channel[q] # None =>
                                                             channel'[q] = channel[q]
    BY <1>2, <1>3 DEF Daemons, TypeOK
  <1>9. last' = "quit" => \A q \in Daemons' : Up(q)' /\ (pc'[q] = "exit" \/ channel'[q] = "term")
    BY <1>7, <1>8, DaemonAssumption DEF Answered, Up
  <1>10. pidfile # None /\ channel[pidfile] # "term" => channel'[pidfile] # "term"
    BY <1>2 DEF TypeOK
  <1>11. last' \in {"awakened", "dropped"} =>
           \/ last \in {"awakened", "dropped"}
           \/ kind[pidfile] = "daemon" /\ pc[pidfile] # "exit" /\ channel[pidfile] = None
    BY <1>3 DEF Listening
  <1>12. last' \in {"awakened", "dropped"} =>
           /\ kind[pidfile] = "daemon" /\ pc[pidfile] = "loop" /\ channel[pidfile] # "term"
    BY <1>1, <1>2, <1>11, DaemonAssumption DEF Answered, Alive, Up, TypeOK
  <1>13. Answered'
    BY <1>1, <1>7, <1>9, <1>10, <1>12 DEF Answered, Daemons, TypeOK
  <1> HIDE DEF Table
  <1> QED BY <1>6, <1>13

LEMMA QuitTermKeeps ==
  ASSUME StartAlone, ~Reuse, IInv, NEW p \in Procs, QuitTerm(p)
  PROVE  IInv'
  <1> USE DEF IInv, Table
  <1>1. kind[p] \in Commands /\ pidfile # None /\ target[p] # None /\ At(p, "quit", "term")
    BY DEF QuitTerm, At, Commands, Aimed
  <1>2. CASE /\ Signalled(p, pidfile) # {} /\ KillAndExit(p, pidfile, "term")
             /\ last' = IF Listening("hup") THEN "dropped" ELSE "quit"
    <2>1. /\ Exit({p}) /\ UNCHANGED <<writing, acked, victims>> /\ Up(pidfile)
          /\ channel' = [q \in Procs |->
               IF q = pidfile /\ Up(q) /\ channel[q] = None THEN "term" ELSE channel[q]]
      BY <1>1, <1>2, SignalEffect DEF Signalled
    <2>2. UNCHANGED <<pidfile, file, commands, others>>
      BY DEF QuitTerm
    <2>3. channel' \in [Procs -> {"hup", "term", None}]
      BY <2>1 DEF TypeOK
    <2>4. Table'
      <3>1. Kept'
        BY <1>1, <2>1, <2>2, EndApart DEF At, Setting
      <3> QED BY <1>1, <1>2, <2>1, <2>2, <2>3, <3>1, EndKeeps DEF TypeOK
    <2>5. /\ UNCHANGED pidfile /\ Daemons' = Daemons
          /\ \A q \in Daemons : kind'[q] = kind[q] /\ pc'[q] = pc[q]
      BY <1>1, <2>1, <2>2 DEF Exit, Daemons, Commands
    <2>6. \A q \in Daemons : q = pidfile
      BY <1>1, BesideCommand
    <2>7. Answered'
      BY <1>1, <1>2, <2>1, <2>5, <2>6, DaemonAssumption
      DEF Answered, Listening, Daemons, Up, TypeOK
    <2> HIDE DEF Table
    <2> QED BY <2>4, <2>7
  <1>3. CASE Goto(p, "wait") /\ UNCHANGED <<args, flag, channel, socket, writing, history>>
    BY <1>1, <1>3, StepKeeps DEF QuitTerm, At, Setting, args, files, history, TypeOK
  <1> QED BY <1>2, <1>3 DEF QuitTerm

LEMMA QuitWaitKeeps ==
  ASSUME StartAlone, ~Reuse, IInv, NEW p \in Procs, QuitWait(p)
  PROVE  IInv'
  <1>1. kind[p] \in Commands /\ ~Setting(p) /\ target[p] # None
    BY DEF QuitWait, At, Commands, Setting, IInv, Table, Aimed
  <1>2. CASE GiveUp(p)
    BY <1>1, <1>2, GiveUpKeeps
  <1>3. CASE ~Alive(target[p]) /\ KillAndExit(p, target[p], "kill")
             /\ UNCHANGED <<pidfile, file, commands, others, last>>
    <2>1. Signalled(p, target[p]) = {}
      BY <1>1, <1>3 DEF Signalled
    <2>2. {q \in Signalled(p, target[p]) : "kill" = "kill" \/ ~Handles(q)} = {}
      BY <2>1
    <2>3. Exit({p}) /\ victims' = victims /\ Cut({})
          /\ channel' = [q \in Procs |->
               CASE q \in {} -> None
                 [] q \in Signalled(p, target[p]) \ {} /\ channel[q] = None -> "kill"
                 [] OTHER -> channel[q]]
      BY <1>3, <2>2 DEF KillAndExit
    <2>4. UNCHANGED channel
      BY <2>1, <2>3 DEF IInv, Table, TypeOK
    <2>5. UNCHANGED <<writing, acked>>
      BY <2>3 DEF Cut, IInv, Table, TypeOK
    <2> QED BY <1>1, <1>3, <2>3, <2>4, <2>5, GiveUpKeeps DEF GiveUp, files, history
  <1> QED BY <1>1, <1>2, <1>3 DEF QuitWait

-----------------------------------------------------------------------------
LEMMA CommandKeeps ==
  ASSUME StartAlone, ~Reuse, IInv, NEW p \in Procs, Command(p)
  PROVE  IInv'
  <1>1. /\ IsDaemonRunning => pidfile # None
        /\ UNCHANGED target => target' \in [Procs -> Procs \cup {None}]
    BY DEF IsDaemonRunning, IInv, Table, TypeOK
  <1>2. CASE RunCheck(p)
    <2>1. CASE IsDaemonRunning
      BY <1>1, <1>2, <2>1, StepKeeps DEF RunCheck, At, Commands, Setting, args
    <2>2. CASE ~IsDaemonRunning
      BY <1>2, <2>2, BecomeDaemonKeeps, GiveUpKeeps DEF RunCheck, At, Commands, Setting
    <2> QED BY <2>1, <2>2
  <1>3. CASE ReloadCheck(p)
    BY <1>1, <1>3, StepKeeps, GiveUpKeeps DEF ReloadCheck, At, Commands, Setting, args
  <1>4. CASE Wake(p)
    BY <1>4, WakeKeeps
  <1>5. CASE QuitCheck(p)
    BY <1>1, <1>5, StepKeeps, GiveUpKeeps DEF QuitCheck, At, Commands, Setting, args
  <1>6. CASE QuitRead(p)
    <2>1. kind[p] = "quit" /\ pidfile \in Procs /\ pidfile # None
      BY <1>6 DEF QuitRead, At, IInv, Table, Aimed, TypeOK
    <2> QED BY <1>6, <2>1, StepKeeps DEF QuitRead, Commands, Setting, IInv, Table, TypeOK
  <1>7. CASE QuitTerm(p)
    BY <1>7, QuitTermKeeps
  <1>8. CASE QuitWait(p)
    BY <1>8, QuitWaitKeeps
  <1>9. CASE SetCheck(p)
    BY <1>1, <1>9, StepKeeps, GiveUpKeeps DEF SetCheck, At, Commands, Setting, args
  <1>10. CASE SetPost(p) \/ SetOwn(p)
    BY <1>10, SetsKeep
  <1>11. CASE SetOpen(p) \/ SetWrite(p) \/ SetLost(p)
    BY <1>11, SetOpenKeeps, SetWriteKeeps, SetLostKeeps
  <1> QED BY <1>2, <1>3, <1>4, <1>5, <1>6, <1>7, <1>8, <1>9, <1>10, <1>11 DEF Command

LEMMA LifecycleKeeps ==
  ASSUME StartAlone, ~Reuse, IInv, NEW p \in Procs, Lifecycle(p)
  PROVE  IInv'
  BY LoadKeeps, RefusedKeeps, TruncatePidKeeps, WritePidKeeps, SetupSignalsKeeps,
     UnlinkKeeps, ListenKeeps, HupKeeps, TermKeeps, LeaveKeeps DEF Lifecycle, InitApp

LEMMA InvNext == ASSUME StartAlone, ~Reuse, IInv, [Next]_vars PROVE IInv'
  <1>1. CASE UNCHANGED vars
    BY <1>1 DEF vars, IInv, Table, TypeOK, Shape, Solo, Starting, Bystander, Up, Named, Aimed,
                Served, Daemons, NoVictims, Answered, Kept, Writers, Targeted, Promise, Setting
  <1>2. CASE Next
    BY <1>2, CommandKeeps, LifecycleKeeps, SaveKeeps, ForeignKeeps, InvokeKeeps DEF Next
  <1> QED BY <1>1, <1>2

LEMMA InvHolds == ASSUME StartAlone, ~Reuse PROVE Spec => []IInv
  BY InvInit, InvNext, PTL DEF Spec

(* The variables have their types. *)
THEOREM TypeCorrect == ASSUME StartAlone, ~Reuse PROVE Spec => []TypeOK
  <1>1. IInv => TypeOK
    BY DEF IInv, Table
  <1> QED BY <1>1, InvHolds, PTL

(* Whatever commands are typed while no daemon is being started, there is *)
(* never a second daemon (isDaemonRunning of cmd/common.go): two daemons  *)
(* would both be named by the pid file.                                   *)
THEOREM OnlyOneDaemon == ASSUME StartAlone, ~Reuse PROVE Spec => []OneDaemon
  <1>1. IInv => OneDaemon
    <2> SUFFICES ASSUME IInv PROVE OneDaemon
      OBVIOUS
    <2>1. \A p, q \in Daemons : p = q
      BY DEF IInv, Table, Shape, Solo, Named, Starting, Bystander, Daemons, Up
    <2>2. Daemons = {} \/ \E p \in Procs : Daemons = {p}
      BY <2>1 DEF Daemons
    <2>3. Cardinality(Daemons) \in {0, 1}
      BY <2>2, FS_EmptySet, FS_Singleton
    <2> QED BY <2>3 DEF OneDaemon
  <1> QED BY <1>1, InvHolds, PTL

(* A daemon that handles signals is named by the pid file, and nobody else *)
(* listens on the socket.                                                  *)
THEOREM AlwaysFindable == ASSUME StartAlone, ~Reuse PROVE Spec => []Findable
  <1>1. IInv => Findable
    <2> SUFFICES ASSUME IInv, NEW p \in Daemons, Handles(p)
                 PROVE  pidfile = p /\ socket \in {p, None}
      BY DEF Findable
    <2>1. \A q \in Daemons : p = q
      BY DEF IInv, Table, Shape, Solo, Named, Starting, Bystander, Daemons, Up
    <2> QED BY <2>1 DEF IInv, Table, Named, Served, TypeOK, Handles, Daemons
  <1> QED BY <1>1, InvHolds, PTL

(* The status that answered set commands have asked for stays in force     *)
(* through saves, quits, starts and reloads (UpdateDatabase, initApp,      *)
(* getChecksManager), apart from what AckedKept names.                     *)
THEOREM KeepsAcked == ASSUME StartAlone, ~Reuse PROVE Spec => []AckedKept
  <1>1. IInv => AckedKept
    BY DEF IInv, Table, Kept, Promise, AckedKept
  <1> QED BY <1>1, InvHolds, PTL

(* A quit that was not dropped ends the daemon, and a daemon that was     *)
(* woken up last is there.                                                *)
THEOREM AnswersAreTrue == ASSUME StartAlone, ~Reuse PROVE Spec => []AnswersHold
  <1>1. IInv => AnswersHold
    BY DaemonAssumption DEF IInv, Table, TypeOK, Answered, AnswersHold, Quiet, AtRest, Up, Daemons
  <1> QED BY <1>1, InvHolds, PTL
=============================================================================
