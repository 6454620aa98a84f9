------------------------------- MODULE Daemon -------------------------------
(***************************************************************************)
(* The gonit processes of a machine: the daemon and the commands of the    *)
(* command line (cmd/root.go, cmd/common.go, cmd/quit.go, cmd/reload.go),  *)
(* which find each other by the pid file, signals and the socket, and      *)
(* share the state file.                                                   *)
(*                                                                         *)
(* Every command first asks isDaemonRunning(), which reads the pid file    *)
(* and probes the process; it reads the pid file again when it acts.  The  *)
(* daemon never removes its pid file.  The state file is reduced to the    *)
(* status of one service.  A save truncates it and writes it; a process    *)
(* may end in between.  A save that fails, and a reload that overlaps one, *)
(* are in Registry.                                                        *)
(***************************************************************************)
EXTENDS Naturals, FiniteSets

CONSTANTS Procs,        \* process ids
          None,
          StartAlone,   \* no other command runs while a daemon is being started
          Reuse,        \* the system gives the pid of a dead process to another
          MaxCommands,  \* bound: commands
          MaxOthers     \* bound: processes that are not gonit

ASSUME DaemonAssumption ==
  /\ None \notin Procs /\ None \notin BOOLEAN /\ None \notin {"hup", "term"}
  /\ StartAlone \in BOOLEAN /\ Reuse \in BOOLEAN
  /\ MaxCommands \in Nat /\ MaxOthers \in Nat

VARIABLES kind,         \* what runs as each process
          pc,
          want,         \* the status a set command asks for, or None when it is
                        \* about another service
          target,       \* the pid a quit command has read
          flag,         \* the status in the memory of a daemon
          channel,      \* the channel of setupSignals: a signal, or None
          pidfile,      \* its pid; None when missing or truncated
          socket,       \* the process that listens on the socket file
          file,         \* the status in the state file, or None when it is
                        \* missing or empty
          writing,      \* the status a process is about to write to the file it
                        \* has truncated, or None
          commands, others,
          acked,        \* history: the status the last set command asked for, or
                        \* None when nothing is promised
          victims,      \* history: processes a signal of gonit has killed
          last          \* history: what the last start or quit came to

table == <<kind, pc>>
args == <<want, target>>
files == <<pidfile, file, writing>>
history == <<acked, victims, last>>
vars == <<kind, pc, want, target, flag, channel, pidfile, socket, file, writing,
          commands, others, acked, victims, last>>

Commands == {"run", "reload", "quit", "set"}
Kinds == Commands \cup {"free", "dead", "daemon", "other"}

Alive(p) == kind[p] \notin {"free", "dead"}

(* A pid the system gives to a new process.  Pids that were never used are *)
(* taken in some fixed order.                                              *)
Fresh(p) == /\ kind[p] = "free"
            /\ Reuse \/ p = CHOOSE q \in Procs : kind[q] = "free"

(* IsProcessRunning(ReadPid()): no process runs as -1. *)
IsDaemonRunning == pidfile # None /\ Alive(pidfile)

(* signal.Notify has been called: HUP and TERM do not kill any more. *)
Handles(p) == kind[p] = "daemon" /\ pc[p] \in {"unlink", "listen", "loop", "exit"}

AtRest(p) == kind[p] \in {"free", "dead", "other"} \/ (kind[p] = "daemon" /\ pc[p] = "loop")
Starting(p) == kind[p] = "run" \/ (kind[p] = "daemon" /\ pc[p] \notin {"loop", "exit"})

Init == /\ kind = [p \in Procs |-> "free"] /\ pc = [p \in Procs |-> "none"]
        /\ want = [p \in Procs |-> TRUE] /\ target = [p \in Procs |-> None]
        /\ flag = [p \in Procs |-> TRUE] /\ channel = [p \in Procs |-> None]
        /\ pidfile = None /\ socket = None /\ file = None
        /\ writing = [p \in Procs |-> None]
        /\ commands = MaxCommands /\ others = MaxOthers
        /\ acked = None /\ victims = {} /\ last = "none"

-----------------------------------------------------------------------------
(* The process table and signals *)

Goto(p, l) == pc' = [pc EXCEPT ![p] = l] /\ UNCHANGED kind

(* The processes of S end. *)
Exit(S) == /\ kind' = [p \in Procs |-> IF p \in S THEN IF Reuse THEN "free" ELSE "dead"
                                                  ELSE kind[p]]
           /\ pc' = [p \in Procs |-> IF p \in S THEN "none" ELSE pc[p]]
           /\ target' = [p \in Procs |-> IF p \in S THEN None ELSE target[p]]
           /\ want' = [p \in Procs |-> IF p \in S THEN TRUE ELSE want[p]]
           /\ flag' = [p \in Procs |-> p \in S \/ flag[p]]
           /\ socket' = IF socket \in S THEN None ELSE socket

(* A set command that has changed the status and is not answered yet. *)
Setting(p) == kind[p] = "set" /\ pc[p] \in {"open", "write"}

(* What the processes of S were writing is lost with them.  Then, and when *)
(* a set command is not answered, nothing is promised any more.            *)
Cut(S) == /\ writing' = [p \in Procs |-> IF p \in S THEN None ELSE writing[p]]
          /\ acked' = IF \E p \in S : writing[p] # None \/ Setting(p) THEN None ELSE acked

(* Whom kill(pid) signals: a pid of -1 stands for every process. *)
Signalled(self, pid) == IF pid = None THEN {p \in Procs \ {self} : Alive(p)}
                                      ELSE {p \in {pid} : Alive(p)}

(* Mutant: a signal takes the place of the one that waits. *)
KillAndExitLatest(self, pid, s) ==
  LET dying == {p \in Signalled(self, pid) : s = "kill" \/ ~Handles(p)} IN
    /\ Exit(dying \cup {self}) /\ Cut(dying)
    /\ victims' = victims \cup dying
    /\ channel' = [p \in Procs |-> CASE p \in dying -> None
                                     [] p \in Signalled(self, pid) \ dying -> s
                                     [] OTHER -> channel[p]]

(* syscall.Kill(pid, s), the last thing process self does.  A signal that *)
(* does not fit the channel, which holds one, is dropped.                 *)
KillAndExit(self, pid, s) ==
  LET dying == {p \in Signalled(self, pid) : s = "kill" \/ ~Handles(p)} IN
    /\ Exit(dying \cup {self}) /\ Cut(dying)
    /\ victims' = victims \cup dying
    /\ channel' = [p \in Procs |->
                     CASE p \in dying -> None
                       [] p \in Signalled(self, pid) \ dying /\ channel[p] = None -> s
                       [] OTHER -> channel[p]]

-----------------------------------------------------------------------------
(* Commands *)

(* Somebody types a command; run is gonit without arguments. *)
Invoke(p, k) ==
  /\ Fresh(p) /\ commands > 0
  /\ StartAlone => IF k = "run" THEN \A q \in Procs : AtRest(q)
                                ELSE \A q \in Procs : ~Starting(q)
  /\ commands' = commands - 1
  /\ kind' = [kind EXCEPT ![p] = k] /\ pc' = [pc EXCEPT ![p] = "check"]
  /\ \E status \in IF k = "set" THEN BOOLEAN \cup {None} ELSE {TRUE} :
       want' = [want EXCEPT ![p] = status]
  /\ UNCHANGED <<target, flag, channel, socket, files, others, history>>

(* Another program starts. *)
Foreign(p) == /\ Fresh(p) /\ others > 0
              /\ others' = others - 1
              /\ kind' = [kind EXCEPT ![p] = "other"]
              /\ UNCHANGED <<pc, args, flag, channel, socket, files, commands, history>>

At(p, k, l) == kind[p] = k /\ pc[p] = l

(* The command ends and nothing else happens. *)
GiveUp(p) == Exit({p}) /\ UNCHANGED <<channel, files, commands, others, history>>

(* Becomes the daemon, or leaves it to a child. *)
BecomeDaemon(p, d) ==
  /\ d = p \/ Fresh(d)
  /\ kind' = [kind EXCEPT ![p] = IF Reuse THEN "free" ELSE "dead", ![d] = "daemon"]
  /\ pc' = [pc EXCEPT ![p] = "none", ![d] = "init"]
  /\ last' = "started"
  /\ UNCHANGED <<args, flag, channel, socket, files, commands, others, acked, victims>>

(* Mutant: nobody asks whether a daemon is running. *)
RunCheckAlways(p) == At(p, "run", "check") /\ \E d \in Procs : BecomeDaemon(p, d)

(* RunMonitor: wake up the daemon there is, or start one; its files may be *)
(* refused.                                                                *)
RunCheck(p) ==
  /\ At(p, "run", "check")
  /\ IF IsDaemonRunning
       THEN Goto(p, "wake") /\ UNCHANGED <<args, flag, channel, socket, files, commands,
                                           others, history>>
       ELSE (\E d \in Procs : BecomeDaemon(p, d)) \/ GiveUp(p)

ReloadCheck(p) ==
  /\ At(p, "reload", "check")
  /\ IF IsDaemonRunning
       THEN Goto(p, "wake") /\ UNCHANGED <<args, flag, channel, socket, files, commands,
                                           others, history>>
       ELSE GiveUp(p)

(* The process of the pid file is a daemon that will look at its channel   *)
(* again, where word is the signal that waits.                             *)
Listening(word) == /\ pidfile # None /\ kind[pidfile] = "daemon"
                   /\ pc[pidfile] # "exit" /\ channel[pidfile] = word

(* reloadDaemon: SIGHUP to the pid that is in the file now. *)
Wake(p) ==
  /\ kind[p] \in {"run", "reload"} /\ pc[p] = "wake"
  /\ KillAndExit(p, pidfile, "hup")
  /\ last' = IF kind[p] = "run" /\ Listening(None) THEN "awakened" ELSE last
  /\ UNCHANGED <<pidfile, file, commands, others>>

(* Mutant: quit signals whatever the pid file has. *)
QuitCheckAlways(p) ==
  /\ At(p, "quit", "check")
  /\ Goto(p, "read")
  /\ UNCHANGED <<args, flag, channel, socket, files, commands, others, history>>

QuitCheck(p) ==
  /\ At(p, "quit", "check")
  /\ IF IsDaemonRunning
       THEN Goto(p, "read") /\ UNCHANGED <<args, flag, channel, socket, files, commands,
                                           others, history>>
       ELSE GiveUp(p)

(* quitDaemon: pid := daemonPid(), ... *)
QuitRead(p) ==
  /\ At(p, "quit", "read")
  /\ target' = [target EXCEPT ![p] = pidfile]
  /\ Goto(p, "term")
  /\ UNCHANGED <<want, flag, channel, socket, files, commands, others, history>>

(* ... SIGTERM to the pid that is in the file now; only when there is no   *)
(* such process ...                                                        *)
QuitTerm(p) ==
  /\ At(p, "quit", "term")
  /\ \/ /\ Signalled(p, pidfile) # {}
        /\ KillAndExit(p, pidfile, "term")
        /\ last' = IF Listening("hup") THEN "dropped" ELSE "quit"
     \/ /\ Signalled(p, pidfile) = {}
        /\ Goto(p, "wait")
        /\ UNCHANGED <<args, flag, channel, socket, writing, history>>
  /\ UNCHANGED <<pidfile, file, commands, others>>

(* ... it waits for the first pid to be running, and kills it after 5      *)
(* seconds when it is not.                                                 *)
QuitWait(p) ==
  /\ At(p, "quit", "wait")
  /\ \/ target[p] # None /\ Alive(target[p]) /\ GiveUp(p)
     \/ /\ target[p] # None => ~Alive(target[p])
        /\ KillAndExit(p, target[p], "kill")
        /\ UNCHANGED <<pidfile, file, commands, others, last>>

(* getChecksManager: a client of the daemon when one is running and a      *)
(* socket is configured, else the command works on the state file by       *)
(* itself, beside a daemon too; initApp may refuse the configuration.      *)
SetCheck(p) ==
  /\ At(p, "set", "check")
  /\ \/ /\ \/ IsDaemonRunning /\ Goto(p, "post")
           \/ Goto(p, "own")
        /\ UNCHANGED <<args, flag, channel, socket, files, commands, others, history>>
     \/ GiveUp(p)

(* initApp: the status of the state file, monitored when it has none. *)
Loaded == IF file = None THEN TRUE ELSE file

(* The status after the command in a process where it was this. *)
Asked(p, status) == IF want[p] = None THEN status ELSE want[p]

(* Monitor or Unmonitor in process t.  The promise is the status that all  *)
(* set commands under way agree on; there is none of a command that works  *)
(* beside a daemon, whose next save undoes what it does.                   *)
SetFlag(p, t, status) ==
  /\ flag' = [flag EXCEPT ![t] = status]
  /\ target' = [target EXCEPT ![p] = t]
  /\ acked' = IF \/ t = p /\ (\E q \in Procs : kind[q] = "daemon")
                 \/ acked # status /\ (\E q \in Procs : Setting(q))
              THEN None ELSE IF want[p] = None THEN acked ELSE status
  /\ Goto(p, "open")
  /\ UNCHANGED <<want, channel, socket, files, commands, others, victims, last>>

(* The request of the client; without a listener it gets an error. *)
SetPost(p) == /\ At(p, "set", "post")
              /\ \/ socket # None /\ SetFlag(p, socket, Asked(p, flag[socket]))
                 \/ socket = None /\ GiveUp(p)

(* The command has read the state file, which another may be writing. *)
SetOwn(p) == At(p, "set", "own") /\ SetFlag(p, p, Asked(p, Loaded))

(* serializeToFile in process t: open with truncation, ... *)
Truncate(t) == /\ writing[t] = None
               /\ file' = None
               /\ writing' = [writing EXCEPT ![t] = flag[t]]

(* ... then encode and write. *)
Write(t) == /\ writing[t] # None
            /\ file' = writing[t]
            /\ writing' = [writing EXCEPT ![t] = None]

(* UpdateDatabase of the command, in the process it has set the flag of.   *)
(* The lock of the entry keeps the saves of one process apart.             *)
SetOpen(p) ==
  /\ At(p, "set", "open")
  /\ target[p] # p => kind[target[p]] = "daemon"
  /\ Truncate(target[p])
  /\ Goto(p, "write")
  /\ UNCHANGED <<args, flag, channel, socket, pidfile, commands, others, history>>

(* It is answered once the status is written. *)
SetWrite(p) ==
  /\ At(p, "set", "write")
  /\ Write(target[p])
  /\ Exit({p})
  /\ UNCHANGED <<channel, pidfile, commands, others, history>>

(* The daemon ends before it answers. *)
SetLost(p) ==
  /\ Setting(p) /\ target[p] # p /\ kind[target[p]] # "daemon"
  /\ Exit({p}) /\ Cut({p})
  /\ UNCHANGED <<channel, pidfile, file, commands, others, victims, last>>

Command(p) == \/ RunCheck(p) \/ ReloadCheck(p) \/ Wake(p)
              \/ QuitCheck(p) \/ QuitRead(p) \/ QuitTerm(p) \/ QuitWait(p)
              \/ SetCheck(p) \/ SetPost(p) \/ SetOwn(p)
              \/ SetOpen(p) \/ SetWrite(p) \/ SetLost(p)

-----------------------------------------------------------------------------
(* The daemon *)

Rest == UNCHANGED <<args, channel, commands, others, history>>

(* Mutant: the state file is not read. *)
InitAppFresh(p) ==
  /\ At(p, "daemon", "init") /\ Goto(p, "pid")
  /\ flag' = [flag EXCEPT ![p] = TRUE]
  /\ UNCHANGED <<socket, files>> /\ Rest

(* initApp; an invalid configuration ends the daemon. *)
InitApp(p) ==
  \/ /\ At(p, "daemon", "init") /\ Goto(p, "pid")
     /\ flag' = [flag EXCEPT ![p] = Loaded]
     /\ UNCHANGED <<socket, files>> /\ Rest
  \/ At(p, "daemon", "init") /\ GiveUp(p)

(* Mutant: a pid that is there is kept. *)
TruncatePidUnless(p) ==
  /\ At(p, "daemon", "pid")
  /\ Goto(p, IF pidfile = None THEN "write" ELSE "signals")
  /\ UNCHANGED <<flag, socket, files>> /\ Rest

(* WritePid truncates the pid file, ... *)
TruncatePid(p) ==
  /\ At(p, "daemon", "pid") /\ Goto(p, "write")
  /\ pidfile' = None
  /\ UNCHANGED <<flag, socket, file, writing>> /\ Rest

(* ... and writes the pid. *)
WritePid(p) ==
  /\ At(p, "daemon", "write") /\ Goto(p, "signals")
  /\ pidfile' = p
  /\ UNCHANGED <<flag, socket, file, writing>> /\ Rest

SetupSignals(p) ==
  /\ At(p, "daemon", "signals") /\ Goto(p, "unlink")
  /\ UNCHANGED <<flag, socket, files>> /\ Rest

(* StartServer, unless no socket is configured: it removes the socket file, *)
(* whoever listens on it, ...                                              *)
Unlink(p) ==
  /\ At(p, "daemon", "unlink")
  /\ \/ Goto(p, "listen") /\ socket' = None
     \/ Goto(p, "loop") /\ UNCHANGED socket
  /\ UNCHANGED <<flag, files>> /\ Rest

(* ... and listens on a new one.  An error is logged, and the daemon goes *)
(* on without a server.                                                   *)
Listen(p) ==
  /\ At(p, "daemon", "listen") /\ Goto(p, "loop")
  /\ socket' \in {p, socket}
  /\ UNCHANGED <<flag, files>> /\ Rest

(* UpdateDatabase of the loop. *)
SaveOpen(p) ==
  /\ kind[p] = "daemon" /\ pc[p] \in {"loop", "exit"}
  /\ Truncate(p)
  /\ UNCHANGED <<table, flag, socket, pidfile>> /\ Rest

(* A save of a request ends with its SetWrite. *)
SaveWrite(p) ==
  /\ kind[p] = "daemon"
  /\ \A q \in Procs : At(q, "set", "write") => target[q] # p
  /\ Write(p)
  /\ UNCHANGED <<table, flag, socket, pidfile>> /\ Rest

(* The signal goroutine reloads: the status of the service is kept. *)
Hup(p) ==
  /\ Handles(p) /\ pc[p] # "exit" /\ channel[p] = "hup"
  /\ channel' = [channel EXCEPT ![p] = None]
  /\ UNCHANGED <<table, args, flag, socket, files, commands, others, history>>

(* SIGTERM: the goroutine reads no signal after it, ... *)
Term(p) ==
  /\ Handles(p) /\ pc[p] # "exit" /\ channel[p] = "term"
  /\ Goto(p, "exit")
  /\ channel' = [channel EXCEPT ![p] = None]
  /\ UNCHANGED <<args, flag, socket, files, commands, others, history>>

(* ... Terminate closes the listener and removes the socket file; os.Exit. *)
(* The pid file stays, and a state file that is being saved stays empty.   *)
Leave(p) ==
  /\ At(p, "daemon", "exit")
  /\ Exit({p}) /\ Cut({p})
  /\ channel' = [channel EXCEPT ![p] = None]
  /\ UNCHANGED <<pidfile, file, commands, others, victims, last>>

Lifecycle(p) == \/ InitApp(p) \/ TruncatePid(p) \/ WritePid(p) \/ SetupSignals(p)
                \/ Unlink(p) \/ Listen(p) \/ Hup(p) \/ Term(p) \/ Leave(p)

Next == \E p \in Procs : \/ Command(p) \/ Lifecycle(p) \/ SaveOpen(p) \/ SaveWrite(p) \/ Foreign(p)
                         \/ \E k \in Commands : Invoke(p, k)

Spec == Init /\ [][Next]_vars

-----------------------------------------------------------------------------
(* Type invariant. *)
TypeOK == /\ kind \in [Procs -> Kinds]
          /\ pc \in [Procs -> {"none", "check", "wake", "read", "term", "wait", "post",
                               "own", "open", "init", "pid", "write", "signals", "unlink",
                               "listen", "loop", "exit"}]
          /\ want \in [Procs -> BOOLEAN \cup {None}] /\ flag \in [Procs -> BOOLEAN]
          /\ target \in [Procs -> Procs \cup {None}]
          /\ channel \in [Procs -> {"hup", "term", None}]
          /\ pidfile \in Procs \cup {None} /\ socket \in Procs \cup {None}
          /\ file \in BOOLEAN \cup {None}
          /\ writing \in [Procs -> BOOLEAN \cup {None}] /\ acked \in BOOLEAN \cup {None}
          /\ commands \in 0..MaxCommands /\ others \in 0..MaxOthers
          /\ victims \subseteq Procs /\ last \in {"none", "started", "awakened", "quit", "dropped"}

Daemons == {p \in Procs : kind[p] = "daemon"}

(* Whatever commands are typed while no daemon is being started, there is *)
(* never a second daemon.                                                 *)
OneDaemon == Cardinality(Daemons) <= 1

(* A daemon that is up can be found: the pid file, which outlives every   *)
(* daemon before it, names it, and only it listens on the socket.         *)
Findable == \A p \in Daemons : Handles(p) => pidfile = p /\ socket \in {p, None}

(* A signal of gonit kills nothing: neither another program, nor a daemon *)
(* that does not handle signals yet.                                      *)
NoVictims == victims = {}

(* What the monitor and unmonitor commands have asked for stays in force   *)
(* once all of them are answered: it is the status in the daemon, and the  *)
(* state file has it, or somebody is about to write it there.  Three cases *)
(* are not covered: a daemon that ends while it saves leaves the file      *)
(* empty (database.go:168, root.go:42); a command without a socket works   *)
(* beside the daemon (common.go:155); commands that overlap without a      *)
(* daemon disagree, or one has read what another was about to change.      *)
AckedKept ==
  acked # None /\ (\A p \in Procs : ~Setting(p)) =>
    /\ \A p \in Daemons : pc[p] # "init" => flag[p] = acked
    /\ file = acked \/ \E p \in Daemons : writing[p] = acked

(* Everything under way is over. *)
Quiet == \A p \in Procs : AtRest(p) /\ channel[p] = None

(* The answers of start and quit, once everything under way is over.  A    *)
(* quit ends the daemon, however many wakings and reloads come after it,   *)
(* unless its SIGTERM finds a SIGHUP waiting in the channel of one signal  *)
(* (cmd/root.go:29): then the daemon goes on.  A daemon that was told to   *)
(* wake up before it was told to quit is still there, although "awakened"  *)
(* is printed before the signal is sent (cmd/root.go:56).                  *)
AnswersHold == Quiet => /\ last = "quit" => Daemons = {}
                        /\ last \in {"awakened", "dropped"} => Daemons # {}
=============================================================================
