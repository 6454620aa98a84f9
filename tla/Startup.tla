------------------------------ MODULE Startup ------------------------------
(***************************************************************************)
(* How a run of gonit gets from the command line to a daemon, and what it  *)
(* checks and does to its files on the way: getConfig (cmd/common.go),     *)
(* RunMonitor (cmd/root.go), New and Serialize, WritePid (utils), the      *)
(* socket of the HTTP server (monitor/server.go) and Terminate.            *)
(*                                                                         *)
(* A file is its type, its owner and its mode; contents are left out, and  *)
(* no daemon is running when a run begins (Daemon has the other case).     *)
(* gonit does not run as root.                                             *)
(***************************************************************************)
EXTENDS Naturals

CONSTANTS Shells,       \* umasks of the shell that starts gonit
          MaxRuns,      \* bound: runs
          MaxEdits      \* bound: changes somebody else makes to the files

VARIABLES pc,
          background,   \* ShouldDaemonize, i.e. without -I
          option,       \* who names the socket: a flag, the control file, nobody
          umask,
          shell,        \* the umask the run was started with
          listener,     \* ms.listener is set
          fs,           \* the files that exist
          dirs,         \* the directory of every file
          runs, edits,
          own,          \* history: files that gonit has created
          steady,       \* history: nobody else has changed a file in this run
          killed,       \* history: a daemon was killed, or ended while starting
          outcome       \* history: how the last run ended, where, and for what file

run == <<background, option, shell>>
vars == <<pc, background, option, umask, shell, listener, fs, dirs, runs, edits, own,
          steady, killed, outcome>>

Names == {"control", "state", "pid", "socket", "log"}

(* A mode is a set of pairs: whose right, which right. *)
Classes == {"u", "g", "o"}
M600 == {"u"} \X {"r", "w"}
M644 == M600 \cup ({"g", "o"} \X {"r"})
M660 == {"u", "g"} \X {"r", "w"}
M700 == {"u"} \X {"r", "w", "x"}
M755 == M700 \cup ({"g", "o"} \X {"r", "x"})
M777 == Classes \X {"r", "w", "x"}
Modes == SUBSET M777

ASSUME StartupAssumption == Shells \subseteq Modes /\ MaxRuns \in Nat /\ MaxEdits \in Nat

FileTypes == [type : {"file", "directory", "socket"}, mine : BOOLEAN, mode : Modes]

File(mode) == [type |-> "file", mine |-> TRUE, mode |-> mode]
Edits == {File(M600), File(M644), File({}),
          [File(M644) EXCEPT !.mine = FALSE], [File(M700) EXCEPT !.type = "directory"]}

(* The places of a run; "again" is getConfig in the child of a background  *)
(* run, which starts the program anew.                                     *)
Signals == {"unlink", "mask", "listen", "unmask", "unmaskFailed", "chmod", "publish", "up"}
Places == Signals \cup {"off", "config", "checks", "again", "new", "pid", "pidmode"}

Nothing == [how |-> "none", file |-> "none", at |-> "off"]

Init == /\ pc = "off" /\ background = FALSE /\ option = "none"
        /\ shell \in Shells /\ umask = shell /\ listener = FALSE
        /\ fs \in {[f \in {"control"} |-> File(mode)] : mode \in {M600, M644}}
        /\ dirs \in {[n \in Names |-> "writable"]} \cup
                    {[n \in Names |-> IF n = m THEN s ELSE "writable"] :
                       m \in Names \ {"control"},
                       s \in {"readonly", "absent"}}
        /\ runs = MaxRuns /\ edits = MaxEdits
        /\ own = {} /\ steady = FALSE /\ killed = FALSE /\ outcome = Nothing

-----------------------------------------------------------------------------
(* utils: file.go and file_accessor.go *)

FileExists(f) == f \in DOMAIN fs

Access(f, right) == <<IF fs[f].mine THEN "u" ELSE "o", right>> \in fs[f].mode

(* A file that does not exist is writable when its directory is, or the   *)
(* first of the directories above that exists.                             *)
IsWritable(f) == IF FileExists(f) THEN Access(f, "w") ELSE dirs[f] # "readonly"

IsFile(f) == FileExists(f) /\ fs[f].type = "file"

IsWritableFile(f) == IsWritable(f) /\ (FileExists(f) => IsFile(f))

IsReadableFile(f) == IsFile(f) /\ Access(f, "r")

(* ensurePermissions aborts unless the file is mine and allows no more     *)
(* than max; EnsurePermissions and EnsureSafePermissions (0700) only look  *)
(* at a file that exists.                                                  *)
TooPermissive(f, max) == FileExists(f) /\ (~fs[f].mine \/ ~(fs[f].mode \subseteq max))

Put(f, file) == fs' = [g \in DOMAIN fs \cup {f} |-> IF g = f THEN file ELSE fs[g]]

(* open(O_CREAT): an existing file keeps its mode, a new one gets that of  *)
(* the umask.                                                              *)
CanOpen(f) == IF FileExists(f) THEN IsFile(f) /\ Access(f, "w") ELSE dirs[f] = "writable"

Open(f, mode) == IF FileExists(f) THEN UNCHANGED <<fs, own>>
                 ELSE Put(f, File(mode \ umask)) /\ own' = own \cup {f}

Chmod(f, mode) == fs' = [fs EXCEPT ![f].mode = mode]

Remove(f) == fs' = [g \in DOMAIN fs \ {f} |-> fs[g]] /\ own' = own \ {f}

-----------------------------------------------------------------------------
Goto(p) == pc' = p /\ UNCHANGED <<run, runs, edits, steady, killed, outcome>>

(* The process ends; f is the file it blames. *)
End(how, f) ==
  /\ pc' = "off" /\ listener' = FALSE
  /\ outcome' = [how |-> how, file |-> f, at |-> pc]
  /\ killed' = (killed \/ how = "killed" \/ (how = "quit" /\ pc # "up"))
  /\ UNCHANGED <<run, umask, runs, edits, steady>>

(* utils.Exit(1, ...) because of the file f. *)
Abort(f) == End("refused", f) /\ UNCHANGED <<fs, dirs, own>>

Run == /\ pc = "off" /\ runs > 0
       /\ pc' = "config" /\ runs' = runs - 1
       /\ background' \in BOOLEAN /\ option' \in {"flag", "control", "none"}
       /\ shell' \in Shells /\ umask' = shell'
       /\ steady' = TRUE /\ outcome' = Nothing
       /\ UNCHANGED <<listener, fs, dirs, edits, own, killed>>

Files == UNCHANGED <<umask, listener, fs, dirs, own>>

(* getConfig: the files it refuses, ... *)
ConfigFault(f) == \/ f \in {"control", "state"} /\ TooPermissive(f, M700)
                  \/ f = "control" /\ ~FileExists(f)

getConfig == /\ pc \in {"config", "again"}
             /\ \/ \E f \in Names : ConfigFault(f) /\ Abort(f)
                \/ /\ \A f \in Names : ~ConfigFault(f)
                   /\ Goto(IF pc = "config" /\ background THEN "checks" ELSE "new")
                   /\ Files

(* Mutant: nor the pid file. *)
CheckFaultButPid(f) ==
  CASE f = "control" -> TooPermissive(f, M700) \/ ~IsReadableFile(f)
    [] f = "state" -> ~IsWritableFile(f)
    [] f = "socket" -> option = "flag" /\ (~IsWritableFile(f) \/ TooPermissive(f, M660))
    [] OTHER -> FALSE

(* ... and those the parent of a background daemon refuses in RunMonitor.  *)
CheckFault(f) ==
  CASE f = "control" -> TooPermissive(f, M700) \/ ~IsReadableFile(f)
    [] f = "pid" -> (FileExists(f) /\ ~IsFile(f)) \/ ~IsWritable(f)
    [] f = "state" -> ~IsWritableFile(f)
    [] f = "socket" -> option = "flag" /\ (~IsWritableFile(f) \/ TooPermissive(f, M660))
    [] OTHER -> FALSE

RunMonitor == /\ pc = "checks"
              /\ \/ \E f \in Names : CheckFault(f) /\ Abort(f)
                 \/ (\A f \in Names : ~CheckFault(f)) /\ Goto("again") /\ Files

(* New opens the log, making its directory, before it looks at the rest; a *)
(* log or a state file that cannot be opened is reported and done without. *)
NewFault(f) ==
  \/ f = "control" /\ (TooPermissive(f, M700) \/ ~IsReadableFile(f))
  \/ f = "socket" /\ option # "none" /\ TooPermissive(f, M660)

OpenLog == IF FileExists("log") \/ dirs["log"] = "readonly"
             THEN UNCHANGED <<fs, own, dirs>>
             ELSE Open("log", M644) /\ dirs' = [dirs EXCEPT !["log"] = "writable"]

New == /\ pc = "new"
       /\ OpenLog
       /\ \/ \E f \in Names : NewFault(f) /\ End("refused", f)
          \/ (\A f \in Names : ~NewFault(f)) /\ Goto("pid") /\ UNCHANGED <<umask, listener>>

(* WritePid: ValidatePidFilePath, then os.WriteFile ... *)
PidFault == (FileExists("pid") /\ ~IsFile("pid")) \/ ~IsWritable("pid")

WritePid == /\ pc = "pid"
            /\ \/ PidFault /\ Abort("pid")
               \/ /\ ~PidFault /\ ~CanOpen("pid")
                  /\ End("failed", "pid") /\ UNCHANGED <<fs, dirs, own>>
               \/ /\ ~PidFault /\ CanOpen("pid")
                  /\ Goto("pidmode") /\ Open("pid", M644)
                  /\ UNCHANGED <<umask, listener, dirs>>

(* ... and os.Chmod, which only the owner may do. *)
WritePidMode ==
  /\ pc = "pidmode"
  /\ IF FileExists("pid") /\ fs["pid"].mine
       THEN /\ Goto(IF option = "none" THEN "up" ELSE "unlink")
            /\ Chmod("pid", M644)
            /\ UNCHANGED <<umask, listener, dirs, own>>
       ELSE End("failed", "pid") /\ UNCHANGED <<fs, dirs, own>>

-----------------------------------------------------------------------------
(* monitorServer.Start: an error leaves the daemon without a server.  The  *)
(* signal goroutine runs already.                                          *)

Unlink == /\ pc = "unlink"
          /\ IF FileExists("socket")
               THEN IF fs["socket"].type = "directory" \/ dirs["socket"] # "writable"
                      THEN Goto("up") /\ UNCHANGED <<fs, own>>
                      ELSE Goto("mask") /\ Remove("socket")
               ELSE Goto("mask") /\ UNCHANGED <<fs, own>>
          /\ UNCHANGED <<umask, listener, dirs>>

(* Mutant: the umask is left alone. *)
MaskNot == pc = "mask" /\ Goto("listen") /\ Files

Mask == /\ pc = "mask" /\ Goto("listen")
        /\ umask' = M777
        /\ UNCHANGED <<listener, fs, dirs, own>>

(* Mutant: the listener is known before its socket has a mode. *)
ListenPublished ==
  /\ pc = "listen" /\ Goto("unmask")
  /\ ~FileExists("socket") /\ dirs["socket"] = "writable"
  /\ Put("socket", [File(M777 \ umask) EXCEPT !.type = "socket"])
  /\ own' = own \cup {"socket"}
  /\ listener' = TRUE
  /\ UNCHANGED <<umask, dirs>>

Listen ==
  /\ pc = "listen"
  /\ IF FileExists("socket") \/ dirs["socket"] # "writable"
       THEN Goto("unmaskFailed") /\ UNCHANGED <<fs, own>>
       ELSE /\ Goto("unmask")
            /\ Put("socket", [File(M777 \ umask) EXCEPT !.type = "socket"])
            /\ own' = own \cup {"socket"}
  /\ UNCHANGED <<umask, listener, dirs>>

Unmask == /\ pc \in {"unmask", "unmaskFailed"}
          /\ Goto(IF pc = "unmask" THEN "chmod" ELSE "up")
          /\ umask' = shell
          /\ UNCHANGED <<listener, fs, dirs, own>>

(* Closing the listener removes whatever is there. *)
ChmodSocket == /\ pc = "chmod"
               /\ IF FileExists("socket") /\ fs["socket"].mine
                    THEN Goto("publish") /\ Chmod("socket", M660) /\ UNCHANGED own
                    ELSE Goto("up") /\ Remove("socket")
               /\ UNCHANGED <<umask, listener, dirs>>

Publish == /\ pc = "publish" /\ Goto("up")
           /\ listener' = TRUE
           /\ UNCHANGED <<umask, fs, dirs, own>>

Start == Unlink \/ Mask \/ Listen \/ Unmask \/ ChmodSocket \/ Publish

(* Serialize of the loop, which may have to make the directory. *)
Save == /\ pc = "up"
        /\ dirs' = [dirs EXCEPT !["state"] =
                      IF @ = "absent" /\ ~FileExists("state") THEN "writable" ELSE @]
        /\ IF FileExists("state") \/ dirs'["state"] # "writable"
             THEN UNCHANGED <<fs, own>> ELSE Open("state", M600)
        /\ UNCHANGED <<pc, run, umask, listener, runs, edits, steady, killed, outcome>>

(* Mutant: the listener is not closed. *)
TerminateOnly == /\ pc \in Signals
                 /\ End("quit", "none") /\ UNCHANGED <<fs, dirs, own>>

(* SIGTERM: closing the listener, when it is known, removes the socket. *)
Terminate == /\ pc \in Signals
             /\ End("quit", "none") /\ UNCHANGED dirs
             /\ IF listener THEN Remove("socket") ELSE UNCHANGED <<fs, own>>

(* The process is killed. *)
Crash == /\ pc # "off"
         /\ End("killed", "none") /\ UNCHANGED <<fs, dirs, own>>

(* Somebody else makes, changes or removes a file. *)
Edit(f) == /\ edits > 0 /\ edits' = edits - 1
           /\ own' = own \ {f} /\ steady' = FALSE
           /\ \/ \E e \in Edits : Put(f, e)
              \/ fs' = [g \in DOMAIN fs \ {f} |-> fs[g]]
           /\ UNCHANGED <<pc, run, umask, listener, dirs, runs, killed, outcome>>

Next == \/ Run \/ getConfig \/ RunMonitor \/ New \/ WritePid \/ WritePidMode
        \/ Start \/ Save \/ Terminate \/ Crash
        \/ \E f \in Names : Edit(f)

Spec == Init /\ [][Next]_vars

-----------------------------------------------------------------------------
(* Type invariant. *)
TypeOK == /\ pc \in Places /\ background \in BOOLEAN /\ listener \in BOOLEAN
          /\ listener => pc = "up"
          /\ option \in {"flag", "control", "none"} /\ {umask, shell} \subseteq Modes
          /\ own \subseteq DOMAIN fs /\ DOMAIN fs \subseteq Names
          /\ fs \in [DOMAIN fs -> FileTypes]
          /\ dirs \in [Names -> {"writable", "readonly", "absent"}]
          /\ runs \in 0..MaxRuns /\ edits \in 0..MaxEdits
          /\ steady \in BOOLEAN /\ killed \in BOOLEAN
          /\ outcome \in [how : {"none", "refused", "failed", "quit", "killed"},
                         file : Names \cup {"none"}, at : Places]

(* Between net.Listen and os.Chmod, too, nobody but the user and the group *)
(* can open the socket (the umask of monitorServer.Start).                 *)
SocketGuarded == "socket" \in own => fs["socket"].mode \subseteq M660

(* gonit does not lock itself out: a run is never refused because of a     *)
(* file an earlier run has made (RunMonitor's checks against New, WritePid *)
(* and Serialize), except the socket, by a background run, after a daemon  *)
(* that was killed or ended while it was starting.                         *)
OwnFilesServe ==
  outcome.how = "refused" /\ outcome.file \in own =>
    outcome.file = "socket" /\ outcome.at = "checks" /\ killed

(* What RunMonitor has checked lasts: when nobody else touches the files,  *)
(* the child it leaves the work to gets its files and becomes a daemon,    *)
(* except with a pid file in a directory that is missing and with a socket *)
(* that only the control file names; and that daemon can save its state.   *)
CheckedStarts == steady /\ background =>
  /\ outcome.how \in {"refused", "failed"} /\ outcome.at \notin {"config", "checks"} =>
       \/ outcome.file = "pid" /\ dirs["pid"] = "absent"
       \/ outcome.file = "socket" /\ option = "control"
  /\ pc = "up" => IsWritableFile("state")
=============================================================================
