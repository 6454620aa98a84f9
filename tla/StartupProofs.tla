--------------------------- MODULE StartupProofs ---------------------------
(***************************************************************************)
(* gonit and its files, for every umask, every number of runs and of       *)
(* changes that others make: its socket is never open to others, not even  *)
(* between listen and chmod, and, under a umask that leaves the user his   *)
(* rights, no run is refused because of a file another run has left, and   *)
(* the child of a background run gets what its parent has checked.         *)
(***************************************************************************)
EXTENDS Startup, TLAPS

(* The umask does not take the user's own rights. *)
UserKept == Shells \subseteq SUBSET ({"g", "o"} \X {"r", "w", "x"})

-----------------------------------------------------------------------------
(* Modes and files. *)
LEMMA ModeSets ==
  /\ M600 \in Modes /\ M644 \in Modes /\ M660 \in Modes /\ M700 \in Modes /\ M777 \in Modes
  /\ {} \in Modes /\ M600 \subseteq M700 /\ M777 \ M777 = {}
  BY DEF Modes, M600, M644, M660, M700, M777, Classes

LEMMA FileIsFile == ASSUME NEW mode \in Modes PROVE File(mode) \in FileTypes
  BY DEF File, FileTypes

LEMMA EditsAreFiles == Edits \subseteq FileTypes
  <1>1. File(M600) \in FileTypes /\ File(M644) \in FileTypes /\ File({}) \in FileTypes
        /\ File(M700) \in FileTypes
    BY ModeSets, FileIsFile
  <1> QED BY <1>1 DEF Edits, FileTypes

(* The part of the type invariant that is about files. *)
FilesOK == /\ own \subseteq DOMAIN fs /\ DOMAIN fs \subseteq Names
           /\ fs \in [DOMAIN fs -> FileTypes]

Untouched(f) == /\ FileExists(f)' <=> FileExists(f)
                /\ FileExists(f) => fs'[f] = fs[f]
                /\ f \in own' <=> f \in own

Keeps(f) == \A g \in Names \ {f} : Untouched(g)

LEMMA PutFile ==
  ASSUME FilesOK, NEW f \in Names, NEW file \in FileTypes, Put(f, file),
         own' \in {own \cup {f}, own \ {f}}
  PROVE  FilesOK' /\ Keeps(f) /\ FileExists(f)' /\ fs'[f] = file
  BY DEF FilesOK, Put, Keeps, Untouched, FileExists

LEMMA OpenFile ==
  ASSUME FilesOK, umask \in Modes, NEW f \in Names, NEW mode \in Modes, Open(f, mode)
  PROVE  /\ FilesOK' /\ Keeps(f) /\ FileExists(f)'
         /\ \/ FileExists(f) /\ UNCHANGED <<fs, own>>
            \/ fs'[f] = File(mode \ umask) /\ ~FileExists(f) /\ f \in own'
  <1>1. CASE FileExists(f)
    BY <1>1 DEF Open, FilesOK, Keeps, Untouched, FileExists
  <1>2. CASE ~FileExists(f)
    <2>1. mode \ umask \in Modes
      BY DEF Modes
    <2> QED BY <1>2, <2>1, FileIsFile, PutFile DEF Open
  <1> QED BY <1>1, <1>2

LEMMA RemoveFile ==
  ASSUME FilesOK, NEW f \in Names, fs' = [g \in DOMAIN fs \ {f} |-> fs[g]], own' = own \ {f}
  PROVE  FilesOK' /\ Keeps(f) /\ ~FileExists(f)'
  BY DEF FilesOK, Keeps, Untouched, FileExists

LEMMA ChmodFile ==
  ASSUME FilesOK, NEW f \in Names, NEW mode \in Modes, FileExists(f), Chmod(f, mode),
         UNCHANGED own
  PROVE  /\ FilesOK' /\ Keeps(f) /\ FileExists(f)'
         /\ fs'[f] = [fs[f] EXCEPT !.mode = mode]
  <1>1. [fs[f] EXCEPT !.mode = mode] \in FileTypes
    BY DEF FilesOK, FileTypes, FileExists
  <1> QED BY <1>1 DEF FilesOK, Chmod, Keeps, Untouched, FileExists

LEMMA SameFiles ==
  ASSUME FilesOK, UNCHANGED <<fs, own>>
  PROVE  FilesOK' /\ \A f \in Names : Keeps(f)
  BY DEF FilesOK, Keeps, Untouched, FileExists

-----------------------------------------------------------------------------
LEMMA TypeFiles == TypeOK => FilesOK
  BY DEF TypeOK, FilesOK

(* The rest of the type invariant, through the two ways an action goes on. *)
LEMMA GotoType ==
  ASSUME TypeOK, FilesOK', NEW p \in Places, Goto(p), umask' \in Modes,
         dirs' \in [Names -> {"writable", "readonly", "absent"}],
         listener' \in BOOLEAN, listener' => p = "up"
  PROVE  TypeOK'
  BY DEF TypeOK, FilesOK, Goto, run

LEMMA EndType ==
  ASSUME TypeOK, FilesOK', NEW how \in {"refused", "failed", "quit", "killed"},
         NEW f \in Names \cup {"none"}, End(how, f),
         dirs' \in [Names -> {"writable", "readonly", "absent"}]
  PROVE  TypeOK'
  <1>1. killed' \in BOOLEAN /\ listener' = FALSE
    <2>1. killed' = (killed \/ how = "killed" \/ (how = "quit" /\ pc # "up"))
      BY DEF End
    <2> QED BY <2>1, Zenon DEF End
  <1>2. outcome' \in [how : {"none", "refused", "failed", "quit", "killed"},
                      file : Names \cup {"none"}, at : Places]
    BY DEF End, TypeOK
  <1> QED BY <1>1, <1>2 DEF End, TypeOK, FilesOK, run, Places

LEMMA NextTypeOK == TypeOK /\ [Next]_vars => TypeOK'
  <1> SUFFICES ASSUME TypeOK, [Next]_vars PROVE TypeOK'
    OBVIOUS
  <1>0. /\ FilesOK /\ umask \in Modes /\ shell \in Modes /\ listener \in BOOLEAN
        /\ dirs \in [Names -> {"writable", "readonly", "absent"}]
        /\ listener => pc = "up"
    BY DEF TypeOK, FilesOK
  <1>a. "log" \in Names /\ "pid" \in Names /\ "socket" \in Names /\ "state" \in Names
        /\ Places = Places \cup Signals
    BY DEF Names, Places
  <1>b. UNCHANGED <<fs, own>> => FilesOK'
    BY <1>0, SameFiles
  <1>c. ASSUME NEW f \in Names, Abort(f) PROVE TypeOK'
    BY <1>0, <1>b, <1>c, EndType DEF Abort
  <1>d. ASSUME NEW p \in Places, Goto(p), Files, pc # "up" PROVE TypeOK'
    BY <1>0, <1>b, <1>d, GotoType DEF Files
  <1>1. CASE Run
    <2>1. /\ shell' \in Modes /\ umask' = shell' /\ runs' \in 0..MaxRuns
          /\ outcome' = Nothing /\ ~listener /\ listener' = listener
      BY <1>0, <1>1, StartupAssumption DEF Run, TypeOK
    <2>2. background' \in BOOLEAN /\ steady' \in BOOLEAN
      BY <1>1, Zenon DEF Run
    <2>3. outcome' \in [how : {"none", "refused", "failed", "quit", "killed"},
                        file : Names \cup {"none"}, at : Places]
      BY <2>1 DEF Nothing, Places
    <2>4. FilesOK'
      BY <1>1, <1>b DEF Run
    <2>5. /\ UNCHANGED <<dirs, edits, killed>> /\ pc' = "config"
          /\ option' \in {"flag", "control", "none"}
      BY <1>1 DEF Run
    <2> QED BY <1>0, <2>1, <2>2, <2>3, <2>4, <2>5 DEF TypeOK, FilesOK, Places
  <1>2. CASE getConfig
    BY <1>2, <1>c, <1>d DEF getConfig, Places
  <1>3. CASE RunMonitor
    BY <1>3, <1>c, <1>d DEF RunMonitor, Places
  <1>4. CASE New
    <2>1. FilesOK' /\ dirs' \in [Names -> {"writable", "readonly", "absent"}]
      BY <1>0, <1>4, <1>a, <1>b, OpenFile, ModeSets DEF New, OpenLog
    <2>2. CASE \E f \in Names : End("refused", f)
      BY <2>1, <2>2, EndType
    <2>3. CASE Goto("pid") /\ UNCHANGED <<umask, listener>>
      BY <1>0, <1>4, <2>1, <2>3, GotoType DEF New, Places
    <2> QED BY <1>4, <2>2, <2>3 DEF New
  <1>5. CASE WritePid
    <2>1. CASE End("failed", "pid") /\ UNCHANGED <<fs, dirs, own>>
      BY <1>0, <1>a, <1>b, <2>1, EndType
    <2>2. CASE Goto("pidmode") /\ Open("pid", M644) /\ UNCHANGED <<umask, listener, dirs>>
      BY <1>0, <1>5, <1>a, <2>2, OpenFile, ModeSets, GotoType DEF WritePid, Places
    <2> QED BY <1>5, <1>a, <1>c, <2>1, <2>2 DEF WritePid
  <1>6. CASE WritePidMode
    <2>1. CASE End("failed", "pid") /\ UNCHANGED <<fs, dirs, own>>
      BY <1>0, <1>a, <1>b, <2>1, EndType
    <2>2. CASE /\ FileExists("pid") /\ Goto(IF option = "none" THEN "up" ELSE "unlink")
               /\ Chmod("pid", M644) /\ UNCHANGED <<umask, listener, dirs, own>>
      <3>1. FilesOK'
        BY <1>0, <1>a, <2>2, ChmodFile, ModeSets
      <3> QED BY <1>0, <1>6, <2>2, <3>1, GotoType DEF WritePidMode, Places, Signals
    <2> QED BY <1>6, <2>1, <2>2 DEF WritePidMode
  <1>7. CASE Start
    <2> USE DEF Places, Signals
    <2>1. CASE Unlink
      <3>1. FilesOK'
        BY <1>0, <1>a, <1>b, <2>1, RemoveFile DEF Unlink, Remove
      <3> QED BY <1>0, <2>1, <3>1, GotoType DEF Unlink
    <2>2. CASE Mask
      BY <1>0, <1>b, <2>2, ModeSets, GotoType DEF Mask
    <2>3. CASE Listen
      <3>1. FilesOK'
        <4>1. M777 \ umask \in Modes
          BY DEF Modes
        <4>2. [File(M777 \ umask) EXCEPT !.type = "socket"] \in FileTypes
          BY <4>1 DEF File, FileTypes
        <4> QED BY <1>0, <1>a, <1>b, <2>3, <4>2, PutFile DEF Listen
      <3> QED BY <1>0, <2>3, <3>1, GotoType DEF Listen
    <2>4. CASE Unmask
      BY <1>0, <1>b, <2>4, GotoType DEF Unmask
    <2>5. CASE ChmodSocket
      <3>1. FilesOK'
        BY <1>0, <1>a, <2>5, ChmodFile, RemoveFile, ModeSets DEF ChmodSocket, Remove
      <3> QED BY <1>0, <2>5, <3>1, GotoType DEF ChmodSocket
    <2>6. CASE Publish
      BY <1>0, <1>b, <2>6, GotoType DEF Publish
    <2> QED BY <1>7, <2>1, <2>2, <2>3, <2>4, <2>5, <2>6 DEF Start
  <1>8. CASE Save
    <2>1. FilesOK'
      BY <1>0, <1>8, <1>a, <1>b, OpenFile, ModeSets DEF Save
    <2>2. dirs' \in [Names -> {"writable", "readonly", "absent"}]
      BY <1>0, <1>8 DEF Save
    <2> QED BY <1>8, <2>1, <2>2 DEF Save, TypeOK, FilesOK, run
  <1>9. CASE Terminate
    <2>1. FilesOK'
      BY <1>0, <1>9, <1>a, <1>b, RemoveFile DEF Terminate, Remove
    <2> QED BY <1>0, <1>9, <2>1, EndType DEF Terminate
  <1>10. CASE Crash
    BY <1>0, <1>10, <1>b, EndType DEF Crash
  <1>11. ASSUME NEW f \in Names, Edit(f) PROVE TypeOK'
    <2>1. FilesOK'
      BY <1>0, <1>11, EditsAreFiles, PutFile, RemoveFile DEF Edit
    <2>2. edits' \in 0..MaxEdits
      BY <1>11, StartupAssumption DEF Edit, TypeOK
    <2>3. steady' \in BOOLEAN
      BY <1>11, Zenon DEF Edit
    <2> QED BY <1>11, <2>1, <2>2, <2>3 DEF Edit, TypeOK, FilesOK, run
  <1>12. CASE UNCHANGED vars
    BY <1>12 DEF vars, run, TypeOK
  <1> QED BY <1>1, <1>2, <1>3, <1>4, <1>5, <1>6, <1>7, <1>8, <1>9, <1>10, <1>11, <1>12
          DEF Next

LEMMA InitTypeOK == Init => TypeOK
  <1> SUFFICES ASSUME Init PROVE TypeOK
    OBVIOUS
  <1>1. /\ pc = "off" /\ option = "none" /\ own = {} /\ outcome = Nothing
        /\ runs = MaxRuns /\ edits = MaxEdits /\ shell \in Modes /\ umask = shell
    BY StartupAssumption DEF Init
  <1>2. /\ background \in BOOLEAN /\ listener \in BOOLEAN /\ ~listener
        /\ steady \in BOOLEAN /\ killed \in BOOLEAN
    BY Zenon DEF Init
  <1>3. DOMAIN fs = {"control"} /\ fs \in [DOMAIN fs -> FileTypes]
    BY ModeSets, FileIsFile DEF Init
  <1>4. dirs \in [Names -> {"writable", "readonly", "absent"}]
    BY DEF Init
  <1> QED BY <1>1, <1>2, <1>3, <1>4, StartupAssumption
          DEF TypeOK, Names, Nothing, Places, Signals

(* The type invariant: in particular a daemon only has a listener once it  *)
(* is up, and gonit's own files exist.                                     *)
THEOREM TypeCorrect == Spec => []TypeOK
  BY InitTypeOK, NextTypeOK, PTL DEF Spec

-----------------------------------------------------------------------------
(* The socket: it is bound under a umask that leaves nobody a right. *)
SocketInv ==
  /\ pc = "listen" => umask = M777
  /\ "socket" \in own => /\ fs["socket"].type = "socket" /\ fs["socket"].mine
                         /\ fs["socket"].mode \subseteq M660

(* The other files of gonit, the shell's umask, what a run leaves behind.  *)
Umasks ==
  /\ shell \in Shells
  /\ pc \notin {"off", "listen", "unmask", "unmaskFailed"} => umask = shell

Ended == pc # "off" => outcome = Nothing

OwnFiles ==
  /\ "control" \notin own
  /\ "state" \in own => fs["state"] = File(M600)
  /\ "pid" \in own => /\ fs["pid"].type = "file" /\ fs["pid"].mine
                      /\ <<"u", "w">> \in fs["pid"].mode

LeftOver == "socket" \in own => \/ killed
                                \/ pc \in {"unmask", "chmod", "publish"}
                                \/ pc = "up" /\ listener

OwnInv == Umasks /\ Ended /\ OwnFiles /\ LeftOver /\ OwnFilesServe

(* What RunMonitor has checked, in the order the child comes to use it.  A *)
(* file of somebody else is not writable.                                  *)
Others == \A f \in DOMAIN fs : ~fs[f].mine => <<"o", "w">> \notin fs[f].mode

Checked ==
  /\ pc \in {"checks", "again"} => ~TooPermissive("state", M700)
  /\ pc \in {"again", "new"} => \A f \in Names : ~CheckFault(f)
  /\ pc = "pid" => ~PidFault
  /\ pc \in {"again", "new", "pid", "pidmode"} \cup Signals => IsWritableFile("state")

PidMine == steady /\ pc = "pidmode" => FileExists("pid") /\ fs["pid"].mine

(* The end of a run that RunMonitor had checked, and what its daemon finds. *)
Deserved == outcome.how \in {"refused", "failed"} /\ outcome.at \notin {"config", "checks"} =>
              \/ outcome.file = "pid" /\ dirs["pid"] = "absent"
              \/ outcome.file = "socket" /\ option = "control"

CheckedInv == Others /\ PidMine /\ (steady /\ background => Checked /\ Deserved)

-----------------------------------------------------------------------------
(* Who changes which file. *)
LEMMA Touches ==
  ASSUME TypeOK, [Next]_vars, NEW f \in Names
  PROVE  \/ Untouched(f) \/ Edit(f)
         \/ f = "log" /\ New
         \/ f = "pid" /\ (WritePid \/ WritePidMode)
         \/ f = "socket" /\ (Unlink \/ Listen \/ ChmodSocket \/ Terminate)
         \/ f = "state" /\ Save
  <1>1. FilesOK /\ umask \in Modes /\ "log" \in Names /\ "pid" \in Names
        /\ "socket" \in Names /\ "state" \in Names
    BY TypeFiles DEF TypeOK, Names
  <1>2. UNCHANGED <<fs, own>> => Untouched(f)
    BY <1>1, SameFiles DEF Keeps, Untouched, FileExists
  <1>3. CASE Run \/ getConfig \/ RunMonitor \/ Mask \/ Unmask \/ Publish \/ Crash
             \/ UNCHANGED vars
    BY <1>2, <1>3 DEF Run, getConfig, RunMonitor, Mask, Unmask, Publish, Crash, Abort,
       Files, vars
  <1>4. CASE New /\ f # "log"
    <2>1. UNCHANGED <<fs, own>> \/ Open("log", M644)
      BY <1>4 DEF New, OpenLog
    <2> QED BY <1>1, <1>2, <1>4, <2>1, OpenFile, ModeSets DEF Keeps
  <1>5. CASE WritePid /\ f # "pid"
    <2>1. UNCHANGED <<fs, own>> \/ Open("pid", M644)
      BY <1>5 DEF WritePid, Abort
    <2> QED BY <1>1, <1>2, <1>5, <2>1, OpenFile, ModeSets DEF Keeps
  <1>6. CASE WritePidMode /\ f # "pid"
    <2>1. \/ UNCHANGED <<fs, own>>
          \/ FileExists("pid") /\ Chmod("pid", M644) /\ UNCHANGED own
      BY <1>6 DEF WritePidMode
    <2> QED BY <1>1, <1>2, <1>6, <2>1, ChmodFile, ModeSets DEF Keeps
  <1>7. CASE (Unlink \/ Terminate) /\ f # "socket"
    <2>1. UNCHANGED <<fs, own>> \/ Remove("socket")
      BY <1>7 DEF Unlink, Terminate
    <2> QED BY <1>1, <1>2, <1>7, <2>1, RemoveFile DEF Keeps, Remove
  <1>8. CASE Listen /\ f # "socket"
    <2>1. M777 \ umask \in Modes
      BY DEF Modes
    <2>2. [File(M777 \ umask) EXCEPT !.type = "socket"] \in FileTypes
      BY <2>1 DEF File, FileTypes
    <2> QED BY <1>1, <1>2, <1>8, <2>2, PutFile DEF Keeps, Listen
  <1>9. CASE ChmodSocket /\ f # "socket"
    BY <1>1, <1>9, ChmodFile, RemoveFile, ModeSets DEF Keeps, ChmodSocket, Remove
  <1>10. CASE Save /\ f # "state"
    <2>1. UNCHANGED <<fs, own>> \/ Open("state", M600)
      BY <1>10 DEF Save
    <2> QED BY <1>1, <1>2, <1>10, <2>1, OpenFile, ModeSets DEF Keeps
  <1>11. ASSUME NEW g \in Names, Edit(g), f # g PROVE Untouched(f)
    BY <1>1, <1>11, EditsAreFiles, PutFile, RemoveFile DEF Edit, Keeps
  <1> QED BY <1>3, <1>4, <1>5, <1>6, <1>7, <1>8, <1>9, <1>10, <1>11 DEF Next, Start

(* gonit only comes to listen with a umask that leaves nobody a right. *)
LEMMA ListensMasked ==
  ASSUME [Next]_vars, pc' = "listen"
  PROVE  umask' = M777 \/ UNCHANGED <<pc, umask>>
  <1>1. CASE Mask
    BY <1>1 DEF Mask
  <1>2. CASE ~Mask
    BY <1>2 DEF Next, Start, Run, getConfig, RunMonitor, New, WritePid, WritePidMode,
       Unlink, Listen, Unmask, ChmodSocket, Publish, Save, Terminate, Crash, Edit, Goto,
       End, Abort, vars, Files
  <1> QED BY <1>1, <1>2

LEMMA NextSocketInv == TypeOK /\ SocketInv /\ [Next]_vars => SocketInv'
  <1> SUFFICES ASSUME TypeOK, SocketInv, [Next]_vars PROVE SocketInv'
    OBVIOUS
  <1>1. pc' = "listen" => umask' = M777
    BY ListensMasked DEF SocketInv
  <1>2. ASSUME "socket" \in own'
        PROVE  /\ fs'["socket"].type = "socket" /\ fs'["socket"].mine
               /\ fs'["socket"].mode \subseteq M660
    <2>1. FilesOK /\ "socket" \in Names
      BY TypeFiles DEF Names
    <2> USE <1>2 DEF SocketInv
    <2>2. CASE Untouched("socket") \/ UNCHANGED <<fs, own>>
      BY <2>1, <2>2 DEF Untouched, FilesOK, FileExists
    <2>3. ~Remove("socket") /\ ~Edit("socket")
      BY DEF Remove, Edit
    <2>4. CASE Unlink \/ Terminate
      BY <2>2, <2>3, <2>4 DEF Unlink, Terminate
    <2>5. CASE Listen
      <3>1. CASE Put("socket", [File(M777 \ umask) EXCEPT !.type = "socket"])
        <4>1. M777 \ umask = {}
          BY <2>5 DEF Listen
        <4>2. fs'["socket"] = [File({}) EXCEPT !.type = "socket"]
          BY <3>1, <4>1 DEF Put
        <4> QED BY <4>2 DEF File
      <3> QED BY <2>2, <2>5, <3>1 DEF Listen
    <2>6. CASE ChmodSocket
      <3>1. FileExists("socket") /\ Chmod("socket", M660) /\ UNCHANGED own
        BY <2>3, <2>6 DEF ChmodSocket
      <3>2. /\ fs'["socket"] = [fs["socket"] EXCEPT !.mode = M660]
            /\ fs["socket"] \in FileTypes
        BY <2>1, <3>1, ChmodFile, ModeSets DEF FilesOK, FileExists
      <3> QED BY <3>1, <3>2 DEF FileTypes
    <2> QED BY <2>1, <2>2, <2>3, <2>4, <2>5, <2>6, Touches
  <1> QED BY <1>1, <1>2 DEF SocketInv

LEMMA SocketInvHolds == Spec => []SocketInv
  <1>1. Init => SocketInv
    BY DEF Init, SocketInv
  <1> QED BY <1>1, NextSocketInv, TypeCorrect, PTL DEF Spec

(* The socket is never open to others, whatever the umask of the shell and  *)
(* whatever others do to the files: not between listen and chmod either.    *)
THEOREM SocketIsGuarded == Spec => []SocketGuarded
  <1>1. SocketInv => SocketGuarded
    BY DEF SocketInv, SocketGuarded
  <1> QED BY <1>1, SocketInvHolds, PTL

-----------------------------------------------------------------------------
LEMMA NextUmasks == TypeOK /\ Umasks /\ [Next]_vars => Umasks'
  <1> SUFFICES ASSUME TypeOK, Umasks, [Next]_vars PROVE Umasks'
    OBVIOUS
  <1>1. CASE Run
    BY <1>1 DEF Run, Umasks
  <1>2. CASE ~Run
    BY <1>2 DEF Umasks, Next, Start, getConfig, RunMonitor, New, WritePid, WritePidMode,
       Unlink, Mask, Listen, Unmask, ChmodSocket, Publish, Save, Terminate, Crash, Edit,
       Goto, End, Abort, Files, run, vars
  <1> QED BY <1>1, <1>2

LEMMA NextEnded == Ended /\ [Next]_vars => Ended'
  BY DEF Ended, Next, Start, Run, getConfig, RunMonitor, New, WritePid, WritePidMode,
     Unlink, Mask, Listen, Unmask, ChmodSocket, Publish, Save, Terminate, Crash, Edit,
     Goto, End, Abort, Files, run, vars

(* What a new file of gonit allows its user, whatever the umask. *)
LEMMA UserRights ==
  ASSUME UserKept, umask \in Shells
  PROVE  M600 \ umask = M600 /\ <<"u", "w">> \in M644 \ umask
  BY DEF UserKept, M600, M644

LEMMA NextOwnFiles ==
  UserKept /\ TypeOK /\ Umasks /\ OwnFiles /\ [Next]_vars => OwnFiles'
  <1> SUFFICES ASSUME UserKept, TypeOK, Umasks, OwnFiles, [Next]_vars PROVE OwnFiles'
    OBVIOUS
  <1>1. FilesOK /\ umask \in Modes /\ "pid" \in Names /\ "state" \in Names
        /\ "control" \in Names
    BY TypeFiles DEF TypeOK, Names
  <1>2. ASSUME NEW f \in Names, Edit(f) PROVE f \notin own'
    BY <1>2 DEF Edit
  <1>3. ASSUME NEW f \in Names, Untouched(f)
        PROVE  f \in own' => f \in own /\ fs'[f] = fs[f]
    BY <1>1, <1>3 DEF Untouched, FilesOK, FileExists
  <1>4. "control" \notin own'
    BY <1>1, <1>2, <1>3, Touches DEF OwnFiles
  <1>5. ASSUME "state" \in own' PROVE fs'["state"] = File(M600)
    <2>1. CASE Save
      <3>1. pc = "up"
        BY <2>1 DEF Save
      <3>2. M600 \ umask = M600
        BY <3>1, UserRights DEF Umasks
      <3>3. UNCHANGED <<fs, own>> \/ Open("state", M600)
        BY <2>1 DEF Save
      <3> QED BY <1>1, <1>5, <3>2, <3>3, OpenFile, ModeSets DEF OwnFiles
    <2> QED BY <1>1, <1>2, <1>3, <1>5, <2>1, Touches DEF OwnFiles
  <1>6. ASSUME "pid" \in own'
        PROVE  fs'["pid"].type = "file" /\ fs'["pid"].mine /\ <<"u", "w">> \in fs'["pid"].mode
    <2>1. CASE UNCHANGED <<fs, own>>
      BY <1>6, <2>1 DEF OwnFiles
    <2>2. CASE WritePid /\ Open("pid", M644)
      <3>1. <<"u", "w">> \in M644 \ umask
        BY <2>2, UserRights DEF WritePid, Umasks
      <3>2. \/ UNCHANGED <<fs, own>>
            \/ fs'["pid"] = File(M644 \ umask)
        BY <1>1, <2>2, OpenFile, ModeSets
      <3> QED BY <2>1, <3>1, <3>2 DEF File
    <2>3. CASE WritePidMode /\ FileExists("pid") /\ Chmod("pid", M644) /\ UNCHANGED own
      <3>1. fs'["pid"] = [fs["pid"] EXCEPT !.mode = M644] /\ fs["pid"] \in FileTypes
        BY <1>1, <2>3, ChmodFile, ModeSets DEF FilesOK, FileExists
      <3>2. <<"u", "w">> \in M644
        BY DEF M644, M600
      <3> QED BY <1>6, <2>3, <3>1, <3>2 DEF FileTypes, OwnFiles
    <2>4. CASE WritePid \/ WritePidMode
      BY <2>1, <2>2, <2>3, <2>4 DEF WritePid, WritePidMode, Abort
    <2> QED BY <1>1, <1>2, <1>3, <1>6, <2>4, Touches DEF OwnFiles
  <1> QED BY <1>4, <1>5, <1>6 DEF OwnFiles

LEMMA NextLeftOver == TypeOK /\ SocketInv /\ LeftOver /\ [Next]_vars => LeftOver'
  <1> SUFFICES ASSUME TypeOK, SocketInv, LeftOver, [Next]_vars, "socket" \in own', ~killed'
               PROVE  \/ pc' \in {"unmask", "chmod", "publish"}
                      \/ pc' = "up" /\ listener'
    BY DEF LeftOver
  <1>1. FilesOK /\ "socket" \in Names
    BY TypeFiles DEF Names
  <1>2. ~killed
    BY DEF Next, Start, Run, getConfig, RunMonitor, New, WritePid, WritePidMode,
       Unlink, Mask, Listen, Unmask, ChmodSocket, Publish, Save, Terminate, Crash, Edit,
       Goto, End, Abort, Files, run, vars
  <1>3. ASSUME "socket" \in own
        PROVE  /\ FileExists("socket") /\ fs["socket"].type = "socket" /\ fs["socket"].mine
               /\ \/ pc \in {"unmask", "chmod", "publish"}
                  \/ pc = "up" /\ listener
    BY <1>1, <1>2, <1>3 DEF LeftOver, SocketInv, FilesOK, FileExists
  <1>4. CASE Listen
    BY <1>3, <1>4 DEF Listen, Goto
  <1>5. CASE ~Listen
    <2>1. ~Remove("socket") /\ ~Edit("socket")
      BY DEF Remove, Edit
    <2>2. "socket" \in own
      <3>1. CASE Unlink \/ ChmodSocket \/ Terminate
        BY <2>1, <3>1 DEF Unlink, ChmodSocket, Terminate
      <3> QED BY <1>1, <1>5, <2>1, <3>1, Touches DEF Untouched
    <2>3. CASE UNCHANGED <<pc, listener>>
      BY <1>3, <2>2, <2>3
    <2>4. CASE Unmask \/ ChmodSocket \/ Publish
      BY <1>3, <2>1, <2>2, <2>4 DEF Unmask, ChmodSocket, Publish, Goto
    <2>5. CASE Terminate
      BY <1>3, <2>1, <2>2, <2>5 DEF Terminate, End
    <2>6. CASE Crash
      BY <2>6 DEF Crash, End
    <2>7. ~Run /\ ~getConfig /\ ~RunMonitor /\ ~New /\ ~WritePid /\ ~WritePidMode
          /\ ~Unlink /\ ~Mask
      BY <1>3, <2>2 DEF Run, getConfig, RunMonitor, New, WritePid, WritePidMode, Unlink, Mask
    <2>8. CASE Save \/ (\E f \in Names : Edit(f)) \/ UNCHANGED vars
      BY <2>3, <2>8 DEF Save, Edit, vars
    <2> QED BY <1>5, <2>4, <2>5, <2>6, <2>7, <2>8 DEF Next, Start
  <1> QED BY <1>4, <1>5

(* A file of gonit passes the checks of every later run, but for a socket   *)
(* that a background run is told of by a flag.                              *)
LEMMA OwnPass ==
  ASSUME FilesOK, OwnFiles, SocketInv, NEW f \in own
  PROVE  /\ ~ConfigFault(f) /\ ~NewFault(f)
         /\ f = "pid" => ~PidFault
         /\ CheckFault(f) => f = "socket"
  <1>1. f \in Names /\ f # "control" /\ FileExists(f)
    BY DEF FilesOK, OwnFiles, FileExists
  <1>2. ASSUME f = "state" PROVE ~TooPermissive(f, M700) /\ IsWritableFile(f)
    <2>1. fs[f] = File(M600)
      BY <1>2 DEF OwnFiles
    <2>2. fs[f].mine /\ fs[f].mode = M600 /\ fs[f].type = "file"
      BY <2>1 DEF File
    <2>3. ~TooPermissive(f, M700)
      BY <2>2, ModeSets DEF TooPermissive
    <2>4. <<"u", "w">> \in M600
      BY DEF M600
    <2> QED BY <1>1, <2>2, <2>3, <2>4 DEF IsWritableFile, IsWritable, IsFile, Access
  <1>3. ASSUME f = "pid" PROVE IsFile(f) /\ IsWritable(f)
    BY <1>1, <1>3 DEF OwnFiles, IsFile, IsWritable, Access
  <1>4. ASSUME f = "socket" PROVE ~TooPermissive(f, M660)
    BY <1>4 DEF SocketInv, TooPermissive
  <1>5. ~ConfigFault(f)
    BY <1>1, <1>2 DEF ConfigFault
  <1>6. ~NewFault(f)
    BY <1>1, <1>4 DEF NewFault
  <1>7. f = "pid" => ~PidFault
    BY <1>1, <1>3 DEF PidFault
  <1>8. CheckFault(f) => f = "socket"
    BY <1>1, <1>2, <1>3 DEF CheckFault, Names
  <1> QED BY <1>5, <1>6, <1>7, <1>8

LEMMA NextOwnFilesServe ==
  TypeOK /\ SocketInv /\ OwnInv /\ OwnFiles' /\ [Next]_vars => OwnFilesServe'
  <1> SUFFICES ASSUME TypeOK, SocketInv, OwnInv, OwnFiles', [Next]_vars,
                      outcome'.how = "refused", outcome'.file \in own'
               PROVE  outcome'.file = "socket" /\ outcome'.at = "checks" /\ killed'
    BY DEF OwnFilesServe
  <1>1. FilesOK /\ OwnFiles /\ LeftOver /\ Ended /\ OwnFilesServe
    BY TypeFiles DEF OwnInv
  <1>2. CASE outcome' = outcome
    <2>1. pc = "off"
      BY <1>1, <1>2 DEF Ended, Nothing
    <2>2. own' \subseteq own /\ killed' = killed
      BY <1>2, <2>1 DEF Next, Start, Run, Nothing, getConfig, RunMonitor, New, WritePid,
         WritePidMode, Unlink, Mask, Listen, Unmask, ChmodSocket, Publish, Save,
         Terminate, Signals, Crash, Edit, vars
    <2> QED BY <1>1, <1>2, <2>2 DEF OwnFilesServe
  <1>3. CASE outcome' # outcome
    <2>1. ~Start /\ ~Save /\ (\A f \in Names : ~Edit(f)) /\ ~UNCHANGED vars
      BY <1>3 DEF Start, Unlink, Mask, Listen, Unmask, ChmodSocket, Publish, Save, Edit,
         Goto, vars
    <2>2. ASSUME NEW how, NEW f, End(how, f)
          PROVE  /\ how = "refused" /\ outcome'.file = f /\ outcome'.at = pc
                 /\ killed => killed'
      BY <2>2 DEF End
    <2>3. ASSUME NEW f, Abort(f) PROVE /\ f \in own /\ outcome'.file = f /\ outcome'.at = pc
                                       /\ killed => killed'
      BY <2>2, <2>3 DEF Abort
    <2>4. ~Run /\ ~Terminate /\ ~Crash /\ ~WritePidMode
      BY <1>3, <2>2 DEF Run, Nothing, Terminate, Crash, WritePidMode, Goto
    <2>5. ~getConfig
      BY <1>1, <1>3, <2>3, OwnPass DEF getConfig, Goto
    <2>6. CASE RunMonitor
      <3>1. PICK f \in Names : CheckFault(f) /\ Abort(f)
        BY <1>3, <2>6 DEF RunMonitor, Goto
      <3>2. f = "socket" /\ pc = "checks"
        BY <1>1, <2>3, <2>6, <3>1, OwnPass DEF RunMonitor
      <3> QED BY <1>1, <2>3, <3>1, <3>2 DEF LeftOver
    <2>7. ~New
      <3> SUFFICES ASSUME New PROVE FALSE
        OBVIOUS
      <3>1. PICK f \in Names : NewFault(f) /\ End("refused", f)
        BY <1>3 DEF New, Goto
      <3>2. f \in {"control", "socket"} /\ f \in own'
        BY <2>2, <3>1 DEF NewFault
      <3>3. f # "control"
        BY <3>2 DEF OwnFiles
      <3>4. f \in own
        <4>1. UNCHANGED own \/ own' = own \cup {"log"}
          BY DEF New, OpenLog, Open
        <4> QED BY <3>2, <4>1
      <3> QED BY <1>1, <3>1, <3>4, OwnPass
    <2>8. ~WritePid
      BY <1>1, <1>3, <2>2, <2>3, OwnPass DEF WritePid, Goto
    <2> QED BY <2>1, <2>4, <2>5, <2>6, <2>7, <2>8 DEF Next
  <1> QED BY <1>2, <1>3

LEMMA OwnInvHolds == ASSUME UserKept PROVE Spec => []OwnInv
  <1>1. Init => OwnInv
    BY DEF Init, OwnInv, Umasks, Ended, OwnFiles, LeftOver, OwnFilesServe, Nothing
  <1>2. TypeOK /\ SocketInv /\ OwnInv /\ [Next]_vars => OwnInv'
    BY NextUmasks, NextEnded, NextOwnFiles, NextLeftOver, NextOwnFilesServe DEF OwnInv
  <1> QED BY <1>1, <1>2, SocketInvHolds, TypeCorrect, PTL DEF Spec

(* gonit does not lock itself out: no run is refused because of a file that *)
(* gonit has made, but for the socket of a daemon that was killed or ended  *)
(* while it was starting, whatever the umasks that leave the user's rights. *)
THEOREM OwnFilesAlwaysServe == ASSUME UserKept PROVE Spec => []OwnFilesServe
  <1>1. OwnInv => OwnFilesServe
    BY DEF OwnInv
  <1> QED BY <1>1, OwnInvHolds, PTL

-----------------------------------------------------------------------------
LEMMA NextOthers == TypeOK /\ Others /\ [Next]_vars => Others'
  <1> SUFFICES ASSUME TypeOK, Others, [Next]_vars, NEW f \in DOMAIN fs', ~fs'[f].mine
               PROVE  <<"o", "w">> \notin fs'[f].mode
    BY DEF Others
  <1>1. FilesOK /\ FilesOK' /\ f \in Names /\ umask \in Modes
        /\ {"log", "pid", "socket", "state"} \subseteq Names
    BY TypeFiles, NextTypeOK DEF FilesOK, Names, TypeOK
  <1>2. CASE Untouched(f) \/ UNCHANGED <<fs, own>>
    BY <1>2 DEF Untouched, FileExists, Others
  <1>3. CASE Edit(f)
    <2>1. CASE fs' = [g \in DOMAIN fs \ {f} |-> fs[g]]
      BY <2>1 DEF Others
    <2>2. ASSUME NEW e \in Edits, Put(f, e) PROVE <<"o", "w">> \notin fs'[f].mode
      <3>1. fs'[f] = e
        BY <2>2 DEF Put
      <3>2. e = [File(M644) EXCEPT !.mine = FALSE]
        BY <3>1 DEF Edits, File
      <3>3. e.mode = M644
        BY <3>2 DEF File
      <3> QED BY <3>1, <3>3 DEF M644, M600
    <2> QED BY <1>3, <2>1, <2>2 DEF Edit
  <1>4. ASSUME NEW mode \in Modes, Open(f, mode) PROVE UNCHANGED <<fs, own>>
    <2>1. fs'[f] # File(mode \ umask)
      BY DEF File
    <2> QED BY <1>1, <1>4, <2>1, OpenFile
  <1>5. CASE f = "log" /\ New
    BY <1>2, <1>4, <1>5, ModeSets DEF New, OpenLog
  <1>6. CASE f = "state" /\ Save
    BY <1>2, <1>4, <1>6, ModeSets DEF Save
  <1>7. CASE f = "pid" /\ WritePid
    BY <1>2, <1>4, <1>7, ModeSets DEF WritePid, Abort
  <1>8. ASSUME NEW mode \in Modes, FileExists(f), fs[f].mine, Chmod(f, mode), UNCHANGED own
        PROVE  FALSE
    <2>1. fs'[f] = [fs[f] EXCEPT !.mode = mode] /\ fs[f] \in FileTypes
      BY <1>1, <1>8, ChmodFile DEF FilesOK, FileExists
    <2>2. fs'[f].mine = fs[f].mine
      BY <2>1 DEF FileTypes
    <2> QED BY <1>8, <2>2
  <1>9. CASE f = "pid" /\ WritePidMode
    BY <1>2, <1>8, <1>9, ModeSets DEF WritePidMode
  <1>10. ~Remove(f)
    BY DEF Remove
  <1>11. CASE f = "socket" /\ (Unlink \/ Terminate)
    BY <1>2, <1>10, <1>11 DEF Unlink, Terminate
  <1>12. CASE f = "socket" /\ ChmodSocket
    BY <1>8, <1>10, <1>12, ModeSets DEF ChmodSocket
  <1>13. CASE f = "socket" /\ Listen
    <2>1. ~Put("socket", [File(M777 \ umask) EXCEPT !.type = "socket"])
      <3> SUFFICES ASSUME Put("socket", [File(M777 \ umask) EXCEPT !.type = "socket"])
                   PROVE  FALSE
        OBVIOUS
      <3>1. fs'["socket"] = [File(M777 \ umask) EXCEPT !.type = "socket"]
        BY DEF Put
      <3> QED BY <1>13, <3>1 DEF File
    <2> QED BY <1>2, <1>13, <2>1 DEF Listen
  <1> QED BY <1>1, <1>2, <1>3, <1>5, <1>6, <1>7, <1>9, <1>11, <1>12, <1>13, Touches

(* A file that the user can open for writing is his own. *)
LEMMA WritableIsMine ==
  ASSUME Others, NEW f, FileExists(f), Access(f, "w"), fs[f].mine \in BOOLEAN
  PROVE  fs[f].mine
  BY DEF Others, FileExists, Access

LEMMA NextPidMine == TypeOK /\ Others /\ PidMine /\ [Next]_vars => PidMine'
  <1> SUFFICES ASSUME TypeOK, Others, PidMine, [Next]_vars, steady', pc' = "pidmode"
               PROVE  FileExists("pid")' /\ fs'["pid"].mine
    BY DEF PidMine
  <1>1. FilesOK /\ "pid" \in Names /\ umask \in Modes
    BY TypeFiles DEF Names, TypeOK
  <1>2. CASE WritePid
    <2>1. CanOpen("pid") /\ Open("pid", M644)
      BY <1>2 DEF WritePid, End, Goto, Abort
    <2>2. \/ FileExists("pid") /\ UNCHANGED <<fs, own>>
          \/ fs'["pid"] = File(M644 \ umask) /\ FileExists("pid")'
      BY <1>1, <2>1, OpenFile, ModeSets
    <2>3. FileExists("pid") => fs["pid"].mine
      BY <1>1, <2>1, WritableIsMine DEF CanOpen, FilesOK, FileTypes, FileExists
    <2> QED BY <2>2, <2>3 DEF File, FileExists
  <1>3. CASE UNCHANGED vars
    BY <1>3 DEF vars, PidMine, FileExists
  <1>4. ~UNCHANGED vars => WritePid
    BY DEF Next, Start, Run, getConfig, RunMonitor, New, WritePidMode, Unlink, Mask,
       Listen, Unmask, ChmodSocket, Publish, Save, Terminate, Crash, Edit, Goto, End, Abort
  <1> QED BY <1>2, <1>3, <1>4

(* What a check of a file finds stays so while nobody touches the file. *)
LEMMA SameWritable ==
  ASSUME FilesOK, NEW f \in Names, Untouched(f), dirs'[f] = dirs[f]
  PROVE  /\ IsWritable(f)' <=> IsWritable(f)
         /\ IsFile(f)' <=> IsFile(f)
         /\ IsWritableFile(f)' <=> IsWritableFile(f)
  BY DEF FilesOK, Untouched, FileExists, IsWritable, IsFile, IsWritableFile, Access

LEMMA SameFaults ==
  ASSUME UNCHANGED <<fs, dirs, option>>
  PROVE  /\ \A f \in Names : CheckFault(f)' <=> CheckFault(f)
         /\ PidFault' <=> PidFault
         /\ IsWritableFile("state")' <=> IsWritableFile("state")
         /\ TooPermissive("state", M700)' <=> TooPermissive("state", M700)
  BY DEF CheckFault, PidFault, IsWritableFile, IsReadableFile, IsWritable, IsFile, Access,
         FileExists, TooPermissive

(* Only New and the loop change a directory, and not that of the pid file; *)
(* from the fork on, the state file stays one that can be written.         *)
LEMMA StateWritable ==
  ASSUME UserKept, TypeOK, Umasks, [Next]_vars, \A f \in Names : ~Edit(f),
         IsWritableFile("state")
  PROVE  IsWritableFile("state")' /\ dirs'["pid"] = dirs["pid"]
  <1>1. /\ FilesOK /\ "state" \in Names /\ "pid" \in Names /\ umask \in Modes
        /\ dirs \in [Names -> {"writable", "readonly", "absent"}]
    BY TypeFiles DEF TypeOK, Names
  <1>2. CASE ~Save
    <2>1. Untouched("state")
      BY <1>1, <1>2, Touches
    <2>2. dirs' = dirs \/ dirs' = [dirs EXCEPT !["log"] = "writable"]
      BY <1>2 DEF Next, Start, Run, getConfig, RunMonitor, New, OpenLog, WritePid,
         WritePidMode, Unlink, Mask, Listen, Unmask, ChmodSocket, Publish, Terminate,
         Crash, Edit, Abort, Files, vars
    <2>3. dirs'["state"] = dirs["state"] /\ dirs'["pid"] = dirs["pid"]
      BY <1>1, <2>2
    <2> QED BY <1>1, <2>1, <2>3, SameWritable
  <1>3. CASE Save
    <2>1. dirs'["pid"] = dirs["pid"] /\ umask \in Shells
      BY <1>1, <1>3 DEF Save, Umasks
    <2>2. CASE FileExists("state")
      <3>1. dirs'["state"] = dirs["state"] /\ UNCHANGED <<fs, own>>
        BY <1>1, <1>3, <2>2 DEF Save
      <3> QED BY <1>1, <2>1, <3>1, SameFiles, SameWritable DEF Untouched, FileExists
    <2>3. CASE ~FileExists("state")
      <3>1. dirs["state"] # "readonly"
        BY <2>3 DEF IsWritableFile, IsWritable
      <3>2. dirs'["state"] = "writable" /\ Open("state", M600)
        BY <1>1, <1>3, <2>3, <3>1 DEF Save
      <3>3. fs'["state"] = File(M600 \ umask) /\ FileExists("state")'
        BY <1>1, <2>3, <3>2, OpenFile, ModeSets
      <3>4. M600 \ umask = M600 /\ <<"u", "w">> \in M600
        BY <2>1, UserRights DEF M600
      <3>5. /\ fs'["state"].mine /\ fs'["state"].mode = M600
            /\ fs'["state"].type = "file"
        BY <3>3, <3>4 DEF File
      <3>6. IsWritableFile("state")'
        BY <3>3, <3>4, <3>5 DEF IsWritableFile, IsWritable, IsFile, Access, FileExists
      <3> QED BY <2>1, <3>6
    <2> QED BY <2>2, <2>3
  <1> QED BY <1>2, <1>3

LEMMA NextChecked ==
  ASSUME UserKept, TypeOK, Umasks, Ended, PidMine, Checked, Deserved, steady, background,
         [Next]_vars, ~Run, \A f \in Names : ~Edit(f)
  PROVE  Checked' /\ Deserved'
  <1>1. FilesOK /\ {"control", "log", "pid", "socket", "state"} \subseteq Names
        /\ dirs \in [Names -> {"writable", "readonly", "absent"}]
    BY TypeFiles DEF TypeOK, Names
  <1>2. UNCHANGED option
    BY DEF Next, Start, getConfig, RunMonitor, New, WritePid, WritePidMode, Unlink, Mask,
       Listen, Unmask, ChmodSocket, Publish, Save, Terminate, Crash, Goto, End, Abort,
       Files, run, vars
  <1>3. IsWritableFile("state") => IsWritableFile("state")' /\ dirs'["pid"] = dirs["pid"]
    BY StateWritable
  <1>4. ASSUME pc' = "off" PROVE Checked'
    BY <1>4 DEF Checked, Signals
  <1>5. ASSUME NEW how, NEW f, End(how, f)
        PROVE  /\ pc' = "off" /\ outcome'.how = how /\ outcome'.file = f /\ outcome'.at = pc
    BY <1>5 DEF End
  <1>6. ASSUME pc # "off", outcome' = outcome PROVE Deserved'
    BY <1>6 DEF Ended, Nothing, Deserved
  <1>7. CASE getConfig
    <2>1. ASSUME NEW f \in Names, ConfigFault(f), Abort(f) PROVE Checked' /\ Deserved'
      <3>1. pc # "again"
        <4> SUFFICES ASSUME pc = "again" PROVE FALSE
          OBVIOUS
        <4>1. ~CheckFault("control") /\ ~TooPermissive("state", M700)
          BY <1>1 DEF Checked
        <4>2. f = "control"
          BY <2>1, <4>1 DEF ConfigFault
        <4> QED BY <2>1, <4>1, <4>2 DEF ConfigFault, CheckFault, IsReadableFile, IsFile
      <3> QED BY <1>4, <1>5, <1>7, <2>1, <3>1 DEF Abort, getConfig, Deserved
    <2>2. ASSUME \A f \in Names : ~ConfigFault(f),
                 Goto(IF pc = "config" /\ background THEN "checks" ELSE "new"), Files
          PROVE  Checked' /\ Deserved'
      <3>1. ~TooPermissive("state", M700)
        BY <1>1, <2>2 DEF ConfigFault
      <3>2. UNCHANGED <<fs, dirs, option>>
        BY <1>2, <2>2 DEF Files
      <3>3. Checked'
        <4>1. CASE pc = "config"
          <5>1. pc' = "checks"
            BY <2>2, <4>1 DEF Goto
          <5> QED BY <3>1, <3>2, <5>1, SameFaults DEF Checked, Signals
        <4>2. CASE pc = "again"
          <5>1. pc' = "new"
            BY <2>2, <4>2 DEF Goto
          <5>2. IsWritableFile("state") /\ \A f \in Names : ~CheckFault(f)
            BY <4>2 DEF Checked
          <5> QED BY <3>2, <5>1, <5>2, SameFaults DEF Checked
        <4> QED BY <1>7, <4>1, <4>2 DEF getConfig
      <3>4. Deserved'
        BY <1>6, <1>7, <2>2 DEF getConfig, Goto
      <3> QED BY <3>3, <3>4
    <2> QED BY <1>7, <2>1, <2>2 DEF getConfig
  <1>8. CASE RunMonitor
    <2>1. ASSUME NEW f \in Names, Abort(f) PROVE Checked' /\ Deserved'
      BY <1>4, <1>5, <1>8, <2>1 DEF Abort, RunMonitor, Deserved
    <2>2. ASSUME \A f \in Names : ~CheckFault(f), Goto("again"), Files
          PROVE  Checked' /\ Deserved'
      <3>1. UNCHANGED <<fs, dirs, option>> /\ pc' = "again"
        BY <1>2, <2>2 DEF Files, Goto
      <3>2. ~TooPermissive("state", M700)
        BY <1>8 DEF RunMonitor, Checked
      <3>3. IsWritableFile("state")
        BY <1>1, <2>2 DEF CheckFault
      <3>4. Checked'
        BY <2>2, <3>1, <3>2, <3>3, SameFaults DEF Checked
      <3> QED BY <1>6, <1>8, <2>2, <3>4 DEF RunMonitor, Goto
    <2> QED BY <1>8, <2>1, <2>2 DEF RunMonitor
  <1>9. CASE New
    <2>1. pc = "new" /\ IsWritableFile("state") /\ \A f \in Names : ~CheckFault(f)
      BY <1>9 DEF New, Checked
    <2>2. ASSUME NEW f \in Names, NewFault(f), End("refused", f)
          PROVE  Checked' /\ Deserved'
      <3>1. f = "socket" /\ option = "control"
        BY <1>1, <2>1, <2>2 DEF NewFault, CheckFault, TypeOK
      <3> QED BY <1>2, <1>4, <1>5, <2>2, <3>1 DEF Deserved
    <2>3. ASSUME Goto("pid") PROVE Checked' /\ Deserved'
      <3>1. ~PidFault
        BY <1>1, <2>1 DEF CheckFault, PidFault
      <3>2. Untouched("pid")
        <4>1. ~WritePid /\ ~WritePidMode
          BY <2>1 DEF WritePid, WritePidMode
        <4> QED BY <1>1, <4>1, Touches
      <3>3. ~PidFault'
        BY <1>1, <1>3, <2>1, <3>1, <3>2, SameWritable DEF PidFault, Untouched
      <3>4. Checked'
        BY <1>3, <2>1, <2>3, <3>3 DEF Checked, Goto
      <3> QED BY <1>6, <2>1, <2>3, <3>4 DEF Goto
    <2> QED BY <1>9, <2>2, <2>3 DEF New
  <1>10. CASE WritePid
    <2>1. pc = "pid" /\ IsWritableFile("state") /\ ~PidFault
      BY <1>10 DEF WritePid, Checked
    <2>2. CASE ~CanOpen("pid") /\ End("failed", "pid")
      <3>1. dirs["pid"] = "absent"
        BY <1>1, <2>1, <2>2 DEF CanOpen, PidFault, IsWritable, IsFile
      <3> QED BY <1>3, <1>4, <1>5, <2>1, <2>2, <3>1 DEF Deserved
    <2>3. CASE Goto("pidmode")
      <3>1. Checked'
        BY <1>3, <2>1, <2>3 DEF Checked, Goto
      <3> QED BY <1>6, <2>1, <2>3, <3>1 DEF Goto
    <2> QED BY <1>10, <2>1, <2>2, <2>3 DEF WritePid
  <1>11. CASE WritePidMode
    <2>1. pc = "pidmode" /\ IsWritableFile("state") /\ FileExists("pid") /\ fs["pid"].mine
      BY <1>11 DEF WritePidMode, Checked, PidMine
    <2>2. Goto(IF option = "none" THEN "up" ELSE "unlink")
      BY <1>11, <2>1 DEF WritePidMode
    <2>3. pc' \in {"up", "unlink"} /\ outcome' = outcome
      BY <2>2 DEF Goto
    <2>4. Checked'
      BY <1>3, <2>1, <2>3 DEF Checked
    <2> QED BY <1>6, <2>1, <2>3, <2>4
  <1>12. CASE Start \/ Save
    <2>1. pc \in Signals /\ pc' \in Signals /\ outcome' = outcome
      BY <1>12 DEF Start, Unlink, Mask, Listen, Unmask, ChmodSocket, Publish, Save, Goto,
         Signals
    <2>2. pc # "off" /\ pc' \notin {"checks", "again", "new", "pid", "pidmode"}
      BY <2>1 DEF Signals
    <2>3. IsWritableFile("state")'
      BY <1>3, <2>1 DEF Checked
    <2>4. Checked'
      BY <2>2, <2>3 DEF Checked
    <2> QED BY <1>6, <2>1, <2>2, <2>4
  <1>13. CASE Terminate \/ Crash
    <2>1. End("quit", "none") \/ End("killed", "none")
      BY <1>13 DEF Terminate, Crash
    <2> QED BY <1>4, <1>5, <2>1 DEF Deserved
  <1>14. CASE UNCHANGED vars
    <2>1. UNCHANGED <<fs, dirs, option, pc, outcome>>
      BY <1>14 DEF vars, run
    <2> QED BY <2>1, SameFaults DEF Checked, Deserved
  <1> QED BY <1>7, <1>8, <1>9, <1>10, <1>11, <1>12, <1>13, <1>14 DEF Next

LEMMA NextCheckedInv ==
  UserKept /\ TypeOK /\ Umasks /\ Ended /\ CheckedInv /\ [Next]_vars => CheckedInv'
  <1> SUFFICES ASSUME UserKept, TypeOK, Umasks, Ended, CheckedInv, [Next]_vars
               PROVE  steady' /\ background' => Checked' /\ Deserved'
    BY NextOthers, NextPidMine DEF CheckedInv
  <1>1. CASE Run
    <2>1. pc' = "config" /\ outcome' = Nothing
      BY <1>1 DEF Run
    <2> QED BY <2>1 DEF Checked, Deserved, Signals, Nothing
  <1>2. CASE ~Run /\ steady' /\ background'
    <2>1. steady /\ background /\ \A f \in Names : ~Edit(f)
      BY <1>2 DEF Next, Start, getConfig, RunMonitor, New, WritePid, WritePidMode, Unlink,
         Mask, Listen, Unmask, ChmodSocket, Publish, Save, Terminate, Crash, Edit, Goto,
         End, Abort, Files, run, vars
    <2> QED BY <1>2, <2>1, NextChecked DEF CheckedInv
  <1> QED BY <1>1, <1>2

(* What RunMonitor has checked lasts, for every umask that leaves the user  *)
(* his rights and every mixture of runs: the child gets its files, but for  *)
(* a pid file whose directory is missing and a socket that only the control *)
(* file names, and the daemon can save its state.                           *)
THEOREM CheckedRunsStart == ASSUME UserKept PROVE Spec => []CheckedStarts
  <1>1. Init => CheckedInv
    <2> SUFFICES ASSUME Init PROVE CheckedInv
      OBVIOUS
    <2>1. pc = "off" /\ ~steady /\ \A f \in DOMAIN fs : fs[f].mine
      BY DEF Init, File
    <2> QED BY <2>1 DEF CheckedInv, Others, PidMine
  <1>2. OwnInv => Umasks /\ Ended
    BY DEF OwnInv
  <1>3. CheckedInv => CheckedStarts
    BY DEF CheckedInv, CheckedStarts, Checked, Deserved, Signals
  <1> QED BY <1>1, <1>2, <1>3, NextCheckedInv, OwnInvHolds, TypeCorrect, PTL DEF Spec
=============================================================================
