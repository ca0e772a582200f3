------------------------------- MODULE Daemon -------------------------------
(***************************************************************************)
(* The daemon commands of net/daemon.cc, run by any number of processes at *)
(* once on one pid file: start, stop and restart, system call by system    *)
(* call, and the daemons that they leave behind.                           *)
(*                                                                         *)
(* A command stands for itself, for the daemon that it forks (whose pid it *)
(* is) and for the inode that it creates when it opens a pid file that     *)
(* does not exist.  A start has returned to who gave it when its own       *)
(* process exits (ParentExit), which may be before or after anything its   *)
(* daemon does.  Not modelled: processes of other users (EPERM), a command *)
(* that is a child of init, and a pid that is used again.                  *)
(***************************************************************************)
EXTENDS Naturals, FiniteSets

CONSTANTS Cmds,      \* processes that run a command
          None,      \* no pid, no inode, no process
          MaxTries   \* bound: rounds of the loop in DaemonStop (1000 in the code)

ASSUME DaemonAssumption == IsFiniteSet(Cmds) /\ None \notin Cmds /\ MaxTries \in Nat \ {0}

VARIABLES
    cmd,      \* kind: the command; at: its next step; pid: what it read from the pid
              \* file; tries: rounds of the loop; fd: the inode it has open
    path,     \* the inode of the pid file, or None
    content,  \* the pid in each inode, or None
    holder,   \* the process that holds the lock on each inode, or None
    parents,  \* commands that have forked their daemon and not yet exited
    (* History. *)
    overlap,  \* a command was given before another one had returned
    early     \* a command was given before the daemon of another one, which may have
              \* returned, had written its pid

given == <<parents, overlap, early>>
vars == <<cmd, path, content, holder, given>>

\* The steps in which the daemon process exists.
Alive == {"open", "lock", "write", "close", "redirect", "running", "exiting"}
\* The steps of a command before it forks or returns.
Working == {"restart", "start", "stop", "kill", "poll", "unlink"}
\* The steps of a daemon before its pid is in the file, and from there to its exit.
Starting == {"open", "lock", "write"}
Up == {"close", "redirect", "running"}

Exists(p) == p # None /\ cmd[p].at \in Alive

Init ==
    /\ cmd = [c \in Cmds |-> [kind |-> "start", at |-> "new", pid |-> None,
                              tries |-> 0, fd |-> None]]
    /\ path = None /\ content = [i \in Cmds |-> None] /\ holder = [i \in Cmds |-> None]
    /\ parents = {} /\ overlap = FALSE /\ early = FALSE

\* c's next step, and nothing else of it changes.
Goto(c, at) == cmd' = [cmd EXCEPT ![c].at = at]

\* GetPidFromFile: nothing to read in a file that does not exist or is empty.
GetPidFromFile == IF path = None THEN None ELSE content[path]

-----------------------------------------------------------------------------
(* The commands.                                                            *)

\* DaemonProcess
DaemonProcess(c, kind) ==
    /\ cmd[c].at = "new"
    /\ cmd' = [cmd EXCEPT ![c].kind = kind, ![c].at = kind]
    /\ overlap' = (overlap \/ \E d \in Cmds : cmd[d].at \in Working \/ d \in parents)
    /\ early' = (early \/ \E d \in Cmds : cmd[d].at \in Starting)
    /\ UNCHANGED <<path, content, holder, parents>>

\* DaemonRestart: the daemon is stopped if there is one, and started.
DaemonRestart(c) ==
    /\ cmd[c].at = "restart"
    /\ Goto(c, IF Exists(GetPidFromFile) THEN "stop" ELSE "start")
    /\ UNCHANGED <<path, content, holder, given>>

\* DaemonStop reads the pid file, which DaemonRestart has read before.
DaemonStop(c) ==
    /\ cmd[c].at = "stop"
    /\ cmd' = [cmd EXCEPT ![c].pid = GetPidFromFile,
                          ![c].at = IF GetPidFromFile = None THEN "failed" ELSE "kill"]
    /\ UNCHANGED <<path, content, holder, given>>

\* The first kill(pid, SIGQUIT).  What the signal does is in Exit and Die.
Kill(c) ==
    /\ cmd[c].at = "kill"
    /\ Goto(c, IF Exists(cmd[c].pid) THEN "poll" ELSE "failed")
    /\ UNCHANGED <<path, content, holder, given>>

\* Mutant: a process that does not end counts as one that ended.
GiveUpDone == "unlink"

\* After the last round.
GiveUp == "failed"

\* A round of the loop: kill(pid, SIGQUIT) again.
Poll(c) ==
    /\ cmd[c].at = "poll"
    /\ cmd' = [cmd EXCEPT ![c].tries = @ + 1,
                          ![c].at = IF ~Exists(cmd[c].pid) THEN "unlink"
                                    ELSE IF cmd[c].tries + 1 = MaxTries THEN GiveUp
                                    ELSE "poll"]
    /\ UNCHANGED <<path, content, holder, given>>

\* The pid file goes; a restart goes on with DaemonStart.
Unlink(c) ==
    /\ cmd[c].at = "unlink"
    /\ path' = None
    /\ Goto(c, IF cmd[c].kind = "restart" THEN "start" ELSE "stopped")
    /\ UNCHANGED <<content, holder, given>>

\* Mutant: the process is not looked for.
IgnoreDaemon(p) == FALSE

\* kill(pid, 0) == 0
DaemonExists(p) == Exists(p)

\* DaemonStart up to the second fork; the daemon goes on, and its parents exit.
DaemonStart(c) ==
    /\ cmd[c].at = "start"
    /\ IF DaemonExists(GetPidFromFile)
       THEN Goto(c, "failed") /\ UNCHANGED parents
       ELSE Goto(c, "open") /\ parents' = parents \cup {c}
    /\ UNCHANGED <<path, content, holder, overlap, early>>

\* exit(0) of the process that was given the command, which has returned with that.
ParentExit(c) ==
    /\ c \in parents
    /\ parents' = parents \ {c}
    /\ UNCHANGED <<cmd, path, content, holder, overlap, early>>

\* WritePidFile: open with O_CREAT and O_TRUNC, before the lock.
Open(c) ==
    /\ cmd[c].at = "open"
    /\ LET i == IF path = None THEN c ELSE path
       IN  /\ path' = i /\ content' = [content EXCEPT ![i] = None]
           /\ cmd' = [cmd EXCEPT ![c].fd = i, ![c].at = "lock"]
    /\ UNCHANGED <<holder, given>>

\* WritePidFile: lockf(F_TLOCK)
Lock(c) ==
    /\ cmd[c].at = "lock"
    /\ LET i == cmd[c].fd
       IN  IF holder[i] = None
           THEN holder' = [holder EXCEPT ![i] = c] /\ Goto(c, "write")
           ELSE Goto(c, "failed") /\ UNCHANGED holder
    /\ UNCHANGED <<path, content, given>>

\* Mutant: the pid is not written.
WrittenNothing(c) == None

\* sprintf of getpid()
Written(c) == c

\* WritePidFile: the pid is written.
Write(c) ==
    /\ cmd[c].at = "write"
    /\ content' = [content EXCEPT ![cmd[c].fd] = Written(c)]
    /\ Goto(c, "close")
    /\ UNCHANGED <<path, holder, given>>

\* The locks of c are gone when it closes the file or ends.
Release(c) == holder' = [i \in Cmds |-> IF holder[i] = c THEN None ELSE holder[i]]

\* WritePidFile: close(fd), with which the lock goes.
Close(c) ==
    /\ cmd[c].at = "close"
    /\ Release(c) /\ Goto(c, "redirect")
    /\ UNCHANGED <<path, content, given>>

\* DaemonStart: open of /dev/null, which may fail; then it returns, in the daemon.
Redirect(c) ==
    /\ cmd[c].at = "redirect"
    /\ Goto(c, "running") \/ Goto(c, "failed")
    /\ UNCHANGED <<path, content, holder, given>>

-----------------------------------------------------------------------------
(* The daemons.                                                             *)

\* The daemon exits, on SIGQUIT or by itself, and unlinks the pid file.
Exit(c) ==
    /\ cmd[c].at = "running"
    /\ path' = None /\ Goto(c, "exiting")
    /\ UNCHANGED <<content, holder, given>>

\* The daemon process ends; before Exit: killed by a signal, SIGQUIT or another.
Die(c) ==
    /\ cmd[c].at \in Alive
    /\ Release(c) /\ Goto(c, "gone")
    /\ UNCHANGED <<path, content, given>>

Next ==
    \E c \in Cmds :
        \/ \E kind \in {"start", "stop", "restart"} : DaemonProcess(c, kind)
        \/ DaemonRestart(c) \/ DaemonStop(c) \/ Kill(c) \/ Poll(c) \/ Unlink(c)
        \/ DaemonStart(c) \/ ParentExit(c)
        \/ Open(c) \/ Lock(c) \/ Write(c) \/ Close(c) \/ Redirect(c)
        \/ Exit(c) \/ Die(c)

Spec == Init /\ [][Next]_vars

-----------------------------------------------------------------------------
\* The daemons whose pid was written, and that have not begun to exit.
Daemons == {c \in Cmds : cmd[c].at \in Up}

\* Each command was given after the ones before had returned and the daemons they had
\* started had written their pid.  That the commands had returned does not imply the
\* rest, and nothing tells the caller of it: DaemonStart exits in the parent before
\* WritePidFile is called in the daemon.
Paced == ~overlap /\ ~early

\* Commands given at that pace, with daemons that exit or are killed at any time, never
\* leave two daemons, those that are still starting included.  (Two starts given at
\* once, or one right after the other has returned, may leave two: the pid file is
\* looked at before the forks, and the lock is gone when it is written.)
SoleDaemon == Paced => Cardinality({c \in Cmds : cmd[c].at \in Starting \cup Up}) <= 1

\* Under the same condition the pid file names the daemon, from the write of its pid to
\* its exit, so that stop finds it, whatever became of the commands before.
FileNamesDaemon == Paced => \A d \in Daemons : GetPidFromFile = d

\* However commands overlap, a stop that returns 0 and a restart that goes on to start
\* have seen the end of the process whose pid they read.
StoppedIsGone ==
    \A c \in Cmds :
        cmd[c].pid # None /\ cmd[c].at \in Alive \cup {"stopped", "start"} =>
            ~Exists(cmd[c].pid)
=============================================================================
