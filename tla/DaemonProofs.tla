---------------------------- MODULE DaemonProofs ----------------------------
(***************************************************************************)
(* The properties of the daemon commands, proved for any finite set of     *)
(* processes and any number of rounds in DaemonStop.                       *)
(***************************************************************************)
EXTENDS Daemon, FiniteSetTheorems, TLAPS

\* The steps that Paced keeps apart: of a command at work, and of a daemon not yet up.
Busy == Working \cup Starting

Steps == {"new", "failed", "stopped", "gone", "exiting"} \cup Busy \cup Up

CmdState == [kind : {"start", "stop", "restart"}, at : Steps, pid : Cmds \cup {None},
             tries : Nat, fd : Cmds \cup {None}]

Types ==
    /\ cmd \in [Cmds -> CmdState]
    /\ path \in Cmds \cup {None}
    /\ content \in [Cmds -> Cmds \cup {None}]
    /\ holder \in [Cmds -> Cmds \cup {None}]
    /\ parents \subseteq Cmds /\ overlap \in BOOLEAN /\ early \in BOOLEAN

\* The process has been a daemon, and cannot be started again.
Ended(p) == cmd[p].at \in {"failed", "gone"}
Known(p) == Exists(p) \/ Ended(p)

\* A pid comes from a process that has been started: a pid file has it from there, and
\* a command has it from a pid file.
PidsKnown ==
    /\ \A i \in Cmds : content[i] # None => Known(content[i])
    /\ \A c \in Cmds : cmd[c].pid # None => Known(cmd[c].pid)

\* A command reads a pid in DaemonStop and nowhere else.
PidWhenRead ==
    \A c \in Cmds :
        /\ cmd[c].at \in {"new", "restart", "stop"} => cmd[c].pid = None
        /\ cmd[c].at \in {"kill", "poll", "unlink"} => cmd[c].pid # None

\* Past its loop, DaemonStop has seen the end of the process.
SeenEnd ==
    \A c \in Cmds :
        cmd[c].pid # None /\ cmd[c].at \in Alive \cup {"unlink", "stopped", "start"} =>
            Ended(cmd[c].pid)

\* A daemon that is past its open() has the inode.
HasFile == \A c \in Cmds : cmd[c].at \in {"lock", "write"} => cmd[c].fd \in Cmds

OneBusy == \A c, d \in Cmds : cmd[c].at \in Busy /\ cmd[d].at \in Busy => c = d

\* The pid file names each daemon that has written its pid.
NamesEach == \A d \in Daemons : GetPidFromFile = d

\* A command that stops has read the pid of each such daemon.
StopKnowsEach ==
    \A c \in Cmds : cmd[c].at \in {"kill", "poll", "unlink"} =>
        \A d \in Daemons : cmd[c].pid = d

\* While one daemon starts, there is no other, and the pid file is the one it has opened.
StartsAlone ==
    \A c \in Cmds :
        /\ cmd[c].at \in Starting => Daemons = {}
        /\ cmd[c].at \in {"lock", "write"} => path # None /\ path = cmd[c].fd

IInv ==
    /\ Types /\ PidsKnown /\ PidWhenRead /\ SeenEnd /\ HasFile
    /\ Paced => OneBusy /\ NamesEach /\ StopKnowsEach /\ StartsAlone

-----------------------------------------------------------------------------
\* A command's record.
LEMMA Fields ==
    ASSUME Types, NEW c \in Cmds
    PROVE  /\ cmd[c].at \in Steps /\ cmd[c].pid \in Cmds \cup {None}
           /\ cmd[c].fd \in Cmds \cup {None} /\ c # None
BY DaemonAssumption, Zenon DEF Types, CmdState

\* A step of c, which has not ended: who has ended has ended, and who is known is known.
LEMMA EndIsFinal ==
    ASSUME NEW c \in Cmds, ~Ended(c), Exists(c) => Known(c)',
           \A d \in Cmds \ {c} : cmd'[d].at = cmd[d].at
    PROVE  \A p \in Cmds : (Ended(p) => Ended(p)') /\ (Known(p) => Known(p)')
BY Zenon DEF Ended, Known, Exists

\* Without overlaps, a command that is busy is alone.
LEMMA BusyAlone ==
    ASSUME OneBusy, NEW c \in Cmds, cmd[c].at \in Busy, cmd'[c].at \notin Up,
           \A d \in Cmds \ {c} : cmd'[d].at = cmd[d].at
    PROVE  /\ OneBusy' /\ Daemons' = Daemons
           /\ \A d \in Cmds \ {c} : cmd[d].at \notin Busy /\ cmd'[d].at \notin Busy
BY SMTT(30) DEF OneBusy, Daemons, Busy, Working, Starting, Up, Alive

\* A step of c that keeps the pid file's content and the pid that c has read.
LEMMA PidsKept ==
    ASSUME Types, PidsKnown, PidWhenRead, HasFile, NEW c \in Cmds,
           content' = content, cmd'[c].pid = cmd[c].pid,
           \A d \in Cmds \ {c} : cmd'[d] = cmd[d],
           \A p \in Cmds : Known(p) => Known(p)',
           cmd'[c].at \in {"new", "restart", "stop"} => cmd[c].pid = None,
           cmd'[c].at \in {"kill", "poll", "unlink"} => cmd[c].pid # None,
           cmd'[c].at \in {"lock", "write"} => cmd'[c].fd \in Cmds
    PROVE  PidsKnown' /\ PidWhenRead' /\ HasFile'
<1>1. ASSUME NEW d \in Cmds PROVE cmd'[d].pid = cmd[d].pid
    BY Zenon
<1>2. ASSUME NEW p \in Cmds \cup {None}, p # None, Known(p) PROVE Known(p)'
    BY <1>2, Zenon
<1>3. PidsKnown'
  <2>1. ASSUME NEW i \in Cmds, content[i] # None PROVE Known(content[i])'
      BY <1>2, <2>1, Zenon DEF Types, PidsKnown
  <2>2. ASSUME NEW d \in Cmds, cmd[d].pid # None PROVE Known(cmd[d].pid)'
      BY <1>2, <2>2, Fields, Zenon DEF PidsKnown
  <2> QED
      BY <1>1, <2>1, <2>2, Zenon DEF PidsKnown
<1>4. PidWhenRead'
  <2> SUFFICES ASSUME NEW d \in Cmds
               PROVE  /\ cmd'[d].at \in {"new", "restart", "stop"} => cmd'[d].pid = None
                      /\ cmd'[d].at \in {"kill", "poll", "unlink"} => cmd'[d].pid # None
      BY Zenon DEF PidWhenRead
  <2>1. CASE d = c
      BY <2>1, Zenon
  <2>2. CASE d # c
    <3>1. cmd'[d] = cmd[d]
        BY <2>2, Zenon
    <3> QED
        BY <3>1, Zenon DEF PidWhenRead
  <2> QED
      BY <2>1, <2>2, Zenon
<1>5. HasFile'
    BY Zenon DEF HasFile
<1> QED
    BY <1>3, <1>4, <1>5, Zenon

\* No command and no daemon at the beginning.
LEMMA InitIInv == Init => IInv
<1> SUFFICES ASSUME Init PROVE IInv
    OBVIOUS
<1>1. Types
    BY Zenon DEF Init, Types, CmdState, Steps
<1>2. PidsKnown /\ PidWhenRead /\ SeenEnd /\ HasFile
    BY DEF Init, PidsKnown, PidWhenRead, SeenEnd, HasFile, Alive
<1>3. OneBusy /\ StopKnowsEach /\ StartsAlone /\ NamesEach
    BY
       DEF Init, OneBusy, NamesEach, StopKnowsEach, StartsAlone, Daemons, Busy, Working,
           Starting, Up, Alive
<1> QED
    BY <1>1, <1>2, <1>3 DEF IInv

\* DaemonProcess: a command begins.
LEMMA DaemonProcessIInv ==
    ASSUME IInv, NEW c \in Cmds, NEW kind \in {"start", "stop", "restart"},
           DaemonProcess(c, kind)
    PROVE  IInv'
<1> USE DEF IInv, Types, Paced, given
<1>1. Types'
    BY DEF DaemonProcess, CmdState, Steps, Busy, Working, Starting, Up
<1>2. \A d \in Cmds : /\ cmd'[d].pid = cmd[d].pid /\ cmd'[d].fd = cmd[d].fd
                      /\ d # c => cmd'[d].at = cmd[d].at
    BY ZenonT(30) DEF DaemonProcess, CmdState
<1>3. cmd[c].at = "new" /\ cmd'[c].at = kind
    BY Zenon DEF DaemonProcess, CmdState
<1>4. \A p \in Cmds : (Ended(p) => Ended(p)') /\ (Known(p) => Known(p)')
    BY <1>2, <1>3, EndIsFinal, Zenon DEF Ended, Exists, Alive
<1>5. PidsKnown' /\ PidWhenRead' /\ HasFile'
    BY <1>2, <1>3, <1>4, Fields, SMTT(30) DEF DaemonProcess, PidsKnown, PidWhenRead, HasFile
<1>6. SeenEnd'
    BY <1>2, <1>3, <1>4, Fields, ZenonT(30) DEF DaemonProcess, SeenEnd, PidWhenRead, Alive
<1>7. ASSUME Paced' PROVE OneBusy' /\ NamesEach' /\ StopKnowsEach' /\ StartsAlone'
  <2>1. Paced /\ \A d \in Cmds : cmd[d].at \notin Busy
      BY <1>7, Zenon DEF DaemonProcess, Busy
  <2>2. Daemons' = Daemons /\ GetPidFromFile' = GetPidFromFile
      BY <1>2, <1>3, Zenon DEF Daemons, Up, GetPidFromFile, DaemonProcess
  <2>3. OneBusy' /\ NamesEach'
      BY <1>2, <2>1, <2>2, Zenon DEF OneBusy, NamesEach
  <2>4. StopKnowsEach' /\ StartsAlone'
    <3>1. \A d \in Cmds : cmd'[d].at \notin {"kill", "poll", "unlink"} \cup Starting
        BY <1>2, <1>3, <2>1, Zenon DEF Busy, Working, Starting
    <3> QED
        BY <3>1, Zenon DEF StopKnowsEach, StartsAlone, Starting
  <2> QED
      BY <2>3, <2>4
<1> QED
    BY <1>1, <1>5, <1>6, <1>7, ZenonT(30)

\* DaemonRestart goes on to stop or to start.
LEMMA DaemonRestartIInv ==
    ASSUME IInv, NEW c \in Cmds, DaemonRestart(c)
    PROVE  IInv'
<1> USE DEF IInv, Types, Paced, given
<1>1. /\ cmd[c].at = "restart" /\ cmd'[c].at \in {"stop", "start"}
      /\ cmd'[c].fd = cmd[c].fd /\ cmd'[c].pid = cmd[c].pid
      /\ \A d \in Cmds \ {c} : cmd'[d] = cmd[d]
      /\ UNCHANGED <<path, content, holder, given>>
    BY Fields, SMTT(30) DEF DaemonRestart, CmdState, Goto
<1>2. Types'
    BY <1>1, Fields, SMTT(30)
       DEF DaemonRestart, CmdState, Steps, Busy, Working, Starting, Up, GetPidFromFile, Goto
<1>3. \A p \in Cmds : (Ended(p) => Ended(p)') /\ (Known(p) => Known(p)')
    BY <1>1, EndIsFinal, Zenon DEF Ended, Exists, Alive
<1>4. PidsKnown' /\ PidWhenRead' /\ HasFile'
  <2>1. /\ cmd'[c].at \in {"new", "restart", "stop"} => cmd[c].pid = None
        /\ cmd'[c].at \in {"kill", "poll", "unlink"} => cmd[c].pid # None
        /\ cmd'[c].at \in {"lock", "write"} => cmd'[c].fd \in Cmds
      BY <1>1, Zenon DEF PidWhenRead, HasFile, Alive
  <2> QED
      BY <1>1, <1>3, <2>1, PidsKept, Zenon
<1>5. SeenEnd'
    BY <1>1, <1>3, Fields, SMTT(30)
       DEF DaemonRestart, SeenEnd, PidWhenRead, PidsKnown, Known, Alive
<1>6. ASSUME Paced PROVE OneBusy' /\ NamesEach' /\ StopKnowsEach' /\ StartsAlone'
  <2>1. OneBusy' /\ Daemons' = Daemons /\ \A d \in Cmds \ {c} : cmd'[d].at \notin Busy
      BY <1>1, <1>6, BusyAlone, Zenon DEF Busy, Working, Starting, Up
  <2>2. NamesEach'
      BY <1>1, <1>6, <2>1, Zenon DEF NamesEach, GetPidFromFile
  <2>3. StopKnowsEach' /\ StartsAlone'
      BY <1>1, <1>6, <2>1, ZenonT(30)
         DEF DaemonRestart, StopKnowsEach, StartsAlone, NamesEach, Busy, Working, Starting,
             Up, Alive, Goto
  <2> QED
      BY <2>1, <2>2, <2>3, Zenon
<1> QED
    BY <1>1, <1>2, <1>4, <1>5, <1>6, Zenon

\* DaemonStop reads the pid file, which names the daemon that runs.
LEMMA DaemonStopIInv ==
    ASSUME IInv, NEW c \in Cmds, DaemonStop(c)
    PROVE  IInv'
<1> USE DEF IInv, Types, Paced, given
<1>1. /\ cmd[c].at = "stop" /\ cmd'[c].at \in {"failed", "kill"}
      /\ cmd'[c].fd = cmd[c].fd
      /\ \A d \in Cmds \ {c} : cmd'[d] = cmd[d]
      /\ UNCHANGED <<path, content, holder, given>>
    BY Fields, SMTT(30) DEF DaemonStop, CmdState
<1>2. Types'
    BY <1>1, Fields, SMTT(30)
       DEF DaemonStop, CmdState, Steps, Busy, Working, Starting, Up, GetPidFromFile
<1>3. \A p \in Cmds : (Ended(p) => Ended(p)') /\ (Known(p) => Known(p)')
    BY <1>1, EndIsFinal, ZenonT(30) DEF Ended, Exists, Alive
<1>4. PidsKnown' /\ PidWhenRead' /\ HasFile'
    BY <1>1, <1>2, <1>3, Fields, SMTT(30)
       DEF DaemonStop, PidsKnown, PidWhenRead, HasFile, GetPidFromFile
<1>5. SeenEnd'
    BY <1>1, <1>3, Fields, ZenonT(30)
       DEF DaemonStop, SeenEnd, PidWhenRead, PidsKnown, Known, Alive
<1>6. ASSUME Paced PROVE OneBusy' /\ NamesEach' /\ StopKnowsEach' /\ StartsAlone'
  <2>1. OneBusy' /\ Daemons' = Daemons /\ \A d \in Cmds \ {c} : cmd'[d].at \notin Busy
      BY <1>1, <1>6, BusyAlone, Zenon DEF Busy, Working, Starting, Up
  <2>2. NamesEach'
      BY <1>1, <1>6, <2>1, ZenonT(30) DEF NamesEach, GetPidFromFile
  <2>3. StopKnowsEach' /\ StartsAlone'
      BY <1>1, <1>6, <2>1, SMTT(30)
         DEF DaemonStop, StopKnowsEach, StartsAlone, NamesEach, Busy, Working, Starting, Up,
             Alive
  <2> QED
      BY <2>1, <2>2, <2>3
<1> QED
    BY <1>1, <1>2, <1>4, <1>5, <1>6, Zenon

\* The first signal of DaemonStop.
LEMMA KillIInv ==
    ASSUME IInv, NEW c \in Cmds, Kill(c)
    PROVE  IInv'
<1> USE DEF IInv, Types, Paced, given
<1>1. /\ cmd[c].at = "kill" /\ cmd'[c].at \in {"poll", "failed"}
      /\ cmd'[c].fd = cmd[c].fd /\ cmd'[c].pid = cmd[c].pid
      /\ \A d \in Cmds \ {c} : cmd'[d] = cmd[d]
      /\ UNCHANGED <<path, content, holder, given>>
    BY Fields, SMTT(30) DEF Kill, CmdState, Goto
<1>2. Types'
    BY <1>1, Fields
       DEF Kill, CmdState, Steps, Busy, Working, Starting, Up, GetPidFromFile, Goto
<1>3. \A p \in Cmds : (Ended(p) => Ended(p)') /\ (Known(p) => Known(p)')
    BY <1>1, EndIsFinal, Zenon DEF Ended, Exists, Alive
<1>4. PidsKnown' /\ PidWhenRead' /\ HasFile'
  <2>1. /\ cmd'[c].at \in {"new", "restart", "stop"} => cmd[c].pid = None
        /\ cmd'[c].at \in {"kill", "poll", "unlink"} => cmd[c].pid # None
        /\ cmd'[c].at \in {"lock", "write"} => cmd'[c].fd \in Cmds
      BY <1>1, Zenon DEF PidWhenRead, HasFile, Alive
  <2> QED
      BY <1>1, <1>3, <2>1, PidsKept, Zenon
<1>5. SeenEnd'
    BY <1>1, <1>3, Fields, SMTT(30) DEF Kill, SeenEnd, PidWhenRead, PidsKnown, Known, Alive
<1>6. ASSUME Paced PROVE OneBusy' /\ NamesEach' /\ StopKnowsEach' /\ StartsAlone'
  <2>1. OneBusy' /\ Daemons' = Daemons /\ \A d \in Cmds \ {c} : cmd'[d].at \notin Busy
      BY <1>1, <1>6, BusyAlone, Zenon DEF Busy, Working, Starting, Up
  <2>2. NamesEach'
      BY <1>1, <1>6, <2>1, ZenonT(30) DEF NamesEach, GetPidFromFile
  <2>3. StopKnowsEach' /\ StartsAlone'
      BY <1>1, <1>6, <2>1, SMTT(30)
         DEF Kill, StopKnowsEach, StartsAlone, NamesEach, Busy, Working, Starting, Up, Alive,
             Goto
  <2> QED
      BY <2>1, <2>2, <2>3
<1> QED
    BY <1>1, <1>2, <1>4, <1>5, <1>6, Zenon

\* A round of DaemonStop: the loop ends well when the process has ended.
LEMMA PollIInv ==
    ASSUME IInv, NEW c \in Cmds, Poll(c)
    PROVE  IInv'
<1> USE DEF IInv, Types, Paced, given
<1>1. /\ cmd[c].at = "poll" /\ cmd'[c].at \in {"unlink", "failed", "poll"}
      /\ cmd'[c].fd = cmd[c].fd /\ cmd'[c].pid = cmd[c].pid
      /\ \A d \in Cmds \ {c} : cmd'[d] = cmd[d]
      /\ UNCHANGED <<path, content, holder, given>>
    BY Fields DEF Poll, CmdState, GiveUp
<1>2. Types'
  <2>1. cmd'[c] \in CmdState
    <3>1. cmd[c].tries + 1 \in Nat /\ cmd'[c].at \in Steps
        BY <1>1 DEF CmdState, Steps, Busy, Working, Starting, Up
    <3>2. cmd'[c] = [cmd[c] EXCEPT !.tries = @ + 1, !.at = cmd'[c].at]
        BY DEF Poll, CmdState
    <3> QED
        BY <3>1, <3>2, ZenonT(30) DEF CmdState
  <2> QED
      BY <1>1, <2>1, Zenon DEF Poll
<1>3. \A p \in Cmds : (Ended(p) => Ended(p)') /\ (Known(p) => Known(p)')
    BY <1>1, EndIsFinal DEF Ended, Exists, Alive
<1>4. PidsKnown' /\ PidWhenRead' /\ HasFile'
  <2>1. /\ cmd'[c].at \in {"new", "restart", "stop"} => cmd[c].pid = None
        /\ cmd'[c].at \in {"kill", "poll", "unlink"} => cmd[c].pid # None
        /\ cmd'[c].at \in {"lock", "write"} => cmd'[c].fd \in Cmds
      BY <1>1, Zenon DEF PidWhenRead, HasFile, Alive
  <2> QED
      BY <1>1, <1>3, <2>1, PidsKept, Zenon
<1>5. SeenEnd'
  <2>1. ASSUME cmd'[c].at = "unlink" PROVE Ended(cmd[c].pid)
    <3>1. ~Exists(cmd[c].pid)
        BY <2>1 DEF Poll, GiveUp
    <3>2. Known(cmd[c].pid)
        BY <1>1, Zenon DEF PidWhenRead, PidsKnown
    <3> QED
        BY <3>1, <3>2, Zenon DEF Known
  <2>2. ASSUME NEW d \in Cmds, cmd'[d].pid # None,
               cmd'[d].at \in Alive \cup {"unlink", "stopped", "start"}
        PROVE  Ended(cmd[d].pid) /\ cmd'[d].pid = cmd[d].pid
    <3>1. CASE d = c
      <4>1. cmd'[c].at = "unlink"
          BY <1>1, <2>2, <3>1, Zenon DEF Alive
      <4> QED
          BY <1>1, <2>1, <3>1, <4>1, Zenon
    <3>2. CASE d # c
      <4>1. cmd'[d] = cmd[d]
          BY <1>1, <3>2, Zenon
      <4> QED
          BY <2>2, <4>1, Zenon DEF SeenEnd
    <3> QED
        BY <3>1, <3>2, Zenon
  <2>3. ASSUME NEW d \in Cmds, cmd'[d].pid # None,
               cmd'[d].at \in Alive \cup {"unlink", "stopped", "start"}
        PROVE  Ended(cmd[d].pid)'
    <3>1. Ended(cmd[d].pid) /\ cmd'[d].pid = cmd[d].pid
        BY <2>2, <2>3, Zenon
    <3>2. PICK p \in Cmds : p = cmd[d].pid
        BY <2>3, <3>1, Fields, Zenon
    <3>3. Ended(p)'
        BY <1>3, <3>1, <3>2, Zenon
    <3> QED
        BY <3>1, <3>2, <3>3, Zenon DEF Ended
  <2> QED
      BY <2>3, Zenon DEF SeenEnd
<1>6. ASSUME Paced PROVE OneBusy' /\ NamesEach' /\ StopKnowsEach' /\ StartsAlone'
  <2>1. OneBusy' /\ Daemons' = Daemons /\ \A d \in Cmds \ {c} : cmd'[d].at \notin Busy
      BY <1>1, <1>6, BusyAlone, Zenon DEF Busy, Working, Starting, Up
  <2>2. NamesEach'
      BY <1>1, <1>6, <2>1, ZenonT(30) DEF NamesEach, GetPidFromFile
  <2>3. StopKnowsEach' /\ StartsAlone'
    <3>1. ASSUME NEW d \in Cmds, cmd'[d].at \in {"kill", "poll", "unlink"}
          PROVE  \A r \in Daemons : cmd'[d].pid = r
      <4>1. d = c
          BY <2>1, <3>1, Zenon DEF Busy, Working, Starting, Up
      <4> QED
          BY <1>1, <1>6, <4>1, Zenon DEF StopKnowsEach
    <3>2. ASSUME NEW d \in Cmds
          PROVE  cmd'[d].at \notin Starting
        BY <1>1, <2>1, Zenon DEF Busy, Working, Starting, Up, Alive
    <3>3. StopKnowsEach'
        BY <2>1, <3>1, Zenon DEF StopKnowsEach
    <3>4. StartsAlone'
        BY <3>2, Zenon DEF StartsAlone, Starting
    <3> QED
        BY <3>3, <3>4, Zenon
  <2> QED
      BY <2>1, <2>2, <2>3
<1> QED
    BY <1>1, <1>2, <1>4, <1>5, <1>6, ZenonT(30)

\* The end of DaemonStop: no daemon runs whose file it could remove.
LEMMA UnlinkIInv ==
    ASSUME IInv, NEW c \in Cmds, Unlink(c)
    PROVE  IInv'
<1> USE DEF IInv, Types, Paced, given
<1>1. /\ cmd[c].at = "unlink" /\ cmd'[c].at \in {"start", "stopped"}
      /\ cmd'[c].fd = cmd[c].fd /\ cmd'[c].pid = cmd[c].pid
      /\ \A d \in Cmds \ {c} : cmd'[d] = cmd[d]
      /\ UNCHANGED <<content, holder, given>>
    BY Fields, SMTT(30) DEF Unlink, CmdState, Goto
<1>2. Types'
    BY <1>1, Fields, SMTT(30) DEF Unlink, CmdState, Steps, Busy, Working, Starting, Up, Goto
<1>3. \A p \in Cmds : (Ended(p) => Ended(p)') /\ (Known(p) => Known(p)')
    BY <1>1, EndIsFinal, Zenon DEF Ended, Exists, Alive
<1>4. PidsKnown' /\ PidWhenRead' /\ HasFile'
    BY <1>1, <1>2, <1>3, Fields, SMTT(30) DEF PidsKnown, PidWhenRead, HasFile
<1>5. SeenEnd'
    BY <1>1, <1>3, Fields, ZenonT(30) DEF SeenEnd
<1>6. ASSUME Paced PROVE OneBusy' /\ NamesEach' /\ StopKnowsEach' /\ StartsAlone'
  <2>1. OneBusy' /\ Daemons' = Daemons /\ \A d \in Cmds \ {c} : cmd'[d].at \notin Busy
      BY <1>1, <1>6, BusyAlone, Zenon DEF Busy, Working, Starting, Up
  <2>2. Daemons = {}
      BY <1>1, <1>6, Fields, Zenon
         DEF StopKnowsEach, SeenEnd, PidWhenRead, Ended, Daemons, Up
  <2>3. NamesEach' /\ StopKnowsEach' /\ StartsAlone'
      BY <1>1, <1>6, <2>1, <2>2, Zenon
         DEF NamesEach, StopKnowsEach, StartsAlone, Busy, Working, Starting, Up, Alive
  <2> QED
      BY <2>1, <2>3, Zenon
<1> QED
    BY <1>1, <1>2, <1>4, <1>5, <1>6, Zenon

\* DaemonStart goes on when the pid file names no daemon that exists: none runs.
LEMMA DaemonStartIInv ==
    ASSUME IInv, NEW c \in Cmds, DaemonStart(c)
    PROVE  IInv'
<1> USE DEF IInv, Types, Paced, given
<1>1. /\ cmd[c].at = "start" /\ cmd'[c].at \in {"failed", "open"}
      /\ cmd'[c].at = "open" => ~Exists(GetPidFromFile)
      /\ cmd'[c].fd = cmd[c].fd /\ cmd'[c].pid = cmd[c].pid
      /\ \A d \in Cmds \ {c} : cmd'[d] = cmd[d]
      /\ UNCHANGED <<path, content, holder, overlap, early>>
      /\ parents' \in {parents, parents \cup {c}}
    BY Fields, SMTT(30) DEF DaemonStart, CmdState, Goto, DaemonExists
<1>2. Types'
    BY <1>1, Fields, SMTT(30)
       DEF DaemonStart, CmdState, Steps, Busy, Working, Starting, Up, Alive, Goto
<1>3. \A p \in Cmds : (Ended(p) => Ended(p)') /\ (Known(p) => Known(p)')
    BY <1>1, EndIsFinal, ZenonT(30) DEF Ended, Exists, Alive
<1>4. PidsKnown' /\ PidWhenRead' /\ HasFile'
    BY <1>1, <1>2, <1>3, Fields, SMTT(30) DEF PidsKnown, PidWhenRead, HasFile
<1>5. SeenEnd'
    BY <1>1, <1>3, Fields, ZenonT(30) DEF SeenEnd, Alive
<1>6. ASSUME Paced PROVE OneBusy' /\ NamesEach' /\ StopKnowsEach' /\ StartsAlone'
  <2>1. OneBusy' /\ Daemons' = Daemons /\ \A d \in Cmds \ {c} : cmd'[d].at \notin Busy
      BY <1>1, <1>6, BusyAlone, Zenon DEF Busy, Working, Starting, Up
  <2>2. cmd'[c].at = "open" => Daemons = {}
      BY <1>1, <1>6, Fields, ZenonT(30) DEF NamesEach, Daemons, Up, Exists, Alive
  <2>3. NamesEach' /\ StopKnowsEach' /\ StartsAlone'
      BY <1>1, <1>6, <2>1, <2>2, Zenon
         DEF NamesEach, StopKnowsEach, StartsAlone, Busy, Working, Starting, Up, Alive,
             GetPidFromFile
  <2> QED
      BY <2>1, <2>3
<1> QED
    BY <1>1, <1>2, <1>4, <1>5, <1>6, Zenon

\* The parent exits, and nothing else happens.
LEMMA ParentExitIInv ==
    ASSUME IInv, NEW c \in Cmds, ParentExit(c)
    PROVE  IInv'
BY ZenonT(30)
   DEF ParentExit, IInv, Types, PidsKnown, PidWhenRead, SeenEnd, HasFile, OneBusy, NamesEach,
       StopKnowsEach, StartsAlone, Daemons, GetPidFromFile, Known, Exists, Ended, Paced

\* WritePidFile opens the file; what was in it is gone, and named no daemon that runs.
LEMMA OpenIInv ==
    ASSUME IInv, NEW c \in Cmds, Open(c)
    PROVE  IInv'
<1> USE DEF IInv, Types, Paced, given
<1> DEFINE i == IF path = None THEN c ELSE path
<1>1. /\ cmd[c].at = "open" /\ cmd'[c].at = "lock" /\ cmd'[c].pid = cmd[c].pid
      /\ i \in Cmds /\ cmd'[c].fd = i /\ path' = i
      /\ content' = [content EXCEPT ![i] = None]
      /\ \A d \in Cmds \ {c} : cmd'[d] = cmd[d]
      /\ UNCHANGED <<holder, given>>
    BY Fields, SMTT(30) DEF Open, CmdState
<1> HIDE DEF i
<1>2. Types'
    BY <1>1, Fields, SMTT(30) DEF Open, CmdState, Steps, Busy, Working, Starting, Up, Alive
<1>3. \A p \in Cmds : (Ended(p) => Ended(p)') /\ (Known(p) => Known(p)')
    BY <1>1, Fields, EndIsFinal, ZenonT(30) DEF Ended, Known, Exists, Alive
<1>4. PidsKnown' /\ PidWhenRead' /\ HasFile'
    BY <1>1, <1>2, <1>3, Fields, SMTT(30) DEF PidsKnown, PidWhenRead, HasFile
<1>5. SeenEnd'
    BY <1>1, <1>3, Fields, ZenonT(30) DEF SeenEnd, Alive
<1>6. ASSUME Paced PROVE OneBusy' /\ NamesEach' /\ StopKnowsEach' /\ StartsAlone'
  <2>1. OneBusy' /\ Daemons' = Daemons /\ \A d \in Cmds \ {c} : cmd'[d].at \notin Busy
      BY <1>1, <1>6, BusyAlone, Zenon DEF Busy, Working, Starting, Up, Alive
  <2>2. Daemons = {}
      BY <1>1, <1>6, Zenon DEF StartsAlone, Starting
  <2>3. NamesEach' /\ StopKnowsEach' /\ StartsAlone'
      BY <1>1, <1>6, <2>1, <2>2, Fields, Zenon
         DEF NamesEach, StopKnowsEach, StartsAlone, Busy, Working, Starting, Up, Alive
  <2> QED
      BY <2>1, <2>3
<1> QED
    BY <1>1, <1>2, <1>4, <1>5, <1>6, Zenon

\* WritePidFile locks the file.
LEMMA LockIInv ==
    ASSUME IInv, NEW c \in Cmds, Lock(c)
    PROVE  IInv'
<1> USE DEF IInv, Types, Paced, given
<1>1. /\ cmd[c].at = "lock" /\ cmd'[c].at \in {"write", "failed"}
      /\ cmd'[c].fd = cmd[c].fd /\ cmd'[c].pid = cmd[c].pid
      /\ \A d \in Cmds \ {c} : cmd'[d] = cmd[d]
      /\ UNCHANGED <<path, content, given>>
    BY Fields, SMTT(30) DEF Lock, CmdState, Goto
<1>2. Types'
    BY <1>1, Fields, SMTT(30)
       DEF Lock, CmdState, Steps, Busy, Working, Starting, Up, Alive, Goto, HasFile
<1>3. \A p \in Cmds : (Ended(p) => Ended(p)') /\ (Known(p) => Known(p)')
    BY <1>1, Fields, EndIsFinal, Zenon DEF Ended, Known, Exists, Alive
<1>4. PidsKnown' /\ PidWhenRead' /\ HasFile'
  <2>1. /\ cmd'[c].at \in {"new", "restart", "stop"} => cmd[c].pid = None
        /\ cmd'[c].at \in {"kill", "poll", "unlink"} => cmd[c].pid # None
        /\ cmd'[c].at \in {"lock", "write"} => cmd'[c].fd \in Cmds
      BY <1>1, Zenon DEF PidWhenRead, HasFile, Alive
  <2> QED
      BY <1>1, <1>3, <2>1, PidsKept, Zenon
<1>5. SeenEnd'
    BY <1>1, <1>3, Fields, SMTT(30) DEF SeenEnd, Alive
<1>6. ASSUME Paced PROVE OneBusy' /\ NamesEach' /\ StopKnowsEach' /\ StartsAlone'
  <2>1. OneBusy' /\ Daemons' = Daemons /\ \A d \in Cmds \ {c} : cmd'[d].at \notin Busy
      BY <1>1, <1>6, BusyAlone DEF Busy, Working, Starting, Up, Alive
  <2>2. NamesEach' /\ StopKnowsEach' /\ StartsAlone'
      BY <1>1, <1>6, <2>1, Zenon
         DEF NamesEach, StopKnowsEach, StartsAlone, Busy, Working, Starting, Up, Alive,
             GetPidFromFile
  <2> QED
      BY <2>1, <2>2
<1> QED
    BY <1>1, <1>2, <1>4, <1>5, <1>6, Zenon

\* WritePidFile writes the pid of c, which exists.
LEMMA WriteIInv ==
    ASSUME IInv, NEW c \in Cmds, Write(c)
    PROVE  IInv'
<1> USE DEF IInv, Types, Paced, given
<1>1. /\ cmd[c].at = "write" /\ cmd'[c].at = "close"
      /\ cmd'[c].fd = cmd[c].fd /\ cmd'[c].pid = cmd[c].pid
      /\ cmd[c].fd \in Cmds /\ content' = [content EXCEPT ![cmd[c].fd] = c]
      /\ \A d \in Cmds \ {c} : cmd'[d] = cmd[d]
      /\ UNCHANGED <<path, holder, given>>
    BY Fields, SMTT(30) DEF Write, Written, CmdState, Goto, HasFile
<1>2. Types'
    BY <1>1, Fields, SMTT(30)
       DEF Write, CmdState, Steps, Busy, Working, Starting, Up, Alive, Goto
<1>3. \A p \in Cmds : (Ended(p) => Ended(p)') /\ (Known(p) => Known(p)')
    BY <1>1, Fields, EndIsFinal, Zenon DEF Ended, Known, Exists, Alive
<1>4. Known(c)'
    BY <1>1, Fields, ZenonT(30) DEF Known, Exists, Alive
<1>5. PidsKnown' /\ PidWhenRead' /\ HasFile'
    BY <1>1, <1>2, <1>3, <1>4, Fields, SMTT(30) DEF PidsKnown, PidWhenRead, HasFile
<1>6. SeenEnd'
    BY <1>1, <1>3, Fields, ZenonT(30) DEF SeenEnd, Alive
<1>7. ASSUME Paced PROVE OneBusy' /\ NamesEach' /\ StopKnowsEach' /\ StartsAlone'
  <2>1. \A d \in Cmds : cmd'[d].at \notin Busy
      BY <1>1, <1>7, ZenonT(30) DEF OneBusy, Busy, Working, Starting
  <2>2. Daemons = {} /\ path # None /\ path = cmd[c].fd
      BY <1>1, <1>7, Zenon DEF StartsAlone, Starting
  <2>3. Daemons' \subseteq {c} /\ content'[path] = c
      BY <1>1, <2>2, SMTT(30) DEF Daemons, Up
  <2>4. OneBusy' /\ StopKnowsEach' /\ StartsAlone'
      BY <2>1, Zenon DEF OneBusy, StopKnowsEach, StartsAlone, Busy, Working, Starting
  <2>5. NamesEach'
      BY <1>1, <2>2, <2>3, Zenon DEF NamesEach, GetPidFromFile
  <2> QED
      BY <2>4, <2>5, Zenon
<1> QED
    BY <1>1, <1>2, <1>5, <1>6, <1>7, Zenon

\* WritePidFile closes the file.
LEMMA CloseIInv ==
    ASSUME IInv, NEW c \in Cmds, Close(c)
    PROVE  IInv'
<1> USE DEF IInv, Types, Paced, given
<1>1. /\ cmd[c].at = "close" /\ cmd'[c].at = "redirect"
      /\ cmd'[c].fd = cmd[c].fd /\ cmd'[c].pid = cmd[c].pid
      /\ \A d \in Cmds \ {c} : cmd'[d] = cmd[d]
      /\ UNCHANGED <<path, content, given>>
    BY Fields, SMTT(30) DEF Close, CmdState, Goto
<1>2. Types'
    BY <1>1, Fields, SMTT(30)
       DEF Close, CmdState, Steps, Busy, Working, Starting, Up, Alive, Goto, Release
<1>3. \A p \in Cmds : (Ended(p) => Ended(p)') /\ (Known(p) => Known(p)')
    BY <1>1, Fields, EndIsFinal, ZenonT(30) DEF Ended, Known, Exists, Alive
<1>4. PidsKnown' /\ PidWhenRead' /\ HasFile'
  <2>1. /\ cmd'[c].at \in {"new", "restart", "stop"} => cmd[c].pid = None
        /\ cmd'[c].at \in {"kill", "poll", "unlink"} => cmd[c].pid # None
        /\ cmd'[c].at \in {"lock", "write"} => cmd'[c].fd \in Cmds
      BY <1>1, Zenon
  <2> QED
      BY <1>1, <1>3, <2>1, PidsKept, Zenon
<1>5. SeenEnd'
    BY <1>1, <1>3, Fields, ZenonT(30) DEF SeenEnd, Alive
<1>6. ASSUME Paced PROVE OneBusy' /\ NamesEach' /\ StopKnowsEach' /\ StartsAlone'
  <2>1. Daemons' = Daemons
      BY <1>1, ZenonT(30) DEF Daemons, Up
  <2>2. OneBusy'
      BY <1>1, <1>6, SMTT(30) DEF OneBusy, Busy, Working, Starting
  <2>3. NamesEach' /\ StopKnowsEach' /\ StartsAlone'
      BY <1>1, <1>6, <2>1, SMTT(30)
         DEF NamesEach, StopKnowsEach, StartsAlone, Starting, GetPidFromFile
  <2> QED
      BY <2>2, <2>3, Zenon
<1> QED
    BY <1>1, <1>2, <1>4, <1>5, <1>6, Zenon

\* DaemonStart returns in the daemon, or fails and the daemon ends; the pid file stays.
LEMMA RedirectIInv ==
    ASSUME IInv, NEW c \in Cmds, Redirect(c)
    PROVE  IInv'
<1> USE DEF IInv, Types, Paced, given
<1>1. /\ cmd[c].at = "redirect" /\ cmd'[c].at \in {"running", "failed"}
      /\ cmd'[c].fd = cmd[c].fd /\ cmd'[c].pid = cmd[c].pid
      /\ \A d \in Cmds \ {c} : cmd'[d] = cmd[d]
      /\ UNCHANGED <<path, content, holder, given>>
    BY Fields, SMTT(30) DEF Redirect, CmdState, Goto
<1>2. Types'
    BY <1>1, Fields, SMTT(30)
       DEF Redirect, CmdState, Steps, Busy, Working, Starting, Up, Alive, Goto
<1>3. \A p \in Cmds : (Ended(p) => Ended(p)') /\ (Known(p) => Known(p)')
    BY <1>1, Fields, EndIsFinal, ZenonT(30) DEF Ended, Known, Exists, Alive
<1>4. PidsKnown' /\ PidWhenRead' /\ HasFile'
    BY <1>1, <1>2, <1>3, Fields, SMTT(30) DEF PidsKnown, PidWhenRead, HasFile
<1>5. SeenEnd'
    BY <1>1, <1>3, Fields, ZenonT(30) DEF SeenEnd, Alive
<1>6. ASSUME Paced PROVE OneBusy' /\ NamesEach' /\ StopKnowsEach' /\ StartsAlone'
  <2>1. Daemons' \subseteq Daemons
      BY <1>1, ZenonT(30) DEF Daemons, Up
  <2>2. OneBusy'
      BY <1>1, <1>6, SMTT(30) DEF OneBusy, Busy, Working, Starting
  <2>3. NamesEach' /\ StopKnowsEach' /\ StartsAlone'
      BY <1>1, <1>6, <2>1, SMTT(30)
         DEF NamesEach, StopKnowsEach, StartsAlone, Starting, GetPidFromFile
  <2> QED
      BY <2>2, <2>3, Zenon
<1> QED
    BY <1>1, <1>2, <1>4, <1>5, <1>6, Zenon

\* A daemon exits: no other has its pid in the file that goes.
LEMMA ExitIInv ==
    ASSUME IInv, NEW c \in Cmds, Exit(c)
    PROVE  IInv'
<1> USE DEF IInv, Types, Paced, given
<1>1. /\ cmd[c].at = "running" /\ cmd'[c].at = "exiting" /\ path' = None
      /\ cmd'[c].fd = cmd[c].fd /\ cmd'[c].pid = cmd[c].pid
      /\ \A d \in Cmds \ {c} : cmd'[d] = cmd[d]
      /\ UNCHANGED <<content, holder, given>>
    BY Fields, SMTT(30) DEF Exit, CmdState, Goto
<1>2. Types'
    BY <1>1, Fields, SMTT(30) DEF Exit, CmdState, Steps, Busy, Working, Starting, Up, Goto
<1>3. \A p \in Cmds : (Ended(p) => Ended(p)') /\ (Known(p) => Known(p)')
    BY <1>1, Fields, EndIsFinal, ZenonT(30) DEF Ended, Known, Exists, Alive
<1>4. PidsKnown' /\ PidWhenRead' /\ HasFile'
    BY <1>1, <1>2, <1>3, Fields, SMTT(30) DEF PidsKnown, PidWhenRead, HasFile
<1>5. SeenEnd'
    BY <1>1, <1>3, Fields, ZenonT(30) DEF SeenEnd, Alive
<1>6. ASSUME Paced PROVE OneBusy' /\ NamesEach' /\ StopKnowsEach' /\ StartsAlone'
  <2>1. Daemons = {c} /\ Daemons' = {}
      BY <1>1, <1>6, ZenonT(30) DEF NamesEach, Daemons, Up
  <2>2. OneBusy'
      BY <1>1, <1>6, SMTT(30) DEF OneBusy, Busy, Working, Starting, Up, Alive
  <2>3. NamesEach' /\ StopKnowsEach' /\ StartsAlone'
      BY <1>1, <1>6, <2>1, SMTT(30) DEF NamesEach, StopKnowsEach, StartsAlone, Starting
  <2> QED
      BY <2>2, <2>3, Zenon
<1> QED
    BY <1>1, <1>2, <1>4, <1>5, <1>6, Zenon

\* A daemon ends at any of its steps; the pid file stays.
LEMMA DieIInv ==
    ASSUME IInv, NEW c \in Cmds, Die(c)
    PROVE  IInv'
<1> USE DEF IInv, Types, Paced, given
<1>1. /\ cmd[c].at \in Alive /\ cmd'[c].at = "gone"
      /\ cmd'[c].fd = cmd[c].fd /\ cmd'[c].pid = cmd[c].pid
      /\ \A d \in Cmds \ {c} : cmd'[d] = cmd[d]
      /\ UNCHANGED <<path, content, given>>
    BY Fields DEF Die, CmdState, Goto
<1>2. Types'
    BY <1>1, Fields, SMTT(30) DEF Die, CmdState, Steps, Goto, Release
<1>3. \A p \in Cmds : (Ended(p) => Ended(p)') /\ (Known(p) => Known(p)')
    BY <1>1, Fields, EndIsFinal, Zenon DEF Ended, Known, Exists, Alive
<1>4. PidsKnown' /\ PidWhenRead' /\ HasFile'
  <2>1. /\ cmd'[c].at \in {"new", "restart", "stop"} => cmd[c].pid = None
        /\ cmd'[c].at \in {"kill", "poll", "unlink"} => cmd[c].pid # None
        /\ cmd'[c].at \in {"lock", "write"} => cmd'[c].fd \in Cmds
      BY <1>1, Zenon DEF PidWhenRead, HasFile, Alive
  <2> QED
      BY <1>1, <1>3, <2>1, PidsKept, Zenon
<1>5. SeenEnd'
    BY <1>1, <1>3, Fields, ZenonT(30) DEF SeenEnd, Alive
<1>6. ASSUME Paced PROVE OneBusy' /\ NamesEach' /\ StopKnowsEach' /\ StartsAlone'
  <2>1. Daemons' \subseteq Daemons
      BY <1>1, Zenon DEF Daemons, Up
  <2>2. OneBusy'
      BY <1>1, <1>6, SMTT(30) DEF OneBusy, Busy, Working, Starting, Up, Alive
  <2>3. NamesEach' /\ StopKnowsEach' /\ StartsAlone'
      BY <1>1, <1>6, <2>1
         DEF NamesEach, StopKnowsEach, StartsAlone, Starting, GetPidFromFile
  <2> QED
      BY <2>2, <2>3
<1> QED
    BY <1>1, <1>2, <1>4, <1>5, <1>6, Zenon

-----------------------------------------------------------------------------
\* The invariant that the properties follow from holds in every state.
THEOREM DaemonInvariance == Spec => []IInv
<1>1. ASSUME IInv, [Next]_vars PROVE IInv'
  <2>1. CASE Next
    <3>1. PICK c \in Cmds :
            \/ \E kind \in {"start", "stop", "restart"} : DaemonProcess(c, kind)
            \/ DaemonRestart(c) \/ DaemonStop(c) \/ Kill(c) \/ Poll(c) \/ Unlink(c)
            \/ DaemonStart(c) \/ ParentExit(c)
            \/ Open(c) \/ Lock(c) \/ Write(c) \/ Close(c) \/ Redirect(c)
            \/ Exit(c) \/ Die(c)
        BY <2>1, Zenon DEF Next
    <3> QED
        BY <1>1, <3>1, DaemonProcessIInv, DaemonRestartIInv, DaemonStopIInv, KillIInv,
           PollIInv, UnlinkIInv, DaemonStartIInv, ParentExitIInv, OpenIInv, LockIInv,
           WriteIInv, CloseIInv, RedirectIInv, ExitIInv, DieIInv, ZenonT(30)
  <2>2. CASE UNCHANGED vars
      BY <1>1, <2>2, ZenonT(30)
         DEF vars, given, Paced, IInv, Types, PidsKnown, PidWhenRead, SeenEnd, HasFile,
             OneBusy,
             NamesEach, StopKnowsEach, StartsAlone, Daemons, GetPidFromFile, Known,
             Exists, Ended
  <2> QED
      BY <1>1, <2>1, <2>2, Zenon
<1> QED
    BY InitIInv, <1>1, PTL DEF Spec

\* When each command is given after the ones before have returned and their daemons have
\* written their pid, there are never two daemons: then DaemonStart's look at the pid
\* file is enough, though the lock of WritePidFile is gone when it returns.
THEOREM OneDaemon == Spec => []SoleDaemon
<1>1. IInv => SoleDaemon
  <2> DEFINE All == {c \in Cmds : cmd[c].at \in Starting \cup Up}
  <2> SUFFICES ASSUME IInv, Paced
               PROVE  Cardinality(All) <= 1
      BY DEF SoleDaemon
  <2>1. ASSUME NEW c \in All, NEW d \in All PROVE c = d
    <3>1. CASE c \in Daemons /\ d \in Daemons
        BY <3>1, Zenon DEF IInv, NamesEach
    <3>2. CASE cmd[c].at \in Starting /\ cmd[d].at \in Starting
        BY <3>2, Zenon DEF IInv, OneBusy, Busy
    <3>3. CASE Daemons # {} /\ \E s \in Cmds : cmd[s].at \in Starting
        BY <3>3, Zenon DEF IInv, StartsAlone
    <3> QED
        BY <3>1, <3>2, <3>3, Zenon DEF Daemons
  <2>2. CASE All = {}
      BY <2>2, FS_EmptySet, SMT
  <2>3. CASE All # {}
    <3>1. PICK e : e \in All
        BY <2>3, Zenon
    <3>2. All = {e}
        BY <2>1, <3>1, Zenon
    <3> QED
      <4> HIDE DEF All
      <4>1. Cardinality(All) = 1
          BY <3>2, FS_Singleton, Zenon
      <4> QED
          BY <4>1, SMT
  <2> QED
      BY <2>2, <2>3, Zenon
<1> QED
    BY DaemonInvariance, <1>1, PTL

\* Under the same condition the pid file names the daemon from the write of its pid to its
\* exit, so that the next DaemonStop or DaemonStart finds it.
THEOREM PidFileNamesDaemon == Spec => []FileNamesDaemon
<1>1. IInv => FileNamesDaemon
    BY Zenon DEF IInv, NamesEach, FileNamesDaemon
<1> QED
    BY DaemonInvariance, <1>1, PTL

\* However commands overlap, DaemonStop returns 0 only after the end of the process
\* whose pid it has read.
THEOREM StopSeesEnd == Spec => []StoppedIsGone
<1>1. IInv => StoppedIsGone
    BY DEF IInv, SeenEnd, StoppedIsGone, Ended, Exists, Alive
<1> QED
    BY DaemonInvariance, <1>1, PTL
=============================================================================
