-------------------------------- MODULE Logs --------------------------------
(***************************************************************************)
(* The traffic log of KPKIngCore.c: a line per connection, in a file that  *)
(* is renamed when it is full.  The processes of the apps that share the   *)
(* data directory all write to it, each with a stream and a size counter   *)
(* of its own.                                                             *)
(*                                                                         *)
(* A line, and the header of a file, count 1.  The lock of a process makes *)
(* the calls of its threads atomic; the steps of a rotation are not atomic *)
(* for the other processes.                                                *)
(***************************************************************************)
EXTENDS Naturals, FiniteSets

CONSTANTS
  Processes,  \* processes that share the file
  Rotate,     \* KP_TRAFFIC_LOG_ROTATE_BYTES, in lines
  MaxFiles,   \* bound on the files made in a behaviour
  MaxSize     \* bound on the lines of a file, beyond any it should reach

ASSUME LogsAssumption ==
  /\ Rotate \in Nat \ {0} /\ MaxFiles \in Nat /\ MaxSize \in Nat
  /\ IsFiniteSet(Processes)
  /\ MaxSize > Cardinality(Processes) * (Rotate + 1)

VARIABLES
  size,     \* lines in each file ever made, linked or not
  files,    \* how many have been made
  current,  \* the file at g_kp_traffic_path, 0 when there is none
  backup,   \* the file at <path>.1, 0 when there is none
  stream,   \* g_kp_traffic_fp of each process: a file, 0 when closed
  counted,  \* g_kp_traffic_size of each process
  header,   \* processes whose stream holds a header it has not flushed
  doing     \* where each process is in kp_traffic_log

fileVars == <<size, files, current, backup>>
processVars == <<stream, counted, header, doing>>
logVars == <<fileVars, processVars>>

-----------------------------------------------------------------------------
\* fopen(path, "a"): the file that is there, or a new one.  Who finds it empty
\* gives it a header, which is flushed with the first line.
FileOpened(p) ==
  /\ IF current # 0 THEN UNCHANGED <<files, current>>
     ELSE files < MaxFiles /\ files' = files + 1 /\ current' = files'
  /\ stream' = [stream EXCEPT ![p] = current']
  /\ counted' = [counted EXCEPT ![p] = IF size[current'] = 0 THEN 1 ELSE size[current']]
  /\ header' = IF size[current'] = 0 THEN header \cup {p} ELSE header
  /\ UNCHANGED <<size, backup>>

\* kp_traffic_log_open_locked, and again at the end of a rotation.
Open(p) ==
  /\ doing[p] = "idle" /\ stream[p] = 0
  /\ FileOpened(p)
  /\ doing' = [doing EXCEPT ![p] = "check"]

HasStream(p) ==
  /\ doing[p] = "idle" /\ stream[p] # 0
  /\ doing' = [doing EXCEPT ![p] = "check"]
  /\ UNCHANGED <<fileVars, stream, counted, header>>

\* kp_traffic_log_rotate_locked: the stream is closed, the old backup removed,
\* the file renamed, whichever file is at the path by now.
RotateBegins(p) ==
  /\ doing[p] = "check" /\ counted[p] > Rotate
  /\ stream' = [stream EXCEPT ![p] = 0]
  /\ doing' = [doing EXCEPT ![p] = "remove"]
  /\ UNCHANGED <<fileVars, counted, header>>

RemoveBackup(p) ==
  /\ doing[p] = "remove"
  /\ backup' = 0
  /\ doing' = [doing EXCEPT ![p] = "rename"]
  /\ UNCHANGED <<size, files, current, stream, counted, header>>

\* Variant: the file is copied to its backup, and stays.
CopyToBackup(p) ==
  /\ doing[p] = "rename"
  /\ IF current # 0 THEN backup' = current ELSE UNCHANGED backup
  /\ counted' = [counted EXCEPT ![p] = 0]
  /\ doing' = [doing EXCEPT ![p] = "reopen"]
  /\ UNCHANGED <<current, size, files, stream, header>>

\* Variant: the new file is left to the next line to open.
RenameOnly(p) ==
  /\ doing[p] = "rename"
  /\ IF current # 0 THEN backup' = current /\ current' = 0 ELSE UNCHANGED <<current, backup>>
  /\ counted' = [counted EXCEPT ![p] = 0]
  /\ doing' = [doing EXCEPT ![p] = "write"]
  /\ UNCHANGED <<size, files, stream, header>>

Rename(p) ==
  /\ doing[p] = "rename"
  /\ IF current # 0 THEN backup' = current /\ current' = 0 ELSE UNCHANGED <<current, backup>>
  /\ counted' = [counted EXCEPT ![p] = 0]
  /\ doing' = [doing EXCEPT ![p] = "reopen"]
  /\ UNCHANGED <<size, files, stream, header>>

Reopen(p) ==
  /\ doing[p] = "reopen"
  /\ FileOpened(p)
  /\ doing' = [doing EXCEPT ![p] = "write"]

\* It fails: the line is dropped, and the next one tries again.
ReopenFails(p) ==
  /\ doing[p] = "reopen"
  /\ doing' = [doing EXCEPT ![p] = "idle"]
  /\ UNCHANGED <<fileVars, stream, counted, header>>

Flushed(p) == IF p \in header THEN 1 ELSE 0

\* The line is written to the file of the stream, wherever that is linked now.
Write(p) ==
  /\ doing[p] = "write" \/ (doing[p] = "check" /\ counted[p] <= Rotate)
  /\ size[stream[p]] < MaxSize
  /\ size' = [size EXCEPT ![stream[p]] = @ + 1 + Flushed(p)]
  /\ header' = header \ {p}
  /\ counted' = [counted EXCEPT ![p] = @ + 1]
  /\ doing' = [doing EXCEPT ![p] = "idle"]
  /\ UNCHANGED <<files, current, backup, stream>>

\* kp_traffic_log_set_path, from every apply of the settings; the stream is
\* between two lines, so nothing is left to flush.
SetPath(p) ==
  /\ doing[p] = "idle"
  /\ stream' = [stream EXCEPT ![p] = 0]
  /\ counted' = [counted EXCEPT ![p] = 0]
  /\ UNCHANGED <<fileVars, header, doing>>

-----------------------------------------------------------------------------
LogInit ==
  /\ size = [f \in 1 .. MaxFiles |-> 0] /\ files = 0
  /\ current = 0 /\ backup = 0
  /\ stream = [p \in Processes |-> 0]
  /\ counted = [p \in Processes |-> 0] /\ header = {}
  /\ doing = [p \in Processes |-> "idle"]

Traffic(p) ==
  \/ Open(p) \/ HasStream(p)
  \/ RotateBegins(p) \/ RemoveBackup(p) \/ Rename(p) \/ Reopen(p) \/ ReopenFails(p)
  \/ Write(p)
  \/ SetPath(p)

LogNext == \E p \in Processes : Traffic(p)

LogSpec == LogInit /\ [][LogNext]_logVars

-----------------------------------------------------------------------------
(* Properties                                                              *)

\* Every variable keeps its type; a process writes to an open stream only, and
\* owes no header between two lines.
LogTypeOK ==
  /\ size \in [1 .. MaxFiles -> 0 .. MaxSize] /\ files \in 0 .. MaxFiles
  /\ current \in 0 .. files /\ backup \in 0 .. files
  /\ stream \in [Processes -> 0 .. files] /\ counted \in [Processes -> 0 .. MaxSize]
  /\ \A p \in Processes :
       /\ doing[p] \in {"idle", "check", "remove", "rename", "reopen", "write"}
       /\ doing[p] \in {"check", "write"} => stream[p] # 0
       /\ p \in header => doing[p] \in {"check", "write"}

\* No file, a renamed or removed one that other processes still write to
\* included, gets longer than KP_TRAFFIC_LOG_ROTATE_BYTES and one line, times the
\* processes that share it: each counts its own lines and those it found.  The
\* two files of a log that is shared can so exceed the "about 2 x" of line 105.
TrafficBounded ==
  \A f \in 1 .. files : size[f] <= Cardinality(Processes) * (Rotate + 1)

\* However the rotations of several processes interleave, the backup holds
\* older lines than the file, and no file is renamed over a newer one.
BackupIsOlder ==
  /\ backup # 0 /\ current # 0 => backup < current
  /\ \A p \in Processes : stream[p] # 0 /\ current # 0 => stream[p] <= current

\* The rotations of several processes keep the log bounded and in order.
LogsRotate == TrafficBounded /\ BackupIsOlder
=============================================================================
