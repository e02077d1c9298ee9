---------------------------- MODULE SharedProofs ----------------------------
(***************************************************************************)
(* The permit of Bootstrap, for any number of workers and grants; the log  *)
(* of Logs, for any number of processes and files; and the types of what   *)
(* MCSafety checks side by side.                                           *)
(***************************************************************************)
EXTENDS MCSafety, ForwarderProofs, AdmissionProofs, FiniteSetTheorems, TLAPS

-----------------------------------------------------------------------------
(* The permit                                                              *)

\* The initial state has no permit, no call and no tunnel.
LEMMA PermitInitInv == BootstrapInit => BootstrapInv
  BY MaxGrantsAssumption DEF BootstrapInit, BootstrapInv, BootstrapTypeOK, PermitHasWaiter

\* Every step keeps the permit with the call that is waiting for it.
LEMMA PermitStepInv == BootstrapInv /\ [BootstrapNext]_bootstrapVars => BootstrapInv'
<1> SUFFICES ASSUME BootstrapInv, [BootstrapNext]_bootstrapVars PROVE BootstrapInv'
  OBVIOUS
<1> USE MaxGrantsAssumption DEF BootstrapInv, BootstrapTypeOK, PermitHasWaiter
<1>1. CASE Grant
  BY <1>1 DEF Grant, meetingVars
<1>2. CASE Revoke
  BY <1>2 DEF Revoke, ClearPermit, KeepPermit, meetingVars
<1>3. CASE PermitCleared
  BY <1>3 DEF PermitCleared, ClearPermit, meetingVars
<1>4. CASE TimePasses
  BY <1>4 DEF TimePasses, meetingVars
<1>5. ASSUME NEW w \in PermitWorkers, PermitWorker(w) PROVE BootstrapInv'
  <2>1. CASE MeetConnect(w)
    <3>1. \A a \in 0 .. nextLease : a \in 0 .. MaxGrants
      OBVIOUS
    <3> QED
      BY <2>1, <3>1 DEF MeetConnect, permitVars
  <2>2. CASE Consume(w)
    <3>1. lease \in 1 .. MaxGrants
      BY <2>2 DEF Consume, Admits
    <3>2. tunnels' \in [1 .. MaxGrants -> Nat]
      BY <2>2, <3>1 DEF Consume
    <3> QED
      BY <2>2, <3>2 DEF Consume, ClearPermit
  <2>3. CASE Refuse(w)
    BY <2>3 DEF Refuse, ClearPermit, KeepPermit
  <2>4. CASE Challenge(w)
    <3>1. CASE deadline = "ahead"
      BY <2>4, <3>1 DEF Challenge, KeepPermit
    <3>2. CASE deadline # "ahead"
      BY <2>4, <3>2 DEF Challenge, ClearPermit
    <3> QED
      BY <3>1, <3>2
  <2>5. CASE EndConnect(w)
    BY <2>5 DEF EndConnect, permitVars
  <2> QED
    BY <1>5, <2>1, <2>2, <2>3, <2>4, <2>5 DEF PermitWorker
<1>6. CASE UNCHANGED bootstrapVars
  BY <1>6 DEF bootstrapVars, permitVars, meetingVars
<1> QED
  BY <1>1, <1>2, <1>3, <1>4, <1>5, <1>6 DEF BootstrapNext

\* BootstrapInv holds in every reachable state.
THEOREM PermitInv == BootstrapSpec => []BootstrapInv
BY PermitInitInv, PermitStepInv, PTL DEF BootstrapSpec

\* Every variable of the permit keeps its type.
THEOREM BootstrapTypesCorrect == BootstrapSpec => []BootstrapTypeOK
<1>1. BootstrapInv => BootstrapTypeOK
  BY DEF BootstrapInv
<1> QED
  BY <1>1, PermitInv, PTL

\* No permit is left behind by syncFetchGuid.
THEOREM PermitHasWaiterCorrect == BootstrapSpec => []PermitHasWaiter
<1>1. BootstrapInv => PermitHasWaiter
  BY DEF BootstrapInv
<1> QED
  BY <1>1, PermitInv, PTL

\* A tunnel is for the call that is waiting.
THEOREM TunnelForTheWaiterCorrect == BootstrapSpec => TunnelForTheWaiter
<1>1. BootstrapInv /\ [BootstrapNext]_bootstrapVars
        => [\A w \in PermitWorkers : gatePc[w] = "gate" /\ gatePc'[w] = "tunnel"
              => callLease # 0 /\ password[w] = callLease]_bootstrapVars
  <2> SUFFICES ASSUME BootstrapInv, BootstrapNext,
                      NEW w \in PermitWorkers, gatePc[w] = "gate", gatePc'[w] = "tunnel"
               PROVE  callLease # 0 /\ password[w] = callLease
    OBVIOUS
  <2> USE DEF BootstrapInv, BootstrapTypeOK, PermitHasWaiter
  <2>1. PICK v \in PermitWorkers : PermitWorker(v)
    BY DEF BootstrapNext, Grant, Revoke, PermitCleared, TimePasses, meetingVars
  <2>2. v = w
    BY <2>1 DEF PermitWorker, MeetConnect, Consume, Refuse, Challenge, EndConnect
  <2>3. Consume(w)
    BY <2>1, <2>2 DEF PermitWorker, MeetConnect, Consume, Refuse, Challenge, EndConnect
  <2> QED
    BY <2>3 DEF Consume, Admits
<1> QED
  BY <1>1, PermitInv, PTL DEF BootstrapSpec, TunnelForTheWaiter

-----------------------------------------------------------------------------
(* The permit implements a token good for one tunnel.                      *)

\* A step of the forwarder opens, drops or replaces the token, or leaves it.
LEMMA TokenStep == BootstrapInv /\ [BootstrapNext]_bootstrapVars => [Token!Next]_(Token!oneShot)
<1> SUFFICES ASSUME BootstrapInv, [BootstrapNext]_bootstrapVars PROVE [Token!Next]_(Token!oneShot)
  OBVIOUS
<1> USE MaxGrantsAssumption
    DEF BootstrapInv, BootstrapTypeOK, PermitHasWaiter, Token!oneShot, Token!Next, Token!Drop
<1>1. CASE Grant
  <2>1. nextLease + 1 \in 1 .. MaxGrants
    BY <1>1 DEF Grant
  <2> QED
    BY <1>1, <2>1 DEF Grant, Token!Grant
<1>2. CASE Revoke
  BY <1>2 DEF Revoke, ClearPermit, KeepPermit
<1>3. CASE PermitCleared
  BY <1>3 DEF PermitCleared, ClearPermit
<1>4. CASE TimePasses
  BY <1>4 DEF TimePasses
<1>5. ASSUME NEW w \in PermitWorkers, PermitWorker(w) PROVE [Token!Next]_(Token!oneShot)
  <2>1. CASE MeetConnect(w)
    BY <2>1 DEF MeetConnect, permitVars
  <2>2. CASE Consume(w)
    <3>1. /\ deadline = "ahead" /\ deadline' = "none"
          /\ lease \in 1 .. MaxGrants
          /\ tunnels' = [tunnels EXCEPT ![lease] = @ + 1]
          /\ nextLease' = nextLease
      BY <2>2 DEF Consume, Admits, ClearPermit
    <3>2. Token!Open(lease)
      BY <3>1 DEF Token!Open
    <3> QED
      BY <3>1, <3>2
  <2>3. CASE Refuse(w)
    BY <2>3 DEF Refuse, ClearPermit, KeepPermit
  <2>4. CASE Challenge(w)
    BY <2>4 DEF Challenge, ClearPermit, KeepPermit
  <2>5. CASE EndConnect(w)
    BY <2>5 DEF EndConnect, permitVars
  <2> QED
    BY <1>5, <2>1, <2>2, <2>3, <2>4, <2>5 DEF PermitWorker
<1>6. CASE UNCHANGED bootstrapVars
  BY <1>6 DEF bootstrapVars, permitVars
<1> QED
  BY <1>1, <1>2, <1>3, <1>4, <1>5, <1>6 DEF BootstrapNext

\* "Grants exactly one, short-lived, credential-bound PBProxy TLS CONNECT."
THEOREM SingleUseCorrect == BootstrapSpec => SingleUse
<1>1. BootstrapInit => Token!Init
  BY DEF BootstrapInit, Token!Init
<1> QED
  BY <1>1, TokenStep, PermitInv, PTL DEF BootstrapSpec, SingleUse, Token!Spec

-----------------------------------------------------------------------------
(* The log.  No process enforces the bound of a file, since each counts    *)
(* only what it has seen.                                                  *)

\* What every process may write until its own counter says the file is full,
\* the line that finds it so included.
Full == Cardinality(Processes) * (Rotate + 1)
\* A stroke is a line that one process writes when it has counted so many.
Files == 1 .. MaxFiles
Strokes == Processes \X (1 .. Rotate + 1)

\* Types, and what a process holds where it is in kp_traffic_log.
LogBase ==
  /\ size \in [Files -> Nat] /\ files \in 0 .. MaxFiles
  /\ current \in 0 .. files /\ backup \in 0 .. files
  /\ stream \in [Processes -> 0 .. files] /\ counted \in [Processes -> Nat]
  /\ header \subseteq Processes
  /\ doing \in [Processes -> {"idle", "check", "remove", "rename", "reopen", "write"}]
  /\ \A p \in Processes :
       /\ doing[p] \in {"check", "write"} => stream[p] # 0
       /\ doing[p] \in {"remove", "rename", "reopen"} => stream[p] = 0
       /\ p \in header => doing[p] \in {"check", "write"} /\ counted[p] = 1

\* Process p has not written to file f.
Unmarked(marks, p, f) == \A i \in 1 .. Rotate + 1 : <<p, i>> \notin marks[f]

\* Some history of strokes explains the files: each line of a file is a stroke of
\* its own, and a process that has the file open has counted its strokes in it at
\* least.  A process counts what a file held when it opened it and its own lines
\* since, never those of the others, so it never makes a stroke twice.
Marked(marks) ==
  /\ marks \in [Files -> SUBSET Strokes]
  /\ \A f \in Files :
       /\ size[f] <= Cardinality(marks[f])
       /\ \A p \in Processes, i \in 1 .. Rotate + 1 : <<p, i>> \in marks[f] =>
            /\ i <= size[f]
            /\ stream[p] = f => i <= counted[p]
       /\ f > files => size[f] = 0
  /\ \A p \in Processes :
       /\ stream[p] # 0 => counted[p] <= size[stream[p]] + Flushed(p)
       /\ doing[p] = "write" \/ p \in header => Unmarked(marks, p, stream[p])
       /\ doing[p] = "reopen" /\ current # 0 => Unmarked(marks, p, current)

\* A process counts no further than what a file can hold, and a line more.
Counted ==
  \A p \in Processes : counted[p] <= Full + 1 /\ (doing[p] = "write" => counted[p] <= Full)

\* The inductive invariant.
LogInv ==
  /\ LogBase /\ BackupIsOlder /\ Counted
  /\ \E marks \in [Files -> SUBSET Strokes] : Marked(marks)

\* The bundles of variables that actions leave alone, spelled out.
USE DEF fileVars, processVars

\* There are as many strokes as Full says.
LEMMA LogNumbers ==
  /\ Rotate \in Nat \ {0} /\ MaxFiles \in Nat /\ MaxSize \in Nat /\ Full \in Nat /\ MaxSize > Full
  /\ IsFiniteSet(Strokes) /\ Cardinality(Strokes) = Full
  /\ \A p \in Processes : Rotate + 1 <= Full
<1>1. /\ Rotate \in Nat \ {0} /\ MaxFiles \in Nat /\ MaxSize \in Nat /\ MaxSize > Full
      /\ IsFiniteSet(Processes) /\ Cardinality(Processes) \in Nat
  BY LogsAssumption, FS_CardinalityType DEF Full
<1>2. IsFiniteSet(1 .. Rotate + 1) /\ Cardinality(1 .. Rotate + 1) = Rotate + 1
  <2>1. 1 \in Int /\ Rotate + 1 \in Int /\ Rotate + 1 >= 1 /\ (Rotate + 1) - 1 + 1 = Rotate + 1
    BY <1>1
  <2> QED
    BY <2>1, FS_Interval
<1>3. IsFiniteSet(Strokes) /\ Cardinality(Strokes) = Full
  BY <1>1, <1>2, FS_Product DEF Strokes, Full
<1>4. Full \in Nat
  BY <1>1, <1>3, FS_CardinalityType
<1>5. ASSUME NEW p \in Processes PROVE Rotate + 1 <= Full
  <2>1. IsFiniteSet({p}) /\ Cardinality({p}) = 1
    BY FS_Singleton
  <2>2. Cardinality({p} \X (1 .. Rotate + 1)) = Rotate + 1
    <3>1. Cardinality({p} \X (1 .. Rotate + 1)) = Cardinality({p}) * Cardinality(1 .. Rotate + 1)
      BY <1>2, <2>1, FS_Product, Zenon
    <3>2. Rotate + 1 \in Nat
      BY <1>1
    <3> QED
      BY <1>2, <2>1, <3>1, <3>2
  <2>3. {p} \X (1 .. Rotate + 1) \in SUBSET Strokes
    BY DEF Strokes
  <2>4. Cardinality({p} \X (1 .. Rotate + 1)) <= Full
    BY <1>3, <2>3, FS_Subset
  <2> QED
    BY <1>1, <2>2, <2>4
<1> QED
  BY <1>1, <1>3, <1>4, <1>5

\* The marks of a file are as many as its lines at least, so they bound them.
LEMMA FilesBounded ==
  ASSUME LogBase, NEW marks, Marked(marks), NEW f \in Files
  PROVE  size[f] <= Full
<1>1. marks[f] \in SUBSET Strokes
  BY DEF Marked
<1>2. Cardinality(marks[f]) \in Nat /\ Cardinality(marks[f]) <= Full
  BY <1>1, LogNumbers, FS_Subset, FS_CardinalityType
<1> QED
  BY <1>2, LogNumbers DEF LogBase, Marked

-----------------------------------------------------------------------------
\* What opening the file changes.
LEMMA OpenKeeps ==
  ASSUME LogBase, BackupIsOlder, NEW p \in Processes, FileOpened(p)
  PROVE  /\ files' \in 0 .. MaxFiles /\ files' >= files /\ current' \in 1 .. files'
         /\ stream' = [stream EXCEPT ![p] = current'] /\ stream' \in [Processes -> 0 .. files']
         /\ counted' \in [Processes -> Nat] /\ size' = size /\ backup' = backup
         /\ counted' = [counted EXCEPT ![p] = IF size[current'] = 0 THEN 1 ELSE size[current']]
         /\ header' = IF size[current'] = 0 THEN header \cup {p} ELSE header
         /\ BackupIsOlder'
         /\ (current # 0 /\ current' = current) \/ (current = 0 /\ current' = files + 1)
<1>1. files' \in 0 .. MaxFiles /\ files' >= files /\ current' \in 1 .. files'
  BY LogNumbers DEF LogBase, FileOpened
<1>2. stream' \in [Processes -> 0 .. files'] /\ stream' = [stream EXCEPT ![p] = current']
  BY <1>1, LogNumbers DEF LogBase, FileOpened
<1>3. counted' \in [Processes -> Nat]
  BY <1>1, LogNumbers DEF LogBase, FileOpened, Files
<1>4. (current # 0 /\ current' = current) \/ (current = 0 /\ current' = files + 1)
  BY LogNumbers DEF LogBase, FileOpened
<1>5. BackupIsOlder'
  BY <1>1, <1>2, <1>4, LogNumbers DEF LogBase, FileOpened, BackupIsOlder
<1> QED
  BY <1>1, <1>2, <1>3, <1>4, <1>5 DEF FileOpened

\* Types and order.
LEMMA LogBaseStep ==
  ASSUME LogBase, BackupIsOlder, NEW p \in Processes, Traffic(p)
  PROVE  LogBase' /\ BackupIsOlder'
<1> USE LogNumbers
<1>1. CASE Open(p) \/ Reopen(p)
  <2>1. FileOpened(p) /\ (doing' = [doing EXCEPT ![p] = "check"] \/ doing' = [doing EXCEPT ![p] = "write"])
    BY <1>1 DEF Open, Reopen
  <2>2. p \notin header
    BY <1>1 DEF Open, Reopen, LogBase
  <2> QED
    BY <2>1, <2>2, OpenKeeps DEF LogBase
<1>2. CASE HasStream(p) \/ RotateBegins(p) \/ RemoveBackup(p)
  BY <1>2 DEF LogBase, BackupIsOlder, HasStream, RotateBegins, RemoveBackup
<1>3. CASE Rename(p)
  BY <1>3 DEF LogBase, BackupIsOlder, Rename
<1>4. CASE ReopenFails(p) \/ SetPath(p)
  BY <1>4 DEF LogBase, BackupIsOlder, ReopenFails, SetPath
<1>5. CASE Write(p)
  <2>1. stream[p] \in Files /\ size[stream[p]] \in Nat /\ Flushed(p) \in Nat
    BY <1>5 DEF LogBase, Write, Flushed, Files
  <2>2. size' \in [Files -> Nat] /\ counted' \in [Processes -> Nat]
    BY <1>5, <2>1 DEF LogBase, Write
  <2> QED
    BY <1>5, <2>2 DEF LogBase, BackupIsOlder, Write
<1> QED
  BY <1>1, <1>2, <1>3, <1>4, <1>5 DEF Traffic

\* No process counts past what a file can hold.
LEMMA CountedStep ==
  ASSUME LogBase, BackupIsOlder, Counted, NEW marks, Marked(marks), NEW p \in Processes, Traffic(p)
  PROVE  Counted'
<1> USE LogNumbers
<1>1. CASE Open(p) \/ Reopen(p)
  <2>1. /\ FileOpened(p)
        /\ doing' = [doing EXCEPT ![p] = "check"] \/ doing' = [doing EXCEPT ![p] = "write"]
    BY <1>1 DEF Open, Reopen
  <2>2. current' \in Files /\ counted' = [counted EXCEPT ![p] = IF size[current'] = 0 THEN 1 ELSE size[current']]
    BY <2>1, OpenKeeps DEF Files
  <2>3. size[current'] <= Full /\ 1 <= Full /\ size[current'] \in Nat
    BY <2>2, FilesBounded DEF LogBase
  <2> QED
    BY <2>1, <2>2, <2>3 DEF Counted, LogBase
<1>2. CASE HasStream(p) \/ RotateBegins(p) \/ RemoveBackup(p) \/ Rename(p) \/ ReopenFails(p) \/ SetPath(p)
  BY <1>2 DEF LogBase, Counted, HasStream, RotateBegins, RemoveBackup, Rename, ReopenFails, SetPath
<1>3. CASE Write(p)
  BY <1>3 DEF LogBase, Counted, Write
<1> QED
  BY <1>1, <1>2, <1>3 DEF Traffic

\* What is not written does not change the marks.
LEMMA MarksKept ==
  ASSUME LogBase, BackupIsOlder, NEW CONSTANT marks, Marked(marks),
         NEW p \in Processes, Traffic(p), ~Write(p)
  PROVE  Marked(marks)'
<1> USE LogNumbers
<1>1. CASE Open(p) \/ Reopen(p)
  <2>1. /\ FileOpened(p)
        /\ doing[p] \in {"idle", "reopen"} /\ p \notin header
        /\ doing' = [doing EXCEPT ![p] = IF doing[p] = "idle" THEN "check" ELSE "write"]
    BY <1>1 DEF Open, Reopen, LogBase
  <2> DEFINE f == current'
  <2>2. /\ f \in Files /\ size[f] \in Nat /\ size' = size
        /\ stream' = [stream EXCEPT ![p] = f] /\ files' \in Nat /\ files' >= files
        /\ counted' = [counted EXCEPT ![p] = IF size[f] = 0 THEN 1 ELSE size[f]]
        /\ header' = IF size[f] = 0 THEN header \cup {p} ELSE header
    <3>1. current' \in Files /\ size[current'] \in Nat /\ files \in Nat
      BY <2>1, OpenKeeps DEF Files, LogBase
    <3> QED
      BY <2>1, <3>1, OpenKeeps
  <2>6. (current # 0 /\ f = current) \/ (current = 0 /\ f = files + 1)
    BY <2>1, OpenKeeps
  <2> HIDE DEF f
  <2>7. \A q \in Processes : current = 0 => Unmarked(marks, q, f)
    <3>1. current = 0 => size[f] = 0
      BY <2>2, <2>6 DEF Marked, LogBase
    <3> QED
      BY <2>2, <3>1 DEF Marked, Unmarked
  <2>3. doing[p] = "reopen" => Unmarked(marks, p, f)
    BY <2>6, <2>7 DEF Marked
  <2>4. size[f] = 0 => Unmarked(marks, p, f)
    BY <2>2 DEF Marked, Unmarked
  <2>5. \A g \in Files : g > files' => size[g] = 0
    BY <2>2 DEF Marked, LogBase, Files
  <2>8. \A q \in Processes : q # p =>
           /\ stream'[q] = stream[q] /\ counted'[q] = counted[q] /\ doing'[q] = doing[q]
           /\ Flushed(q)' = Flushed(q) /\ (q \in header' <=> q \in header)
    BY <2>1, <2>2 DEF LogBase, Flushed
  <2>9. /\ stream'[p] = f /\ counted'[p] = IF size[f] = 0 THEN 1 ELSE size[f]
        /\ doing'[p] = IF doing[p] = "idle" THEN "check" ELSE "write"
        /\ Flushed(p)' = IF size[f] = 0 THEN 1 ELSE 0
        /\ (p \in header' <=> size[f] = 0)
    BY <2>1, <2>2 DEF LogBase, Flushed
  <2>10. \A g \in Files : /\ size'[g] <= Cardinality(marks[g])
                          /\ \A q \in Processes, i \in 1 .. Rotate + 1 : <<q, i>> \in marks[g] =>
                               i <= size'[g] /\ (stream'[q] = g => i <= counted'[q])
                          /\ g > files' => size'[g] = 0
    BY <2>2, <2>4, <2>5, <2>8, <2>9 DEF Marked, Unmarked
  <2>11. ASSUME NEW q \in Processes
         PROVE  /\ stream'[q] # 0 => counted'[q] <= size'[stream'[q]] + Flushed(q)'
                /\ doing'[q] = "write" \/ q \in header' => Unmarked(marks, q, stream'[q])
                /\ doing'[q] = "reopen" /\ current' # 0 => Unmarked(marks, q, current')
    <3>1. CASE q = p
      BY <2>1, <2>2, <2>3, <2>4, <2>9, <3>1
    <3>2. CASE q # p
      BY <2>2, <2>6, <2>7, <2>8, <3>2 DEF Marked, f
    <3> QED
      BY <3>1, <3>2
  <2> QED
    BY <2>10, <2>11 DEF Marked, Unmarked
<1>2. CASE HasStream(p) \/ RotateBegins(p) \/ RemoveBackup(p)
  BY <1>2 DEF LogBase, Marked, Unmarked, Flushed, HasStream, RotateBegins, RemoveBackup
<1>3. CASE Rename(p) \/ ReopenFails(p) \/ SetPath(p)
  <2>1. /\ size' = size /\ files' = files /\ header' = header /\ p \notin header
        /\ stream'[p] = 0 /\ doing'[p] # "write" /\ (current' = current \/ current' = 0)
        /\ doing'[p] = "reopen" => current' = 0
    BY <1>3 DEF LogBase, Rename, ReopenFails, SetPath
  <2>2. \A q \in Processes : q # p =>
           stream'[q] = stream[q] /\ counted'[q] = counted[q] /\ doing'[q] = doing[q]
    BY <1>3 DEF LogBase, Rename, ReopenFails, SetPath
  <2>3. \A q \in Processes : Flushed(q)' = Flushed(q)
    BY <2>1 DEF Flushed
  <2>4. \A g \in Files : g # 0
    BY DEF Files
  <2> QED
    BY <2>1, <2>2, <2>3, <2>4 DEF Marked, Unmarked
<1> QED
  BY <1>1, <1>2, <1>3 DEF Traffic

\* A line, and the header before it, are marked with the count they bring.
LEMMA WriteMarks ==
  ASSUME LogBase, Counted, NEW CONSTANT marks, Marked(marks), NEW p \in Processes, Write(p)
  PROVE  \E more \in [Files -> SUBSET Strokes] : Marked(more)'
<1> USE LogNumbers
<1> DEFINE f == stream[p]
           n == IF p \in header THEN 2 ELSE IF doing[p] = "write" THEN 1 ELSE counted[p] + 1
           line == <<p, n>>
           added == IF p \in header THEN {<<p, 1>>, line} ELSE {line}
           more == [marks EXCEPT ![f] = @ \cup added]
<1>1. /\ f \in Files /\ f # 0 /\ f <= files /\ size[f] \in Nat /\ counted[p] \in Nat
      /\ doing[p] \in {"write", "check"}
      /\ p \in header => counted[p] = 1
      /\ doing[p] = "check" /\ p \notin header => counted[p] <= Rotate
  BY DEF LogBase, Write, Files
<1>0. counted[p] <= size[f] + Flushed(p) /\ Flushed(p) = IF p \in header THEN 1 ELSE 0
  BY <1>1 DEF Marked, Flushed
<1>2. /\ n \in 1 .. Rotate + 1 /\ n <= counted[p] + 1 /\ n <= size[f] + Flushed(p) + 1
  BY <1>0, <1>1
<1>3. line \notin marks[f] /\ (p \in header => <<p, 1>> \notin marks[f])
  BY <1>1, <1>2 DEF Marked, Unmarked
<1>4. marks[f] \in SUBSET Strokes /\ line \in Strokes /\ <<p, 1>> \in Strokes
  BY <1>1, <1>2 DEF Marked, Strokes
<1>5. Cardinality(marks[f] \cup added) = Cardinality(marks[f]) + 1 + Flushed(p) /\ Cardinality(marks[f]) \in Nat
  <2>1. IsFiniteSet(marks[f]) /\ Cardinality(marks[f]) \in Nat
    BY <1>4, FS_Subset, FS_CardinalityType
  <2>2. \A S, x : IsFiniteSet(S) /\ x \notin S =>
          IsFiniteSet(S \cup {x}) /\ Cardinality(S \cup {x}) = Cardinality(S) + 1
    BY FS_AddElement
  <2> HIDE DEF line
  <2>3. IsFiniteSet(marks[f] \cup {line}) /\ Cardinality(marks[f] \cup {line}) = Cardinality(marks[f]) + 1
    BY <1>3, <2>1, <2>2
  <2>4. CASE p \in header
    <3>1. <<p, 1>> \notin marks[f] \cup {line}
      BY <1>3, <2>4 DEF line
    <3>2. Cardinality((marks[f] \cup {line}) \cup {<<p, 1>>}) = Cardinality(marks[f] \cup {line}) + 1
      BY <2>2, <2>3, <3>1, Zenon
    <3>3. marks[f] \cup added = (marks[f] \cup {line}) \cup {<<p, 1>>} /\ Flushed(p) = 1
      BY <2>4 DEF Flushed
    <3> QED
      BY <2>1, <2>3, <3>2, <3>3
  <2>5. CASE p \notin header
    BY <2>1, <2>3, <2>5 DEF Flushed
  <2> QED
    BY <2>4, <2>5
<1>6. more \in [Files -> SUBSET Strokes]
  BY <1>1, <1>4 DEF Marked
<1>7. /\ size'[f] = size[f] + 1 + Flushed(p) /\ \A g \in Files : g # f => size'[g] = size[g]
      /\ counted'[p] = counted[p] + 1 /\ doing'[p] = "idle" /\ header' = header \ {p}
      /\ \A q \in Processes : q # p => counted'[q] = counted[q] /\ doing'[q] = doing[q]
      /\ files' = files /\ current' = current /\ stream' = stream
  BY <1>1 DEF LogBase, Write
<1>8. \A q \in Processes : Flushed(q)' = IF q = p THEN 0 ELSE Flushed(q)
  BY <1>7 DEF Flushed
<1>9. /\ more[f] = marks[f] \cup added /\ \A g \in Files : g # f => more[g] = marks[g]
      /\ \A q \in Processes, i \in 1 .. Rotate + 1, g \in Files :
           <<q, i>> \in more[g] <=> <<q, i>> \in marks[g] \/ (g = f /\ <<q, i>> \in added)
  BY <1>1 DEF Marked
<1>10. \A q, i : <<q, i>> \in added => q = p /\ i \in {1, n}
  OBVIOUS
<1> HIDE DEF f, n, line, added, more
<1>11. ASSUME NEW g \in Files
       PROVE  /\ size'[g] <= Cardinality(more[g])
              /\ \A q \in Processes, i \in 1 .. Rotate + 1 : <<q, i>> \in more[g] =>
                   i <= size'[g] /\ (stream'[q] = g => i <= counted'[q])
              /\ g > files' => size'[g] = 0
  <2>1. size'[g] <= Cardinality(more[g])
    <3>1. CASE g = f
      <4>1. Cardinality(more[f]) = Cardinality(marks[f] \cup added)
        BY <1>9, Zenon
      <4> QED
        BY <1>0, <1>1, <1>5, <1>7, <3>1, <4>1 DEF Marked
    <3>2. CASE g # f
      BY <1>7, <1>9, <3>2 DEF Marked
    <3> QED
      BY <3>1, <3>2
  <2>2. size'[g] \in Nat /\ size'[g] >= size[g] /\ size[g] \in Nat
    BY <1>0, <1>1, <1>7 DEF LogBase
  <2>3. ASSUME NEW q \in Processes, NEW i \in 1 .. Rotate + 1, <<q, i>> \in more[g]
        PROVE  i <= size'[g] /\ (stream'[q] = g => i <= counted'[q])
    <3>1. CASE <<q, i>> \in marks[g]
      <4>1. i <= size[g] /\ (stream[q] = g => i <= counted[q])
        BY <2>3, <3>1 DEF Marked
      <4>2. counted'[q] >= counted[q] /\ counted[q] \in Nat /\ counted'[q] \in Nat
        BY <1>1, <1>7 DEF LogBase
      <4> QED
        BY <1>7, <2>2, <4>1, <4>2
    <3>2. CASE g = f /\ <<q, i>> \in added
      BY <1>0, <1>1, <1>2, <1>7, <1>10, <3>2
    <3> QED
      BY <1>9, <2>3, <3>1, <3>2
  <2>4. g > files' => size'[g] = 0
    BY <1>1, <1>7 DEF Marked, LogBase, Files
  <2> QED
    BY <2>1, <2>3, <2>4
<1>12. ASSUME NEW q \in Processes
       PROVE  /\ stream'[q] # 0 => counted'[q] <= size'[stream'[q]] + Flushed(q)'
              /\ doing'[q] = "write" \/ q \in header' => Unmarked(more, q, stream'[q])
              /\ doing'[q] = "reopen" /\ current' # 0 => Unmarked(more, q, current')
  <2>1. CASE q = p
    BY <1>0, <1>1, <1>7, <1>8, <2>1 DEF f
  <2>2. CASE q # p
    <3>1. Flushed(q) \in Nat /\ counted[q] \in Nat
      BY DEF LogBase, Flushed
    <3>2. stream[q] # 0 => stream[q] \in Files /\ size[stream[q]] \in Nat
      BY DEF LogBase, Files
    <3>3. stream[q] # 0 => counted'[q] <= size'[stream'[q]] + Flushed(q)'
      BY <1>0, <1>1, <1>7, <1>8, <2>2, <3>1, <3>2 DEF Marked
    <3>4. \A g \in Files : Unmarked(marks, q, g) => Unmarked(more, q, g)
      BY <1>9, <1>10, <2>2 DEF Unmarked
    <3>5. doing[q] = "write" \/ q \in header => stream[q] \in Files
      BY <3>2 DEF LogBase
    <3>6. current # 0 => current \in Files
      BY DEF LogBase, Files
    <3> QED
      BY <1>7, <2>2, <3>3, <3>4, <3>5, <3>6 DEF Marked
  <2> QED
    BY <2>1, <2>2
<1> QED
  BY <1>6, <1>11, <1>12 DEF Marked, Unmarked

-----------------------------------------------------------------------------
\* No file has a line yet, nor a mark.
LEMMA LogInitInv == ASSUME LogInit PROVE LogInv
<1> USE LogNumbers DEF LogInit
<1>1. LogBase /\ BackupIsOlder /\ Counted
  BY DEF LogBase, BackupIsOlder, Counted, Files
<1>2. Marked([f \in Files |-> {}])
  <2>1. Cardinality({}) = 0
    BY FS_EmptySet
  <2> QED
    BY <2>1 DEF Marked, Unmarked, Files, Flushed
<1> QED
  BY <1>1, <1>2 DEF LogInv

\* Every step keeps the invariant, with more marks for a line that is written.
LEMMA LogStepInv == ASSUME LogInv, [LogNext]_logVars PROVE LogInv'
<1>1. LogBase /\ BackupIsOlder /\ Counted
  BY DEF LogInv
<1>2. PICK marks \in [Files -> SUBSET Strokes] : Marked(marks)
  BY DEF LogInv
<1>3. ASSUME NEW p \in Processes, Traffic(p) PROVE LogInv'
  <2>1. LogBase' /\ BackupIsOlder' /\ Counted'
    BY <1>1, <1>2, <1>3, LogBaseStep, CountedStep
  <2>2. \E more \in [Files -> SUBSET Strokes] : Marked(more)'
    BY <1>1, <1>2, <1>3, MarksKept, WriteMarks
  <2> QED
    BY <2>1, <2>2 DEF LogInv
<1>4. CASE UNCHANGED logVars
  <2>1. LogBase' /\ BackupIsOlder' /\ Counted'
    BY <1>1, <1>4 DEF logVars, LogBase, BackupIsOlder, Counted
  <2>2. Marked(marks)'
    BY <1>2, <1>4 DEF logVars, Marked, Unmarked, Flushed
  <2> QED
    BY <2>1, <2>2 DEF LogInv
<1> QED
  BY <1>3, <1>4 DEF LogNext

\* As many lines as strokes, so no file outgrows them.
LEMMA LogFacts == ASSUME LogInv PROVE LogTypeOK /\ LogsRotate
<1>1. LogBase /\ BackupIsOlder /\ Counted
  BY DEF LogInv
<1>2. PICK marks \in [Files -> SUBSET Strokes] : Marked(marks)
  BY DEF LogInv
<1>3. \A f \in Files : size[f] <= Full /\ size[f] \in 0 .. MaxSize
  BY <1>1, <1>2, FilesBounded, LogNumbers DEF LogBase
<1>4. TrafficBounded
  BY <1>1, <1>3, LogNumbers DEF TrafficBounded, LogBase, Files, Full
<1>5. counted \in [Processes -> 0 .. MaxSize]
  BY <1>1, LogNumbers DEF LogBase, Counted
<1> QED
  BY <1>1, <1>3, <1>4, <1>5 DEF LogTypeOK, LogsRotate, LogBase, Files

\* Types and the promise of the log, in every reachable state.
THEOREM LogSafe == LogSpec => [](LogTypeOK /\ LogsRotate)
<1>1. LogSpec => []LogInv
  BY LogInitInv, LogStepInv, PTL DEF LogSpec
<1> QED
  BY <1>1, LogFacts, PTL

\* The bound on the length of a file, which the model needs and the code has not,
\* is never reached: no line waits for it.
THEOREM MaxSizeUnreached == LogSpec => [](\A f \in Files : size[f] < MaxSize)
<1>1. ASSUME LogInv PROVE \A f \in Files : size[f] < MaxSize
  <2>1. PICK marks \in [Files -> SUBSET Strokes] : Marked(marks)
    BY <1>1 DEF LogInv
  <2>2. \A f \in Files : size[f] <= Full /\ size[f] \in Nat
    BY <1>1, <2>1, FilesBounded DEF LogInv, LogBase
  <2> QED
    BY <2>2, LogNumbers
<1>2. LogSpec => []LogInv
  BY LogInitInv, LogStepInv, PTL DEF LogSpec
<1> QED
  BY <1>1, <1>2, PTL

\* However many processes share the traffic log, and wherever each is in its own
\* rotation, a file never grows past what all of them may write to it, and the
\* file at <path>.1 is older than the one at <path>.
THEOREM LogsRotateHolds == LogSpec => []LogsRotate
BY LogSafe, PTL

-----------------------------------------------------------------------------
(* Side by side                                                            *)

\* Each of the four behaves as its own specification says.
LEMMA SharedParts ==
  MCSpec => Spec /\ BootstrapSpec /\ LogSpec /\ AdmissionSpec
<1>1. MCInit => Init /\ BootstrapInit /\ LogInit /\ AdmissionInit
  BY DEF MCInit
<1>2. [MCNext]_mcVars =>
        /\ [Next]_vars /\ [BootstrapNext]_bootstrapVars
        /\ [LogNext]_logVars /\ [AdmissionNext]_admissionVars
  BY DEF MCNext, mcVars
<1> QED
  BY <1>1, <1>2, PTL DEF MCSpec, Spec, BootstrapSpec, LogSpec, AdmissionSpec

\* Threads, registries, permit, logs and kill switch keep their types, and the
\* counters that must agree with each other do, for all values of the constants.
THEOREM SharedTypesHold == MCSpec => []SharedTypesOK
<1>1. TypeOK /\ BootstrapTypeOK /\ AdmissionTypeOK /\ LogTypeOK => SharedTypesOK
  BY DEF SharedTypesOK
<1> QED
  BY <1>1, SharedParts, TypeCorrect, BootstrapTypesCorrect, AdmissionTypeCorrect, LogSafe, PTL
=============================================================================
