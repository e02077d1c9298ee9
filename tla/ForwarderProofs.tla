--------------------------- MODULE ForwarderProofs ---------------------------
(***************************************************************************)
(* Proofs about Forwarder, for every number of workers, descriptors and    *)
(* callers and every limit.  Inv of Forwarder is shown to be inductive,    *)
(* one lemma for each of its conjuncts, and the theorems follow from it.   *)
(***************************************************************************)
EXTENDS Forwarder, FiniteSetTheorems, TLAPS

(* Distinct holders are distinct values, and all of them are holders.      *)
LEMMA HolderFacts ==
  /\ Free \in Holders /\ Foreign \in Holders /\ Acceptor \in Holders
  /\ Free # Foreign /\ Free # Acceptor /\ Foreign # Acceptor
  /\ \A w \in Workers :
       /\ ClientOf(w) \in Holders /\ UpOf(w) \in Holders
       /\ ClientOf(w) \notin {Free, Foreign, Acceptor}
       /\ UpOf(w) \notin {Free, Foreign, Acceptor}
       /\ \A v \in Workers : ClientOf(w) # UpOf(v)
       /\ \A v \in Workers : ClientOf(w) = ClientOf(v) => w = v
       /\ \A v \in Workers : UpOf(w) = UpOf(v) => w = v
BY DEF Holders, Free, Foreign, Acceptor, ClientOf, UpOf

(* Closing a descriptor keeps the table and the set of shut descriptors     *)
(* within their types, whatever number is closed.                          *)
LEMMA CloseFdType ==
  ASSUME TypeOK, NEW f, CloseFd(f)
  PROVE  owner' \in [FDs -> Holders] /\ shut' \in SUBSET FDs
BY HolderFacts DEF TypeOK, CloseFd

(* A finite set without one of its elements has one element fewer.          *)
LEMMA OneFewer ==
  ASSUME NEW S, IsFiniteSet(S), NEW x \in S
  PROVE  Cardinality(S \ {x}) = Cardinality(S) - 1
BY FS_RemoveElement

(* Every step keeps every variable within its type.                         *)
LEMMA TypeStep == Inv /\ [Next]_vars => TypeOK'
<1> SUFFICES ASSUME Inv, [Next]_vars PROVE TypeOK'
  OBVIOUS
<1> USE HolderFacts, MaxTriesAssumption
    DEF Inv, TypeOK, AccPcs, Pcs, Owns, OpenFd, Goes, DropPin,
              fdVars, acceptVars, workerVars, slotVars, ownerVars, pinVars,
              WorkerStays, CallerStays, OwnerStays
<1>1. ASSUME NEW f \in FDs, ForeignOpen(f) PROVE TypeOK'
  BY <1>1 DEF ForeignOpen
<1>2. ASSUME NEW f \in FDs, ForeignClose(f) PROVE TypeOK'
  BY <1>2, CloseFdType DEF ForeignClose, Inv
<1>3. CASE LoopTop
  BY <1>3 DEF LoopTop
<1>4. CASE PollAgain
  BY <1>4 DEF PollAgain
<1>5. ASSUME NEW f \in FDs, Accept(f) PROVE TypeOK'
  BY <1>5 DEF Accept
<1>6. CASE Reject
  BY <1>6 DEF Reject
<1>7. ASSUME NEW w \in Workers, Register(w) PROVE TypeOK'
  BY <1>7 DEF Register
<1>8. CASE Spawn
  <2>1. accWorker \in Workers
    BY <1>8 DEF Spawn, RegInv
  <2>2. owner' \in [FDs -> Holders]
    BY <1>8, <2>1 DEF Spawn
  <2>. QED
    BY <1>8, <2>1, <2>2 DEF Spawn
<1>9. CASE SpawnFails
  <2>1. accWorker \in clientFds
    BY <1>9, NoWorkerAssumption DEF SpawnFails, RegInv
  <2>2. activeClients # 0
    BY <2>1, FS_EmptySet, WorkersAssumption, FS_Subset DEF RegInv
  <2>3. activeClients - 1 \in Nat
    BY <2>2
  <2>. QED
    BY <1>9, <2>3 DEF SpawnFails
<1>10. CASE AcceptClose
  BY <1>10, CloseFdType DEF AcceptClose, Inv
<1>11. ASSUME NEW w \in Workers, ReadHead(w) PROVE TypeOK'
  BY <1>11 DEF ReadHead
<1>12. ASSUME NEW w \in Workers, IoDone(w) PROVE TypeOK'
  BY <1>12 DEF IoDone
<1>13. ASSUME NEW w \in Workers, NEW f \in FDs, Dial(w, f) PROVE TypeOK'
  BY <1>13 DEF Dial
<1>14. ASSUME NEW w \in Workers, NoMoreNodes(w) PROVE TypeOK'
  BY <1>14 DEF NoMoreNodes
<1>15. ASSUME NEW w \in Workers, DialDone(w) PROVE TypeOK'
  BY <1>15 DEF DialDone
<1>16. ASSUME NEW w \in Workers, DialFails(w) PROVE TypeOK'
  BY <1>16, CloseFdType DEF DialFails, Inv
<1>17. ASSUME NEW w \in Workers, Track(w) PROVE TypeOK'
  BY <1>17 DEF Track
<1>18. ASSUME NEW w \in Workers, TrackRefused(w) PROVE TypeOK'
  BY <1>18, CloseFdType DEF TrackRefused, Inv
<1>19. ASSUME NEW w \in Workers, CloseUpstream(w) PROVE TypeOK'
  BY <1>19, CloseFdType DEF CloseUpstream, Inv
<1>20. ASSUME NEW w \in Workers, CloseClient(w) PROVE TypeOK'
  BY <1>20, CloseFdType DEF CloseClient, Inv
<1>21. ASSUME NEW w \in Workers, Unregister(w) PROVE TypeOK'
  BY <1>21 DEF Unregister
<1>22. ASSUME NEW p \in Outside \cup GuidFetchers, Retain(p) PROVE TypeOK'
  BY <1>22 DEF Retain
<1>23. ASSUME NEW p \in Outside \cup GuidFetchers, Release(p) PROVE TypeOK'
  BY <1>23 DEF Release
<1>24. ASSUME NEW p \in Outside \cup GuidFetchers, FetchGuidUnpublished(p) PROVE TypeOK'
  BY <1>24 DEF FetchGuidUnpublished
<1>25. ASSUME NEW p \in Outside \cup GuidFetchers, FetchGuidGivesUp(p) PROVE TypeOK'
  BY <1>25 DEF FetchGuidGivesUp
<1>26. CASE StartListening
  BY <1>26 DEF StartListening
<1>27. CASE StartAccepting
  BY <1>27 DEF StartAccepting
<1>28. CASE Attach
  BY <1>28 DEF Attach
<1>29. CASE Detach
  BY <1>29 DEF Detach
<1>30. CASE ShutdownClients
  BY <1>30 DEF ShutdownClients, Swept
<1>31. CASE Stop
  BY <1>31 DEF Stop
<1>32. CASE Join
  BY <1>32 DEF Join
<1>33. CASE Sweep
  BY <1>33 DEF Sweep, Swept
<1>34. CASE WaitDrained
  BY <1>34 DEF WaitDrained
<1>35. CASE WaitExpires
  BY <1>35 DEF WaitExpires
<1>36. CASE UNCHANGED vars
  BY <1>36 DEF vars
<1>. QED
  BY <1>1, <1>2, <1>3, <1>4, <1>5, <1>6, <1>7, <1>8, <1>9,
     <1>10, <1>11, <1>12, <1>13, <1>14, <1>15, <1>16, <1>17, <1>18,
     <1>19, <1>20, <1>21, <1>22, <1>23, <1>24, <1>25, <1>26, <1>27,
     <1>28, <1>29, <1>30, <1>31, <1>32, <1>33, <1>34, <1>35, <1>36
  DEF Next, Host, AcceptThread, Worker, WorkerMoves, Caller, Owner, OwnerInStop

(* A descriptor in use by a thread stays its own through every step.            *)
LEMMA FdStep == Inv /\ [Next]_vars => FdInv'
<1> SUFFICES ASSUME Inv, [Next]_vars PROVE FdInv'
  OBVIOUS
<1> USE HolderFacts DEF Inv, TypeOK, FdInv, HasClient, HasUp, OpenFd, CloseFd,
              fdVars, acceptVars, workerVars, slotVars, ownerVars, pinVars,
              WorkerStays, CallerStays, OwnerStays
<1>1. ASSUME NEW f \in FDs, ForeignOpen(f) PROVE FdInv'
  BY <1>1 DEF ForeignOpen
<1>2. ASSUME NEW f \in FDs, ForeignClose(f) PROVE FdInv'
  BY <1>2 DEF ForeignClose
<1>3. CASE LoopTop
  BY <1>3 DEF LoopTop
<1>4. CASE PollAgain
  BY <1>4 DEF PollAgain
<1>5. ASSUME NEW f \in FDs, Accept(f) PROVE FdInv'
  BY <1>5 DEF Accept
<1>6. CASE Reject
  BY <1>6 DEF Reject
<1>7. ASSUME NEW w \in Workers, Register(w) PROVE FdInv'
  BY <1>7 DEF Register, RegInv
<1>8. CASE Spawn
  BY <1>8 DEF Spawn, RegInv
<1>9. CASE SpawnFails
  BY <1>9 DEF SpawnFails, RegInv
<1>10. CASE AcceptClose
  BY <1>10 DEF AcceptClose
<1>11. ASSUME NEW w \in Workers, ReadHead(w) PROVE FdInv'
  BY <1>11 DEF ReadHead
<1>12. ASSUME NEW w \in Workers, IoDone(w) PROVE FdInv'
  BY <1>12 DEF IoDone
<1>13. ASSUME NEW w \in Workers, NEW f \in FDs, Dial(w, f) PROVE FdInv'
  BY <1>13 DEF Dial
<1>14. ASSUME NEW w \in Workers, NoMoreNodes(w) PROVE FdInv'
  BY <1>14 DEF NoMoreNodes
<1>15. ASSUME NEW w \in Workers, DialDone(w) PROVE FdInv'
  BY <1>15 DEF DialDone
<1>16. ASSUME NEW w \in Workers, DialFails(w) PROVE FdInv'
  BY <1>16 DEF DialFails
<1>17. ASSUME NEW w \in Workers, Track(w) PROVE FdInv'
  BY <1>17 DEF Track
<1>18. ASSUME NEW w \in Workers, TrackRefused(w) PROVE FdInv'
  BY <1>18 DEF TrackRefused
<1>19. ASSUME NEW w \in Workers, CloseUpstream(w) PROVE FdInv'
  BY <1>19 DEF CloseUpstream
<1>20. ASSUME NEW w \in Workers, CloseClient(w) PROVE FdInv'
  BY <1>20 DEF CloseClient
<1>21. ASSUME NEW w \in Workers, Unregister(w) PROVE FdInv'
  BY <1>21 DEF Unregister
<1>22. ASSUME NEW p \in Outside \cup GuidFetchers, Retain(p) PROVE FdInv'
  BY <1>22 DEF Retain
<1>23. ASSUME NEW p \in Outside \cup GuidFetchers, Release(p) PROVE FdInv'
  BY <1>23 DEF Release
<1>24. ASSUME NEW p \in Outside \cup GuidFetchers, FetchGuidUnpublished(p) PROVE FdInv'
  BY <1>24 DEF FetchGuidUnpublished
<1>25. ASSUME NEW p \in Outside \cup GuidFetchers, FetchGuidGivesUp(p) PROVE FdInv'
  BY <1>25 DEF FetchGuidGivesUp
<1>26. CASE StartListening
  BY <1>26 DEF StartListening
<1>27. CASE StartAccepting
  BY <1>27 DEF StartAccepting
<1>28. CASE Attach
  BY <1>28 DEF Attach
<1>29. CASE Detach
  BY <1>29 DEF Detach
<1>30. CASE ShutdownClients
  BY <1>30 DEF ShutdownClients
<1>31. CASE Stop
  BY <1>31 DEF Stop
<1>32. CASE Join
  BY <1>32 DEF Join
<1>33. CASE Sweep
  BY <1>33 DEF Sweep
<1>34. CASE WaitDrained
  BY <1>34 DEF WaitDrained
<1>35. CASE WaitExpires
  BY <1>35 DEF WaitExpires
<1>36. CASE UNCHANGED vars
  BY <1>36 DEF vars
<1>. QED
  BY <1>1, <1>2, <1>3, <1>4, <1>5, <1>6, <1>7, <1>8, <1>9,
     <1>10, <1>11, <1>12, <1>13, <1>14, <1>15, <1>16, <1>17, <1>18,
     <1>19, <1>20, <1>21, <1>22, <1>23, <1>24, <1>25, <1>26, <1>27,
     <1>28, <1>29, <1>30, <1>31, <1>32, <1>33, <1>34, <1>35, <1>36
  DEF Next, Host, AcceptThread, Worker, WorkerMoves, Caller, Owner, OwnerInStop

(* The owner stops, sweeps and frees in order.                               *)
LEMMA StopStep == Inv /\ [Next]_vars => StopInv'
<1> SUFFICES ASSUME Inv, [Next]_vars PROVE StopInv'
  OBVIOUS
<1> USE DEF Inv, TypeOK, StopInv, RegInv,
              fdVars, acceptVars, workerVars, slotVars, ownerVars, pinVars,
              WorkerStays, CallerStays, OwnerStays
<1>1. ASSUME NEW f \in FDs, ForeignOpen(f) PROVE StopInv'
  BY <1>1 DEF ForeignOpen
<1>2. ASSUME NEW f \in FDs, ForeignClose(f) PROVE StopInv'
  BY <1>2 DEF ForeignClose
<1>3. CASE LoopTop
  BY <1>3 DEF LoopTop
<1>4. CASE PollAgain
  BY <1>4 DEF PollAgain
<1>5. ASSUME NEW f \in FDs, Accept(f) PROVE StopInv'
  BY <1>5 DEF Accept
<1>6. CASE Reject
  BY <1>6 DEF Reject
<1>7. ASSUME NEW w \in Workers, Register(w) PROVE StopInv'
  BY <1>7 DEF Register
<1>8. CASE Spawn
  BY <1>8 DEF Spawn
<1>9. CASE SpawnFails
  BY <1>9 DEF SpawnFails
<1>10. CASE AcceptClose
  BY <1>10 DEF AcceptClose
<1>11. ASSUME NEW w \in Workers, ReadHead(w) PROVE StopInv'
  BY <1>11 DEF ReadHead
<1>12. ASSUME NEW w \in Workers, IoDone(w) PROVE StopInv'
  BY <1>12 DEF IoDone
<1>13. ASSUME NEW w \in Workers, NEW f \in FDs, Dial(w, f) PROVE StopInv'
  BY <1>13 DEF Dial
<1>14. ASSUME NEW w \in Workers, NoMoreNodes(w) PROVE StopInv'
  BY <1>14 DEF NoMoreNodes
<1>15. ASSUME NEW w \in Workers, DialDone(w) PROVE StopInv'
  BY <1>15 DEF DialDone
<1>16. ASSUME NEW w \in Workers, DialFails(w) PROVE StopInv'
  BY <1>16 DEF DialFails
<1>17. ASSUME NEW w \in Workers, Track(w) PROVE StopInv'
  BY <1>17 DEF Track
<1>18. ASSUME NEW w \in Workers, TrackRefused(w) PROVE StopInv'
  BY <1>18 DEF TrackRefused
<1>19. ASSUME NEW w \in Workers, CloseUpstream(w) PROVE StopInv'
  BY <1>19 DEF CloseUpstream
<1>20. ASSUME NEW w \in Workers, CloseClient(w) PROVE StopInv'
  BY <1>20 DEF CloseClient
<1>21. ASSUME NEW w \in Workers, Unregister(w) PROVE StopInv'
  BY <1>21 DEF Unregister
<1>22. ASSUME NEW p \in Outside \cup GuidFetchers, Retain(p) PROVE StopInv'
  BY <1>22 DEF Retain
<1>23. ASSUME NEW p \in Outside \cup GuidFetchers, Release(p) PROVE StopInv'
  BY <1>23 DEF Release
<1>24. ASSUME NEW p \in Outside \cup GuidFetchers, FetchGuidUnpublished(p) PROVE StopInv'
  BY <1>24 DEF FetchGuidUnpublished
<1>25. ASSUME NEW p \in Outside \cup GuidFetchers, FetchGuidGivesUp(p) PROVE StopInv'
  BY <1>25 DEF FetchGuidGivesUp
<1>26. CASE StartListening
  BY <1>26 DEF StartListening
<1>27. CASE StartAccepting
  BY <1>27 DEF StartAccepting
<1>28. CASE Attach
  BY <1>28 DEF Attach
<1>29. CASE Detach
  BY <1>29 DEF Detach
<1>30. CASE ShutdownClients
  BY <1>30 DEF ShutdownClients
<1>31. CASE Stop
  BY <1>31 DEF Stop
<1>32. CASE Join
  BY <1>32 DEF Join
<1>33. CASE Sweep
  BY <1>33 DEF Sweep
<1>34. CASE WaitDrained
  <2>1. own = "wait" /\ clientFds = {}
    BY <1>34, FS_EmptySet, FS_Subset, WorkersAssumption DEF WaitDrained, Drained
  <2>. QED
    BY <1>34, <2>1 DEF WaitDrained
<1>35. CASE WaitExpires
  BY <1>35 DEF WaitExpires
<1>36. CASE UNCHANGED vars
  BY <1>36 DEF vars
<1>. QED
  BY <1>1, <1>2, <1>3, <1>4, <1>5, <1>6, <1>7, <1>8, <1>9,
     <1>10, <1>11, <1>12, <1>13, <1>14, <1>15, <1>16, <1>17, <1>18,
     <1>19, <1>20, <1>21, <1>22, <1>23, <1>24, <1>25, <1>26, <1>27,
     <1>28, <1>29, <1>30, <1>31, <1>32, <1>33, <1>34, <1>35, <1>36
  DEF Next, Host, AcceptThread, Worker, WorkerMoves, Caller, Owner, OwnerInStop

(* No worker is left blocked behind the sweep by any step.                   *)
LEMMA BlockStep == Inv /\ [Next]_vars => NobodyLeftBlocked'
<1> SUFFICES ASSUME Inv, [Next]_vars PROVE NobodyLeftBlocked'
  OBVIOUS
<1> USE HolderFacts DEF Inv, TypeOK, NobodyLeftBlocked, AfterSweep, OpenFd, CloseFd,
              fdVars, acceptVars, workerVars, slotVars, ownerVars, pinVars,
              WorkerStays, CallerStays, OwnerStays
<1>1. ASSUME NEW f \in FDs, ForeignOpen(f) PROVE NobodyLeftBlocked'
  BY <1>1 DEF ForeignOpen
<1>2. ASSUME NEW f \in FDs, ForeignClose(f) PROVE NobodyLeftBlocked'
  BY <1>2 DEF ForeignClose, FdInv, HasClient, HasUp
<1>3. CASE LoopTop
  BY <1>3 DEF LoopTop
<1>4. CASE PollAgain
  BY <1>4 DEF PollAgain
<1>5. ASSUME NEW f \in FDs, Accept(f) PROVE NobodyLeftBlocked'
  BY <1>5 DEF Accept
<1>6. CASE Reject
  BY <1>6 DEF Reject
<1>7. ASSUME NEW w \in Workers, Register(w) PROVE NobodyLeftBlocked'
  BY <1>7 DEF Register, RegInv
<1>8. CASE Spawn
  BY <1>8 DEF Spawn, StopInv
<1>9. CASE SpawnFails
  BY <1>9 DEF SpawnFails, StopInv
<1>10. CASE AcceptClose
  BY <1>10 DEF AcceptClose, FdInv, HasClient, HasUp, StopInv
<1>11. ASSUME NEW w \in Workers, ReadHead(w) PROVE NobodyLeftBlocked'
  BY <1>11 DEF ReadHead
<1>12. ASSUME NEW w \in Workers, IoDone(w) PROVE NobodyLeftBlocked'
  BY <1>12 DEF IoDone
<1>13. ASSUME NEW w \in Workers, NEW f \in FDs, Dial(w, f) PROVE NobodyLeftBlocked'
  BY <1>13 DEF Dial
<1>14. ASSUME NEW w \in Workers, NoMoreNodes(w) PROVE NobodyLeftBlocked'
  BY <1>14 DEF NoMoreNodes
<1>15. ASSUME NEW w \in Workers, DialDone(w) PROVE NobodyLeftBlocked'
  BY <1>15 DEF DialDone
<1>16. ASSUME NEW w \in Workers, DialFails(w) PROVE NobodyLeftBlocked'
  BY <1>16 DEF DialFails, FdInv, HasClient, HasUp
<1>17. ASSUME NEW w \in Workers, Track(w) PROVE NobodyLeftBlocked'
  BY <1>17 DEF Track, MayTrack, StopInv
<1>18. ASSUME NEW w \in Workers, TrackRefused(w) PROVE NobodyLeftBlocked'
  BY <1>18 DEF TrackRefused, FdInv, HasClient, HasUp
<1>19. ASSUME NEW w \in Workers, CloseUpstream(w) PROVE NobodyLeftBlocked'
  BY <1>19 DEF CloseUpstream, FdInv, HasClient, HasUp
<1>20. ASSUME NEW w \in Workers, CloseClient(w) PROVE NobodyLeftBlocked'
  BY <1>20 DEF CloseClient, FdInv, HasClient, HasUp
<1>21. ASSUME NEW w \in Workers, Unregister(w) PROVE NobodyLeftBlocked'
  BY <1>21 DEF Unregister, RegInv
<1>22. ASSUME NEW p \in Outside \cup GuidFetchers, Retain(p) PROVE NobodyLeftBlocked'
  BY <1>22 DEF Retain
<1>23. ASSUME NEW p \in Outside \cup GuidFetchers, Release(p) PROVE NobodyLeftBlocked'
  BY <1>23 DEF Release
<1>24. ASSUME NEW p \in Outside \cup GuidFetchers, FetchGuidUnpublished(p) PROVE NobodyLeftBlocked'
  BY <1>24 DEF FetchGuidUnpublished
<1>25. ASSUME NEW p \in Outside \cup GuidFetchers, FetchGuidGivesUp(p) PROVE NobodyLeftBlocked'
  BY <1>25 DEF FetchGuidGivesUp
<1>26. CASE StartListening
  BY <1>26 DEF StartListening
<1>27. CASE StartAccepting
  BY <1>27 DEF StartAccepting
<1>28. CASE Attach
  BY <1>28 DEF Attach
<1>29. CASE Detach
  BY <1>29 DEF Detach
<1>30. CASE ShutdownClients
  BY <1>30 DEF ShutdownClients
<1>31. CASE Stop
  BY <1>31 DEF Stop, StopInv, RegInv
<1>32. CASE Join
  BY <1>32 DEF Join
<1>33. CASE Sweep
  BY <1>33 DEF Sweep, FdInv, HasClient, HasUp, RegInv, StopInv, Swept
<1>34. CASE WaitDrained
  BY <1>34 DEF WaitDrained
<1>35. CASE WaitExpires
  BY <1>35 DEF WaitExpires
<1>36. CASE UNCHANGED vars
  BY <1>36 DEF vars
<1>. QED
  BY <1>1, <1>2, <1>3, <1>4, <1>5, <1>6, <1>7, <1>8, <1>9,
     <1>10, <1>11, <1>12, <1>13, <1>14, <1>15, <1>16, <1>17, <1>18,
     <1>19, <1>20, <1>21, <1>22, <1>23, <1>24, <1>25, <1>26, <1>27,
     <1>28, <1>29, <1>30, <1>31, <1>32, <1>33, <1>34, <1>35, <1>36
  DEF Next, Host, AcceptThread, Worker, WorkerMoves, Caller, Owner, OwnerInStop

(* The registries and the slot count follow the workers through every step.   *)
LEMMA RegStep == Inv /\ [Next]_vars => RegInv'
<1> SUFFICES ASSUME Inv, [Next]_vars PROVE RegInv'
  OBVIOUS
<1> USE NoWorkerAssumption DEF Inv, TypeOK, RegInv,
              fdVars, acceptVars, workerVars, slotVars, ownerVars, pinVars,
              WorkerStays, CallerStays, OwnerStays
<1>1. ASSUME NEW f \in FDs, ForeignOpen(f) PROVE RegInv'
  BY <1>1 DEF ForeignOpen
<1>2. ASSUME NEW f \in FDs, ForeignClose(f) PROVE RegInv'
  BY <1>2 DEF ForeignClose
<1>3. CASE LoopTop
  BY <1>3 DEF LoopTop
<1>4. CASE PollAgain
  BY <1>4 DEF PollAgain
<1>5. ASSUME NEW f \in FDs, Accept(f) PROVE RegInv'
  BY <1>5 DEF Accept
<1>6. CASE Reject
  BY <1>6 DEF Reject
<1>7. ASSUME NEW w \in Workers, Register(w) PROVE RegInv'
  <2>1. w \notin clientFds /\ accWorker = NoWorker
    BY <1>7 DEF Register
  <2>2. IsFiniteSet(clientFds)
    BY FS_Subset, WorkersAssumption
  <2>3. Cardinality(clientFds') = Cardinality(clientFds) + 1
    BY <1>7, <2>1, <2>2, FS_AddElement DEF Register
  <2>4. activeClients' = Cardinality(clientFds') /\ activeClients' <= MaxClients
    BY <1>7, <2>3, MaxClientsAssumption DEF Register, OverLimit
  <2>5. clientFds' = {v \in Workers : pc'[v] # "idle"} \cup ({accWorker'} \ {NoWorker})
    BY <1>7, <2>1 DEF Register
  <2>6. upstreamFds' = {v \in Workers : pc'[v] \in {"io", "hangup"}}
    BY <1>7 DEF Register
  <2>7. accPc' = "spawn" /\ accWorker' \in Workers /\ pc'[accWorker'] = "idle"
          /\ clientFd'[accWorker'] = accFd'
    BY <1>7 DEF Register
  <2>. QED
    BY <2>4, <2>5, <2>6, <2>7
<1>8. CASE Spawn
  BY <1>8 DEF Spawn
<1>9. CASE SpawnFails
  <2>1. accWorker \in clientFds /\ accWorker \in Workers /\ pc[accWorker] = "idle"
    BY <1>9 DEF SpawnFails
  <2>2. IsFiniteSet(clientFds)
    BY FS_Subset, WorkersAssumption
  <2>3. Cardinality(clientFds') = Cardinality(clientFds) - 1
    BY <1>9, <2>1, <2>2, FS_RemoveElement DEF SpawnFails
  <2>4. activeClients' = Cardinality(clientFds') /\ activeClients' <= MaxClients
    BY <1>9, <2>3, MaxClientsAssumption DEF SpawnFails
  <2>5. clientFds' = {v \in Workers : pc'[v] # "idle"} \cup ({accWorker'} \ {NoWorker})
    BY <1>9, <2>1 DEF SpawnFails
  <2>. QED
    BY <1>9, <2>4, <2>5 DEF SpawnFails
<1>10. CASE AcceptClose
  BY <1>10 DEF AcceptClose
<1>11. ASSUME NEW w \in Workers, ReadHead(w) PROVE RegInv'
  BY <1>11 DEF ReadHead
<1>12. ASSUME NEW w \in Workers, IoDone(w) PROVE RegInv'
  BY <1>12 DEF IoDone
<1>13. ASSUME NEW w \in Workers, NEW f \in FDs, Dial(w, f) PROVE RegInv'
  BY <1>13 DEF Dial
<1>14. ASSUME NEW w \in Workers, NoMoreNodes(w) PROVE RegInv'
  BY <1>14 DEF NoMoreNodes
<1>15. ASSUME NEW w \in Workers, DialDone(w) PROVE RegInv'
  BY <1>15 DEF DialDone
<1>16. ASSUME NEW w \in Workers, DialFails(w) PROVE RegInv'
  BY <1>16 DEF DialFails
<1>17. ASSUME NEW w \in Workers, Track(w) PROVE RegInv'
  BY <1>17 DEF Track
<1>18. ASSUME NEW w \in Workers, TrackRefused(w) PROVE RegInv'
  BY <1>18 DEF TrackRefused
<1>19. ASSUME NEW w \in Workers, CloseUpstream(w) PROVE RegInv'
  BY <1>19 DEF CloseUpstream
<1>20. ASSUME NEW w \in Workers, CloseClient(w) PROVE RegInv'
  BY <1>20 DEF CloseClient
<1>21. ASSUME NEW w \in Workers, Unregister(w) PROVE RegInv'
  <2>1. w \in clientFds /\ w # accWorker
    BY <1>21 DEF Unregister
  <2>2. IsFiniteSet(clientFds)
    BY FS_Subset, WorkersAssumption
  <2>3. Cardinality(clientFds') = Cardinality(clientFds) - 1
    <3>1. clientFds' = clientFds \ {w}
      BY <1>21 DEF Unregister
    <3>2. Cardinality(clientFds \ {w}) = Cardinality(clientFds) - 1
      BY <2>1, <2>2, OneFewer
    <3>. QED
      BY <3>1, <3>2
  <2>4. Cardinality(clientFds') \in Nat
    <3>1. clientFds' \subseteq Workers
      BY <1>21 DEF Unregister
    <3>. QED
      BY <3>1, FS_Subset, FS_CardinalityType, WorkersAssumption
  <2>5. activeClients' = Cardinality(clientFds') /\ activeClients' <= MaxClients
    BY <1>21, <2>3, <2>4, MaxClientsAssumption DEF Unregister
  <2>6. clientFds' = {v \in Workers : pc'[v] # "idle"} \cup ({accWorker'} \ {NoWorker})
    BY <1>21, <2>1 DEF Unregister
  <2>. QED
    BY <1>21, <2>1, <2>5, <2>6 DEF Unregister
<1>22. ASSUME NEW p \in Outside \cup GuidFetchers, Retain(p) PROVE RegInv'
  BY <1>22 DEF Retain
<1>23. ASSUME NEW p \in Outside \cup GuidFetchers, Release(p) PROVE RegInv'
  BY <1>23 DEF Release
<1>24. ASSUME NEW p \in Outside \cup GuidFetchers, FetchGuidUnpublished(p) PROVE RegInv'
  BY <1>24 DEF FetchGuidUnpublished
<1>25. ASSUME NEW p \in Outside \cup GuidFetchers, FetchGuidGivesUp(p) PROVE RegInv'
  BY <1>25 DEF FetchGuidGivesUp
<1>26. CASE StartListening
  BY <1>26 DEF StartListening
<1>27. CASE StartAccepting
  BY <1>27 DEF StartAccepting, StopInv
<1>28. CASE Attach
  BY <1>28 DEF Attach
<1>29. CASE Detach
  BY <1>29 DEF Detach
<1>30. CASE ShutdownClients
  BY <1>30 DEF ShutdownClients
<1>31. CASE Stop
  BY <1>31 DEF Stop
<1>32. CASE Join
  BY <1>32 DEF Join
<1>33. CASE Sweep
  BY <1>33 DEF Sweep
<1>34. CASE WaitDrained
  BY <1>34 DEF WaitDrained
<1>35. CASE WaitExpires
  BY <1>35 DEF WaitExpires
<1>36. CASE UNCHANGED vars
  BY <1>36 DEF vars
<1>. QED
  BY <1>1, <1>2, <1>3, <1>4, <1>5, <1>6, <1>7, <1>8, <1>9,
     <1>10, <1>11, <1>12, <1>13, <1>14, <1>15, <1>16, <1>17, <1>18,
     <1>19, <1>20, <1>21, <1>22, <1>23, <1>24, <1>25, <1>26, <1>27,
     <1>28, <1>29, <1>30, <1>31, <1>32, <1>33, <1>34, <1>35, <1>36
  DEF Next, Host, AcceptThread, Worker, WorkerMoves, Caller, Owner, OwnerInStop


(* The initial state satisfies the invariant.                               *)
LEMMA InitInv == Init => Inv
<1> SUFFICES ASSUME Init PROVE Inv
  OBVIOUS
<1>1. TypeOK
  <2>1. owner \in [FDs -> Holders] /\ tries \in [Workers -> 0 .. MaxTries]
    BY MaxTriesAssumption, HolderFacts DEF Init
  <2>2. /\ pc \in [Workers -> Pcs]
        /\ clientFd \in [Workers -> FDs \cup {NoFd}]
        /\ upFd \in [Workers -> FDs \cup {NoFd}]
    BY DEF Init, Pcs
  <2>3. callerPc \in [Outside \cup GuidFetchers -> {"out", "pinned", "unpublished"}]
    BY DEF Init
  <2>. QED
    BY <2>1, <2>2, <2>3 DEF Init, TypeOK, AccPcs, Owns
<1>2. FdInv
  BY DEF Init, FdInv, HasClient, HasUp
<1>3. RegInv
  BY FS_EmptySet, MaxClientsAssumption DEF Init, RegInv
<1>4. StopInv /\ NobodyLeftBlocked
  BY DEF Init, StopInv, NobodyLeftBlocked, AfterSweep
<1>. QED
  BY <1>1, <1>2, <1>3, <1>4 DEF Inv

(* The inductive invariant: what every reachable state of the forwarder     *)
(* satisfies, whatever the number of workers and descriptors.               *)
THEOREM InvCorrect == Spec => []Inv
<1>1. Inv /\ [Next]_vars => Inv'
  BY TypeStep, FdStep, StopStep, BlockStep, RegStep DEF Inv
<1>. QED
  BY InitInv, <1>1, PTL DEF Spec

(* Every variable keeps its type.                                           *)
THEOREM TypeCorrect == Spec => []TypeOK
<1>1. Inv => TypeOK
  BY DEF Inv
<1>. QED
  BY InvCorrect, <1>1, PTL

(* active_clients, client_fds and the worker threads agree, and never pass  *)
(* KP_FORWARDER_MAX_CLIENTS, through every failure path of kp_forwarder_run. *)
THEOREM SlotsCorrect == Spec => []SlotsMatchWorkers
<1>1. Inv => SlotsMatchWorkers
  BY DEF Inv, RegInv, SlotsMatchWorkers
<1>. QED
  BY InvCorrect, <1>1, PTL

(* An entry of upstream_fds always names the open descriptor of the worker  *)
(* that registered it, so the sweeps wake nobody else's socket through it.  *)
THEOREM UpstreamRegistryCorrect == Spec => []UpstreamRegistryOwned
<1>1. Inv => UpstreamRegistryOwned
  BY DEF Inv, FdInv, RegInv, HasUp, UpstreamRegistryOwned
<1>. QED
  BY InvCorrect, <1>1, PTL

(* After the sweep of kp_forwarder_stop nobody waits on a descriptor that   *)
(* has not been shut down.                                                  *)
THEOREM NobodyLeftBlockedCorrect == Spec => []NobodyLeftBlocked
<1>1. Inv => NobodyLeftBlocked
  BY DEF Inv
<1>. QED
  BY InvCorrect, <1>1, PTL

(* kp_forwarder_free frees only what no thread of the forwarder can reach.  *)
THEOREM FreedUnusedCorrect == Spec => []FreedUnused
<1>1. Inv => FreedUnused
  BY DEF Inv, StopInv, RegInv, FreedUnused
<1>. QED
  BY InvCorrect, <1>1, PTL

(* kp_up_open never refuses a connection of a running forwarder for want of *)
(* room: upstream_fds holds at most one entry for each other client.        *)
THEOREM UpstreamRoomCorrect == Spec => []UpstreamRoom
<1>1. Inv => UpstreamRoom
  <2> SUFFICES ASSUME Inv, NEW w \in Workers, pc[w] = "track"
               PROVE  Cardinality(upstreamFds) < MaxClients
    BY DEF UpstreamRoom
  <2>1. w \in clientFds /\ upstreamFds \subseteq clientFds \ {w} /\ IsFiniteSet(clientFds)
    BY FS_Subset, WorkersAssumption DEF Inv, TypeOK, RegInv
  <2>2. Cardinality(clientFds \ {w}) = Cardinality(clientFds) - 1 /\ IsFiniteSet(clientFds \ {w})
    BY <2>1, FS_RemoveElement
  <2>3. Cardinality(upstreamFds) <= Cardinality(clientFds \ {w})
        /\ Cardinality(upstreamFds) \in Nat /\ Cardinality(clientFds) \in Nat
    BY <2>1, <2>2, FS_Subset, FS_CardinalityType
  <2>. QED
    BY <2>2, <2>3, MaxClientsAssumption DEF Inv, RegInv
<1>. QED
  BY InvCorrect, <1>1, PTL

(* Nothing enters a registry behind the sweep of kp_forwarder_stop.         *)
THEOREM NoLateRegistrationCorrect == Spec => NoLateRegistration
<1>1. ASSUME Inv, [Next]_vars, AfterSweep
      PROVE  clientFds' \subseteq clientFds /\ upstreamFds' \subseteq upstreamFds
  <2> USE <1>1 DEF fdVars, acceptVars, workerVars, slotVars, ownerVars, pinVars,
                   WorkerStays, CallerStays, OwnerStays
  <2>1. ~running /\ accPc = "none"
    BY DEF Inv, StopInv, AfterSweep
  <2>2. CASE Host
    BY <2>2 DEF Host, ForeignOpen, ForeignClose
  <2>3. CASE AcceptThread
    BY <2>1, <2>3 DEF AcceptThread, LoopTop, PollAgain, Accept, Reject, Register,
                      Spawn, SpawnFails, AcceptClose
  <2>4. ASSUME NEW w \in Workers, Worker(w)
        PROVE  clientFds' \subseteq clientFds /\ upstreamFds' \subseteq upstreamFds
    BY <2>1, <2>4 DEF Worker, WorkerMoves, ReadHead, IoDone, Dial, NoMoreNodes, DialDone,
                      DialFails, Track, MayTrack, TrackRefused, CloseUpstream, CloseClient,
                      Unregister
  <2>5. ASSUME NEW p \in Outside \cup GuidFetchers, Caller(p)
        PROVE  clientFds' \subseteq clientFds /\ upstreamFds' \subseteq upstreamFds
    BY <2>5 DEF Caller, Retain, Release, FetchGuidUnpublished, FetchGuidGivesUp
  <2>6. CASE Owner
    BY <2>6 DEF Owner, OwnerInStop, StartListening, StartAccepting, Attach, Detach,
                ShutdownClients, Stop, Join, Sweep, WaitDrained, WaitExpires
  <2>7. CASE UNCHANGED vars
    BY <2>7 DEF vars
  <2>. QED
    BY <2>2, <2>3, <2>4, <2>5, <2>6, <2>7 DEF Next
<1>. QED
  BY InvCorrect, <1>1, PTL DEF Spec, NoLateRegistration

(* Every step of the forwarder is a step of the shared resource of Lifetime *)
(* or leaves it alone.                                                      *)
LEMMA LifeStep ==
  Inv /\ [Next]_vars => [Life!Next]_(Life!life)
<1> SUFFICES ASSUME Inv, [Next]_vars
             PROVE  Life!Next \/ (Phase' = Phase /\ clientFds' = clientFds)
  BY DEF Life!life
<1> USE DEF Inv, StopInv, Phase, fdVars, acceptVars, workerVars, slotVars, ownerVars, pinVars,
            WorkerStays, CallerStays, OwnerStays
<1>1. CASE Host
  BY <1>1 DEF Host, ForeignOpen, ForeignClose
<1>2. ASSUME NEW w \in Workers, Register(w)
      PROVE  Life!Enter(w)
  BY <1>2 DEF Register, OverLimit, RegInv, Life!Enter
<1>3. ASSUME SpawnFails
      PROVE  Life!Leave(accWorker) /\ accWorker \in Workers
  BY <1>3, NoWorkerAssumption DEF SpawnFails, RegInv, Life!Leave
<1>4. ASSUME NEW w \in Workers, Unregister(w)
      PROVE  Life!Leave(w)
  BY <1>4 DEF Unregister, RegInv, Life!Leave
<1>5. CASE AcceptThread
  BY <1>2, <1>3, <1>5 DEF AcceptThread, LoopTop, PollAgain, Accept, Reject, Spawn,
                          AcceptClose, Life!Next
<1>6. ASSUME NEW w \in Workers, Worker(w)
      PROVE  Life!Next \/ (Phase' = Phase /\ clientFds' = clientFds)
  BY <1>4, <1>6 DEF Worker, WorkerMoves, ReadHead, IoDone, Dial, NoMoreNodes, DialDone,
                    DialFails, Track, TrackRefused, CloseUpstream, CloseClient, Life!Next
<1>7. ASSUME NEW p \in Outside \cup GuidFetchers, Caller(p)
      PROVE  Phase' = Phase /\ clientFds' = clientFds
  BY <1>7 DEF Caller, Retain, Release, FetchGuidUnpublished, FetchGuidGivesUp
<1>8. CASE StartListening
  BY <1>8 DEF StartListening, Life!Next, Life!Open
<1>9. CASE StartAccepting
  BY <1>9 DEF StartAccepting, Life!Next, Life!Close
<1>10. CASE Stop
  BY <1>10 DEF Stop, Life!Next, Life!Close
<1>11. CASE WaitDrained
  <2>1. clientFds = {}
    BY <1>11, FS_EmptySet, FS_Subset, WorkersAssumption DEF WaitDrained, Drained, TypeOK, RegInv
  <2>. QED
    BY <1>11, <2>1 DEF WaitDrained, Life!Next, Life!Release
<1>12. CASE WaitExpires
  BY <1>12 DEF WaitExpires, Life!Next, Life!Abandon
<1>13. CASE Attach \/ Detach \/ ShutdownClients \/ Join \/ Sweep
  BY <1>13 DEF Attach, Detach, ShutdownClients, Join, Sweep
<1>14. CASE UNCHANGED vars
  BY <1>14 DEF vars
<1>. QED
  BY <1>1, <1>5, <1>6, <1>7, <1>8, <1>9, <1>10, <1>11, <1>12, <1>13, <1>14
  DEF Next, Owner, OwnerInStop

(* The threads and registries of KPKIngCore.c implement the life of a       *)
(* shared resource: nobody enters after stop, nobody is inside when it is   *)
(* freed.                                                                   *)
THEOREM ImplementsLifetime == Spec => LifetimeSpec
<1>1. Init => Life!Init
  BY DEF Init, Life!Init, Phase
<1>. QED
  BY InvCorrect, LifeStep, <1>1, PTL DEF Spec, LifetimeSpec, Life!Spec

LEMMA PinnedIsFinite == IsFiniteSet(Pinned)
<1>1. Pinned \subseteq Outside \cup GuidFetchers
  BY DEF Pinned
<1>. QED
  BY <1>1, FS_Subset, CallersAssumption

(* No step of any caller leaves a pin uncounted, except the release of a    *)
(* syncFetchGuid that gives up, which takes a pin another caller holds.     *)
LEMMA PinStep == Inv /\ PinInv /\ PinsApart /\ [Next]_vars => PinInv'
<1> SUFFICES ASSUME Inv, PinInv, PinsApart, [Next]_vars PROVE PinInv'
  OBVIOUS
<1>0. TypeOK
  BY DEF Inv
<1>1. IsFiniteSet(Pinned)
  BY PinnedIsFinite
<1>2. ASSUME NEW p \in Outside \cup GuidFetchers, Retain(p) PROVE PinInv'
  <2>1. Pinned' = Pinned \cup {p} /\ p \notin Pinned
    BY <1>0, <1>2 DEF Retain, Goes, Pinned, TypeOK
  <2>2. Cardinality(Pinned \cup {p}) = Cardinality(Pinned) + 1
    BY <1>1, <2>1, FS_AddElement
  <2>3. retained' = retained + 1 /\ own' # "freed"
    BY <1>2 DEF Retain, CallerStays, ownerVars
  <2>. QED
    BY <2>1, <2>2, <2>3 DEF PinInv
<1>3. ASSUME NEW p \in Outside \cup GuidFetchers, Release(p) PROVE PinInv'
  <2>1. Pinned' = Pinned \ {p} /\ p \in Pinned
    BY <1>0, <1>3 DEF Release, Goes, Pinned, TypeOK
  <2>2. Cardinality(Pinned \ {p}) = Cardinality(Pinned) - 1
    BY <1>1, <2>1, OneFewer
  <2>3. retained # 0
    BY <1>1, <2>1, FS_EmptySet DEF PinInv
  <2>4. retained \in Nat /\ retained' = retained - 1
    BY <1>0, <1>3, <2>3 DEF Release, DropPin, TypeOK
  <2>5. own # "freed" /\ own' = own
    BY <1>3, <2>3 DEF Release, PinInv, CallerStays, ownerVars
  <2>. QED
    BY <2>1, <2>2, <2>4, <2>5 DEF PinInv
<1>4. ASSUME NEW p \in Outside \cup GuidFetchers, FetchGuidUnpublished(p) PROVE PinInv'
  <2>1. Pinned' = Pinned
    BY <1>0, <1>4 DEF FetchGuidUnpublished, Goes, Pinned, TypeOK
  <2>2. retained' = retained /\ own' = own
    BY <1>4 DEF FetchGuidUnpublished, CallerStays, ownerVars
  <2>. QED
    BY <2>1, <2>2 DEF PinInv
<1>11. ASSUME NEW p \in Outside \cup GuidFetchers, FetchGuidGivesUp(p) PROVE PinInv'
  <2>1. callerPc[p] = "unpublished"
    BY <1>11 DEF FetchGuidGivesUp, Goes
  <2>2. Pinned = {}
    BY <2>1 DEF PinsApart, Pinned
  <2>3. retained = 0
    BY <2>2, FS_EmptySet DEF PinInv
  <2>4. retained' = 0 /\ own' = own
    BY <1>11, <2>3 DEF FetchGuidGivesUp, DropPin, CallerStays, ownerVars
  <2>5. Pinned' = {}
    BY <1>0, <1>11, <2>2 DEF FetchGuidGivesUp, Goes, Pinned, TypeOK
  <2>. QED
    BY <2>4, <2>5, FS_EmptySet DEF PinInv
<1>5. CASE UNCHANGED <<pinVars, own>>
  BY <1>5 DEF PinInv, Pinned, pinVars
<1>6. CASE Host
  BY <1>5, <1>6 DEF Host, ForeignOpen, ForeignClose, ownerVars
<1>7. CASE AcceptThread
  BY <1>5, <1>7 DEF AcceptThread, LoopTop, PollAgain, Accept, Reject, Register, Spawn,
                    SpawnFails, AcceptClose, ownerVars
<1>8. ASSUME NEW w \in Workers, Worker(w) PROVE PinInv'
  BY <1>5, <1>8 DEF Worker, WorkerMoves, ReadHead, IoDone, Dial, NoMoreNodes, DialDone,
                    DialFails, Track, TrackRefused, CloseUpstream, CloseClient, Unregister,
                    WorkerStays, ownerVars
<1>9. CASE Owner
  <2>1. CASE WaitDrained
    BY <2>1 DEF WaitDrained, Drained, OwnerStays, pinVars, PinInv, Pinned
  <2>2. CASE Owner /\ ~WaitDrained
    <3>1. UNCHANGED pinVars /\ own' # "freed"
      BY <2>2 DEF Owner, OwnerInStop, StartListening, StartAccepting, Attach, Detach,
                  ShutdownClients, Stop, Join, Sweep, WaitExpires, OwnerStays, ownerVars
    <3>. QED
      BY <3>1 DEF PinInv, Pinned, pinVars
  <2>. QED
    BY <1>9, <2>1, <2>2
<1>10. CASE UNCHANGED vars
  BY <1>5, <1>10 DEF vars, ownerVars
<1>. QED
  BY <1>2, <1>3, <1>4, <1>6, <1>7, <1>8, <1>9, <1>10, <1>11 DEF Next, Caller

(* A pinned forwarder is freed only after a syncFetchGuid has given up      *)
(* beside a pin: for any set of callers, as long as a behaviour has no such *)
(* meeting, stop's count of pins is right and a pinned forwarder stays.     *)
(* The callers of syncFetchGuid are included, those that give up too.       *)
THEOREM PinsCorrect == Spec /\ []PinsApart => []PinnedNotFreed
<1>1. Init => PinInv
  <2> SUFFICES ASSUME Init PROVE PinInv
    OBVIOUS
  <2>1. Pinned = {}
    BY DEF Init, Pinned
  <2>. QED
    BY <2>1, FS_EmptySet DEF Init, PinInv
<1>2. PinInv /\ Inv /\ PinsApart /\ [Next]_vars => PinInv'
  BY PinStep
<1>3. PinInv => PinnedNotFreed
  <2> SUFFICES ASSUME PinInv, own = "freed" PROVE Pinned = {}
    BY DEF PinnedNotFreed, Pinned
  <2>. QED
    BY PinnedIsFinite, FS_EmptySet DEF PinInv
<1>. QED
  BY InvCorrect, <1>1, <1>2, <1>3, PTL DEF Spec

(* One refresh after the other, as `refreshing` of LCProxyKing.m orders     *)
(* them, and no selfCheck beside them: nobody can give up beside a pin, so  *)
(* a forwarder that syncFetchGuid has pinned is never freed.                *)
THEOREM RefreshPinsCorrect ==
  ASSUME \A p, q \in Outside \cup GuidFetchers : p = q
  PROVE  Spec => []PinnedNotFreed
<1>1. PinsApart
  BY DEF PinsApart
<1>2. Spec => []PinsApart
  BY <1>1, PTL
<1>. QED
  BY <1>2, PinsCorrect, PTL
=============================================================================
