--------------------------- MODULE UsbLifeProofs ----------------------------
(***************************************************************************)
(* Proofs about UsbLifeCycle: its types, that the driver implements a      *)
(* shared resource which is freed only when unused, and that its static    *)
(* list of idle URBs never names an earlier connection.                    *)
(***************************************************************************)
EXTENDS UsbLifeCycle, TLAPS

Running == data \in {"setup", "loop", "pipes"}

(* How far the owner is, and the driver's resources and kill bit.          *)
OwnerInv ==
  /\ group <=> owner \in {"wait", "up", "deleting", "late"}
  /\ proc = "none" <=> owner \in {"new", "gone"}
  /\ "kill" \in bits => owner = "deleting"
  /\ owner = "deleting" => "kill" \in bits \/ proc = "ended"
  /\ owner = "freed" => proc = "ended"

(* The processing task knows of a data task that runs, and lets go of it   *)
(* only when it has ended; once told to end, it is the last.               *)
DataInv ==
  /\ Running => dataHandle
  /\ dataHandle => proc \in {"listen", "restart", "kill", "await"}
  /\ dataHandle /\ proc # "await" => Running
  /\ dataHandle /\ proc = "kill" => "kill" \in bits
  /\ "dataKill" \in bits => proc = "await" /\ Running
  /\ data = "pipes" => "dataKill" \in bits
  /\ proc = "await" =>
       /\ dataHandle /\ "kill" \in bits
       /\ "dataKill" \in bits \/ data = "ended"
  /\ data = "ended" =>
       \/ proc = "ended"
       \/ proc \in {"await", "recover", "check"} /\ "kill" \in bits

(* With a data task there is no new connection before the old one is lost. *)
PortInv ==
  /\ event = "connection" => port = "powered"
  /\ dataHandle \/ proc \in {"enqueue", "transfer", "create"} =>
       port \in {"enabled", "recovery"}

OneSession == IF data = "none" THEN session = 0 ELSE session = 1

(* A set-up under way has transfers left to do.                            *)
LeftInv == proc \in {"enqueue", "transfer"} => left > 0

IInv == TypeOK /\ OwnerInv /\ DataInv /\ PortInv /\ OneSession /\ LeftInv

-----------------------------------------------------------------------------
LEMMA Bounds ==
  ASSUME UsbLifeAssumption
  PROVE  Transfers \in Nat \ {0} /\ MaxSignals \in Nat \ {0}
         /\ MaxPlugs \in Nat \ {0}
BY DEF UsbLifeAssumption

LEMMA InitIInv == ASSUME UsbLifeAssumption, Init PROVE IInv
<1>1. TasksTyped BY DEF Init, TasksTyped, Owners, Procs
<1>2. UrbsTyped BY DEF Init, UrbsTyped
<1>3. attached \in BOOLEAN BY DEF Init
<1>4. PortTyped BY <1>3, Bounds DEF Init, PortTyped, Ports, Events
<1>5. left \in 0..Transfers BY Bounds DEF Init
<1>6. OwnerInv /\ DataInv /\ PortInv /\ OneSession /\ LeftInv
  BY DEF Init, OwnerInv, DataInv, PortInv, OneSession, LeftInv, Running
<1> QED BY <1>1, <1>2, <1>4, <1>5, <1>6 DEF IInv, TypeOK

(* Each conjunct of the invariant is kept by each action.                  *)
LEMMA TasksTypedStep ==
  ASSUME UsbLifeAssumption, TasksTyped, Next
  PROVE  TasksTyped'
<1> USE DEF TasksTyped, Owners, Procs, portSide
<1>1. CASE Install BY <1>1 DEF Install
<1>2. CASE Connected BY <1>2 DEF Connected
<1>3. CASE ConnectTimeout BY <1>3 DEF ConnectTimeout
<1>4. CASE Deleted BY <1>4 DEF Deleted
<1>5. CASE PortInit BY <1>5 DEF PortInit
<1>6. CASE PowerOn BY <1>6 DEF PowerOn, Signal
<1>7. CASE ListenNothing BY <1>7 DEF ListenNothing, Handle, Pending, tasks
<1>8. CASE ListenConnection BY <1>8 DEF ListenConnection, Connection, Pending
<1>9. CASE ListenLoss BY <1>9 DEF ListenLoss, Handle, Pending
<1>10. CASE ForceReset BY <1>10 DEF ForceReset, tasks
<1>11. CASE Enqueue BY <1>11 DEF Enqueue
<1>12. CASE Swallow BY <1>12 DEF Swallow, Handle, Pending, tasks
<1>13. CASE Transfer BY <1>13 DEF Transfer
<1>14. CASE CreateDataTask BY <1>14 DEF CreateDataTask
<1>15. CASE KillSeen BY <1>15 DEF KillSeen
<1>16. CASE KillData BY <1>16 DEF KillData
<1>17. CASE AwaitData BY <1>17 DEF AwaitData
<1>18. CASE Recover BY <1>18 DEF Recover
<1>19. CASE GoOn BY <1>19 DEF GoOn
<1>20. CASE EndProc BY <1>20 DEF EndProc, PortDeinit, Drained
<1>21. CASE SetUp BY <1>21 DEF SetUp
<1>22. CASE OutDone BY <1>22 DEF OutDone
<1>23. CASE SendNext BY <1>23 DEF SendNext
<1>24. CASE DataKilled BY <1>24 DEF DataKilled
<1>25. CASE EndData BY <1>25 DEF EndData
<1>26. CASE Plug BY <1>26 DEF Plug, Signal, tasks
<1>27. CASE Unplug BY <1>27 DEF Unplug, Lost, Signal, tasks
<1>28. CASE PortError BY <1>28 DEF PortError, Lost, Signal, tasks
<1>29. CASE ResetFails BY <1>29 DEF ResetFails, Connection, Pending
<1>30. CASE PipeFails BY <1>30 DEF PipeFails, Connection, Pending
<1>31. CASE AllocFails BY <1>31 DEF AllocFails
<1>32. CASE TransferFails BY <1>32 DEF TransferFails
<1>33. CASE ClosePipe BY <1>33 DEF ClosePipe
<1> QED BY <1>1, <1>2, <1>3, <1>4, <1>5, <1>6, <1>7, <1>8, <1>9, <1>10, <1>11,
           <1>12, <1>13, <1>14, <1>15, <1>16, <1>17, <1>18, <1>19, <1>20,
           <1>21, <1>22, <1>23, <1>24, <1>25, <1>26, <1>27, <1>28, <1>29,
           <1>30, <1>31, <1>32, <1>33 DEF Next, Owner, Processing, DataTask,
           Device

LEMMA UrbsTypedStep ==
  ASSUME UsbLifeAssumption, UrbsTyped, OneSession, Next
  PROVE  UrbsTyped'
<1> USE DEF UrbsTyped, OneSession, portSide
<1>1. CASE Install BY <1>1 DEF Install
<1>2. CASE Connected BY <1>2 DEF Connected
<1>3. CASE ConnectTimeout BY <1>3 DEF ConnectTimeout
<1>4. CASE Deleted BY <1>4 DEF Deleted
<1>5. CASE PortInit BY <1>5 DEF PortInit
<1>6. CASE PowerOn BY <1>6 DEF PowerOn, Signal
<1>7. CASE ListenNothing BY <1>7 DEF ListenNothing, Handle, Pending, tasks
<1>8. CASE ListenConnection BY <1>8 DEF ListenConnection, Connection, Pending
<1>9. CASE ListenLoss BY <1>9 DEF ListenLoss, Handle, Pending
<1>10. CASE ForceReset BY <1>10 DEF ForceReset, tasks
<1>11. CASE Enqueue BY <1>11 DEF Enqueue
<1>12. CASE Swallow BY <1>12 DEF Swallow, Handle, Pending, tasks
<1>13. CASE Transfer BY <1>13 DEF Transfer
<1>14. CASE CreateDataTask BY <1>14 DEF CreateDataTask
<1>15. CASE KillSeen BY <1>15 DEF KillSeen
<1>16. CASE KillData BY <1>16 DEF KillData
<1>17. CASE AwaitData BY <1>17 DEF AwaitData
<1>18. CASE Recover BY <1>18 DEF Recover
<1>19. CASE GoOn BY <1>19 DEF GoOn
<1>20. CASE EndProc BY <1>20 DEF EndProc, PortDeinit, Drained
<1>21. CASE SetUp BY <1>21 DEF SetUp
<1>22. CASE OutDone BY <1>22 DEF OutDone
<1>23. CASE SendNext BY <1>23 DEF SendNext
<1>24. CASE DataKilled BY <1>24 DEF DataKilled
<1>25. CASE EndData BY <1>25 DEF EndData
<1>26. CASE Plug BY <1>26 DEF Plug, Signal, tasks
<1>27. CASE Unplug BY <1>27 DEF Unplug, Lost, Signal, tasks
<1>28. CASE PortError BY <1>28 DEF PortError, Lost, Signal, tasks
<1>29. CASE ResetFails BY <1>29 DEF ResetFails, Connection, Pending
<1>30. CASE PipeFails BY <1>30 DEF PipeFails, Connection, Pending
<1>31. CASE AllocFails BY <1>31 DEF AllocFails
<1>32. CASE TransferFails BY <1>32 DEF TransferFails
<1>33. CASE ClosePipe BY <1>33 DEF ClosePipe
<1> QED BY <1>1, <1>2, <1>3, <1>4, <1>5, <1>6, <1>7, <1>8, <1>9, <1>10, <1>11,
           <1>12, <1>13, <1>14, <1>15, <1>16, <1>17, <1>18, <1>19, <1>20,
           <1>21, <1>22, <1>23, <1>24, <1>25, <1>26, <1>27, <1>28, <1>29,
           <1>30, <1>31, <1>32, <1>33 DEF Next, Owner, Processing, DataTask,
           Device

LEMMA PortTypedStep ==
  ASSUME UsbLifeAssumption, PortTyped, Next
  PROVE  PortTyped'
<1> USE Bounds DEF PortTyped, Ports, Events, portSide
<1>1. CASE Install BY <1>1 DEF Install
<1>2. CASE Connected BY <1>2 DEF Connected
<1>3. CASE ConnectTimeout BY <1>3 DEF ConnectTimeout
<1>4. CASE Deleted BY <1>4 DEF Deleted
<1>5. CASE PortInit BY <1>5 DEF PortInit
<1>6. CASE PowerOn BY <1>6 DEF PowerOn, Signal
<1>7. CASE ListenNothing BY <1>7 DEF ListenNothing, Handle, Pending, tasks
<1>8. CASE ListenConnection BY <1>8 DEF ListenConnection, Connection, Pending
<1>9. CASE ListenLoss BY <1>9 DEF ListenLoss, Handle, Pending
<1>10. CASE ForceReset BY <1>10 DEF ForceReset, tasks
<1>11. CASE Enqueue BY <1>11 DEF Enqueue
<1>12. CASE Swallow BY <1>12 DEF Swallow, Handle, Pending, tasks
<1>13. CASE Transfer BY <1>13 DEF Transfer
<1>14. CASE CreateDataTask BY <1>14 DEF CreateDataTask
<1>15. CASE KillSeen BY <1>15 DEF KillSeen
<1>16. CASE KillData BY <1>16 DEF KillData
<1>17. CASE AwaitData BY <1>17 DEF AwaitData
<1>18. CASE Recover BY <1>18 DEF Recover
<1>19. CASE GoOn BY <1>19 DEF GoOn
<1>20. CASE EndProc BY <1>20 DEF EndProc, PortDeinit, Drained
<1>21. CASE SetUp BY <1>21 DEF SetUp
<1>22. CASE OutDone BY <1>22 DEF OutDone
<1>23. CASE SendNext BY <1>23 DEF SendNext
<1>24. CASE DataKilled BY <1>24 DEF DataKilled
<1>25. CASE EndData BY <1>25 DEF EndData
<1>26. CASE Plug BY <1>26 DEF Plug, Signal, tasks
<1>27. CASE Unplug
  <2>1. attached' \in BOOLEAN BY <1>27 DEF Unplug
  <2>2. port' \in Ports /\ event' \in Events /\ signals' \in 0..MaxSignals
    BY <1>27 DEF Unplug, Lost, Signal, tasks
  <2>3. plugs' = plugs BY <1>27 DEF Unplug
  <2> QED BY <2>1, <2>2, <2>3
<1>28. CASE PortError BY <1>28 DEF PortError, Lost, Signal, tasks
<1>29. CASE ResetFails BY <1>29 DEF ResetFails, Connection, Pending
<1>30. CASE PipeFails BY <1>30 DEF PipeFails, Connection, Pending
<1>31. CASE AllocFails BY <1>31 DEF AllocFails
<1>32. CASE TransferFails BY <1>32 DEF TransferFails
<1>33. CASE ClosePipe BY <1>33 DEF ClosePipe
<1> QED BY <1>1, <1>2, <1>3, <1>4, <1>5, <1>6, <1>7, <1>8, <1>9, <1>10, <1>11,
           <1>12, <1>13, <1>14, <1>15, <1>16, <1>17, <1>18, <1>19, <1>20,
           <1>21, <1>22, <1>23, <1>24, <1>25, <1>26, <1>27, <1>28, <1>29,
           <1>30, <1>31, <1>32, <1>33 DEF Next, Owner, Processing, DataTask,
           Device

LEMMA LeftStep ==
  ASSUME UsbLifeAssumption, left \in 0..Transfers, LeftInv, Next
  PROVE  (left \in 0..Transfers /\ LeftInv)'
<1> USE Bounds DEF LeftInv, portSide
<1>1. CASE Install BY <1>1 DEF Install
<1>2. CASE Connected BY <1>2 DEF Connected
<1>3. CASE ConnectTimeout BY <1>3 DEF ConnectTimeout
<1>4. CASE Deleted BY <1>4 DEF Deleted
<1>5. CASE PortInit BY <1>5 DEF PortInit
<1>6. CASE PowerOn BY <1>6 DEF PowerOn, Signal
<1>7. CASE ListenNothing BY <1>7 DEF ListenNothing, Handle, Pending, tasks
<1>8. CASE ListenConnection BY <1>8 DEF ListenConnection, Connection, Pending
<1>9. CASE ListenLoss BY <1>9 DEF ListenLoss, Handle, Pending
<1>10. CASE ForceReset BY <1>10 DEF ForceReset, tasks
<1>11. CASE Enqueue BY <1>11 DEF Enqueue
<1>12. CASE Swallow BY <1>12 DEF Swallow, Handle, Pending, tasks
<1>13. CASE Transfer BY <1>13 DEF Transfer
<1>14. CASE CreateDataTask BY <1>14 DEF CreateDataTask
<1>15. CASE KillSeen BY <1>15 DEF KillSeen
<1>16. CASE KillData BY <1>16 DEF KillData
<1>17. CASE AwaitData BY <1>17 DEF AwaitData
<1>18. CASE Recover BY <1>18 DEF Recover
<1>19. CASE GoOn BY <1>19 DEF GoOn
<1>20. CASE EndProc BY <1>20 DEF EndProc, PortDeinit, Drained
<1>21. CASE SetUp BY <1>21 DEF SetUp
<1>22. CASE OutDone BY <1>22 DEF OutDone
<1>23. CASE SendNext BY <1>23 DEF SendNext
<1>24. CASE DataKilled BY <1>24 DEF DataKilled
<1>25. CASE EndData BY <1>25 DEF EndData
<1>26. CASE Plug BY <1>26 DEF Plug, Signal, tasks
<1>27. CASE Unplug BY <1>27 DEF Unplug, Lost, Signal, tasks
<1>28. CASE PortError BY <1>28 DEF PortError, Lost, Signal, tasks
<1>29. CASE ResetFails BY <1>29 DEF ResetFails, Connection, Pending
<1>30. CASE PipeFails BY <1>30 DEF PipeFails, Connection, Pending
<1>31. CASE AllocFails BY <1>31 DEF AllocFails
<1>32. CASE TransferFails BY <1>32 DEF TransferFails
<1>33. CASE ClosePipe BY <1>33 DEF ClosePipe
<1> QED BY <1>1, <1>2, <1>3, <1>4, <1>5, <1>6, <1>7, <1>8, <1>9, <1>10, <1>11,
           <1>12, <1>13, <1>14, <1>15, <1>16, <1>17, <1>18, <1>19, <1>20,
           <1>21, <1>22, <1>23, <1>24, <1>25, <1>26, <1>27, <1>28, <1>29,
           <1>30, <1>31, <1>32, <1>33 DEF Next, Owner, Processing, DataTask,
           Device

LEMMA OwnerStep ==
  ASSUME UsbLifeAssumption, TasksTyped, OwnerInv, Next
  PROVE  OwnerInv'
<1> USE DEF TasksTyped, OwnerInv, portSide
<1>1. CASE Install BY <1>1 DEF Install
<1>2. CASE Connected BY <1>2 DEF Connected
<1>3. CASE ConnectTimeout BY <1>3 DEF ConnectTimeout
<1>4. CASE Deleted BY <1>4 DEF Deleted
<1>5. CASE PortInit BY <1>5 DEF PortInit
<1>6. CASE PowerOn BY <1>6 DEF PowerOn, Signal
<1>7. CASE ListenNothing BY <1>7 DEF ListenNothing, Handle, Pending, tasks
<1>8. CASE ListenConnection BY <1>8 DEF ListenConnection, Connection, Pending
<1>9. CASE ListenLoss BY <1>9 DEF ListenLoss, Handle, Pending
<1>10. CASE ForceReset BY <1>10 DEF ForceReset, tasks
<1>11. CASE Enqueue BY <1>11 DEF Enqueue
<1>12. CASE Swallow BY <1>12 DEF Swallow, Handle, Pending, tasks
<1>13. CASE Transfer BY <1>13 DEF Transfer
<1>14. CASE CreateDataTask BY <1>14 DEF CreateDataTask
<1>15. CASE KillSeen BY <1>15 DEF KillSeen
<1>16. CASE KillData BY <1>16 DEF KillData
<1>17. CASE AwaitData BY <1>17 DEF AwaitData
<1>18. CASE Recover BY <1>18 DEF Recover
<1>19. CASE GoOn BY <1>19 DEF GoOn
<1>20. CASE EndProc BY <1>20 DEF EndProc, PortDeinit, Drained
<1>21. CASE SetUp BY <1>21 DEF SetUp
<1>22. CASE OutDone BY <1>22 DEF OutDone
<1>23. CASE SendNext BY <1>23 DEF SendNext
<1>24. CASE DataKilled BY <1>24 DEF DataKilled
<1>25. CASE EndData BY <1>25 DEF EndData
<1>26. CASE Plug BY <1>26 DEF Plug, Signal, tasks
<1>27. CASE Unplug BY <1>27 DEF Unplug, Lost, Signal, tasks
<1>28. CASE PortError BY <1>28 DEF PortError, Lost, Signal, tasks
<1>29. CASE ResetFails BY <1>29 DEF ResetFails, Connection, Pending
<1>30. CASE PipeFails BY <1>30 DEF PipeFails, Connection, Pending
<1>31. CASE AllocFails BY <1>31 DEF AllocFails
<1>32. CASE TransferFails BY <1>32 DEF TransferFails
<1>33. CASE ClosePipe BY <1>33 DEF ClosePipe
<1> QED BY <1>1, <1>2, <1>3, <1>4, <1>5, <1>6, <1>7, <1>8, <1>9, <1>10, <1>11,
           <1>12, <1>13, <1>14, <1>15, <1>16, <1>17, <1>18, <1>19, <1>20,
           <1>21, <1>22, <1>23, <1>24, <1>25, <1>26, <1>27, <1>28, <1>29,
           <1>30, <1>31, <1>32, <1>33 DEF Next, Owner, Processing, DataTask,
           Device

LEMMA DataStep ==
  ASSUME UsbLifeAssumption, TasksTyped, OwnerInv, DataInv, PortInv, Next
  PROVE  DataInv'
<1> USE DEF TasksTyped, OwnerInv, DataInv, Running, PortInv, portSide
<1>1. CASE Install BY <1>1 DEF Install
<1>2. CASE Connected BY <1>2 DEF Connected
<1>3. CASE ConnectTimeout BY <1>3 DEF ConnectTimeout
<1>4. CASE Deleted BY <1>4 DEF Deleted
<1>5. CASE PortInit BY <1>5 DEF PortInit
<1>6. CASE PowerOn BY <1>6 DEF PowerOn, Signal
<1>7. CASE ListenNothing BY <1>7 DEF ListenNothing, Handle, Pending, tasks
<1>8. CASE ListenConnection BY <1>8 DEF ListenConnection, Connection, Pending
<1>9. CASE ListenLoss BY <1>9 DEF ListenLoss, Handle, Pending
<1>10. CASE ForceReset BY <1>10 DEF ForceReset, tasks
<1>11. CASE Enqueue BY <1>11 DEF Enqueue
<1>12. CASE Swallow BY <1>12 DEF Swallow, Handle, Pending, tasks
<1>13. CASE Transfer BY <1>13 DEF Transfer
<1>14. CASE CreateDataTask BY <1>14 DEF CreateDataTask
<1>15. CASE KillSeen BY <1>15 DEF KillSeen
<1>16. CASE KillData BY <1>16 DEF KillData
<1>17. CASE AwaitData BY <1>17 DEF AwaitData
<1>18. CASE Recover BY <1>18 DEF Recover
<1>19. CASE GoOn BY <1>19 DEF GoOn
<1>20. CASE EndProc BY <1>20 DEF EndProc, PortDeinit, Drained
<1>21. CASE SetUp BY <1>21 DEF SetUp
<1>22. CASE OutDone BY <1>22 DEF OutDone
<1>23. CASE SendNext BY <1>23 DEF SendNext
<1>24. CASE DataKilled BY <1>24 DEF DataKilled
<1>25. CASE EndData BY <1>25 DEF EndData
<1>26. CASE Plug BY <1>26 DEF Plug, Signal, tasks
<1>27. CASE Unplug BY <1>27 DEF Unplug, Lost, Signal, tasks
<1>28. CASE PortError BY <1>28 DEF PortError, Lost, Signal, tasks
<1>29. CASE ResetFails BY <1>29 DEF ResetFails, Connection, Pending
<1>30. CASE PipeFails BY <1>30 DEF PipeFails, Connection, Pending
<1>31. CASE AllocFails BY <1>31 DEF AllocFails
<1>32. CASE TransferFails BY <1>32 DEF TransferFails
<1>33. CASE ClosePipe BY <1>33 DEF ClosePipe
<1> QED BY <1>1, <1>2, <1>3, <1>4, <1>5, <1>6, <1>7, <1>8, <1>9, <1>10, <1>11,
           <1>12, <1>13, <1>14, <1>15, <1>16, <1>17, <1>18, <1>19, <1>20,
           <1>21, <1>22, <1>23, <1>24, <1>25, <1>26, <1>27, <1>28, <1>29,
           <1>30, <1>31, <1>32, <1>33 DEF Next, Owner, Processing, DataTask,
           Device

LEMMA PortStep ==
  ASSUME UsbLifeAssumption, DataInv, PortInv, Next
  PROVE  PortInv'
<1> USE DEF DataInv, PortInv, Running, portSide
<1>1. CASE Install BY <1>1 DEF Install
<1>2. CASE Connected BY <1>2 DEF Connected
<1>3. CASE ConnectTimeout BY <1>3 DEF ConnectTimeout
<1>4. CASE Deleted BY <1>4 DEF Deleted
<1>5. CASE PortInit BY <1>5 DEF PortInit
<1>6. CASE PowerOn BY <1>6 DEF PowerOn, Signal
<1>7. CASE ListenNothing BY <1>7 DEF ListenNothing, Handle, Pending, tasks
<1>8. CASE ListenConnection BY <1>8 DEF ListenConnection, Connection, Pending
<1>9. CASE ListenLoss BY <1>9 DEF ListenLoss, Handle, Pending
<1>10. CASE ForceReset BY <1>10 DEF ForceReset, tasks
<1>11. CASE Enqueue BY <1>11 DEF Enqueue
<1>12. CASE Swallow BY <1>12 DEF Swallow, Handle, Pending, tasks
<1>13. CASE Transfer BY <1>13 DEF Transfer
<1>14. CASE CreateDataTask BY <1>14 DEF CreateDataTask
<1>15. CASE KillSeen BY <1>15 DEF KillSeen
<1>16. CASE KillData BY <1>16 DEF KillData
<1>17. CASE AwaitData BY <1>17 DEF AwaitData
<1>18. CASE Recover BY <1>18 DEF Recover
<1>19. CASE GoOn BY <1>19 DEF GoOn
<1>20. CASE EndProc BY <1>20 DEF EndProc, PortDeinit, Drained
<1>21. CASE SetUp BY <1>21 DEF SetUp
<1>22. CASE OutDone BY <1>22 DEF OutDone
<1>23. CASE SendNext BY <1>23 DEF SendNext
<1>24. CASE DataKilled BY <1>24 DEF DataKilled
<1>25. CASE EndData BY <1>25 DEF EndData
<1>26. CASE Plug BY <1>26 DEF Plug, Signal, tasks
<1>27. CASE Unplug BY <1>27 DEF Unplug, Lost, Signal, tasks
<1>28. CASE PortError BY <1>28 DEF PortError, Lost, Signal, tasks
<1>29. CASE ResetFails BY <1>29 DEF ResetFails, Connection, Pending
<1>30. CASE PipeFails BY <1>30 DEF PipeFails, Connection, Pending
<1>31. CASE AllocFails BY <1>31 DEF AllocFails
<1>32. CASE TransferFails BY <1>32 DEF TransferFails
<1>33. CASE ClosePipe BY <1>33 DEF ClosePipe
<1> QED BY <1>1, <1>2, <1>3, <1>4, <1>5, <1>6, <1>7, <1>8, <1>9, <1>10, <1>11,
           <1>12, <1>13, <1>14, <1>15, <1>16, <1>17, <1>18, <1>19, <1>20,
           <1>21, <1>22, <1>23, <1>24, <1>25, <1>26, <1>27, <1>28, <1>29,
           <1>30, <1>31, <1>32, <1>33 DEF Next, Owner, Processing, DataTask,
           Device

LEMMA SessionStep ==
  ASSUME UsbLifeAssumption, TasksTyped, DataInv, OneSession, Next
  PROVE  OneSession'
<1> USE DEF TasksTyped, DataInv, Running, OneSession, portSide
<1>1. CASE Install BY <1>1 DEF Install
<1>2. CASE Connected BY <1>2 DEF Connected
<1>3. CASE ConnectTimeout BY <1>3 DEF ConnectTimeout
<1>4. CASE Deleted BY <1>4 DEF Deleted
<1>5. CASE PortInit BY <1>5 DEF PortInit
<1>6. CASE PowerOn BY <1>6 DEF PowerOn, Signal
<1>7. CASE ListenNothing BY <1>7 DEF ListenNothing, Handle, Pending, tasks
<1>8. CASE ListenConnection BY <1>8 DEF ListenConnection, Connection, Pending
<1>9. CASE ListenLoss BY <1>9 DEF ListenLoss, Handle, Pending
<1>10. CASE ForceReset BY <1>10 DEF ForceReset, tasks
<1>11. CASE Enqueue BY <1>11 DEF Enqueue
<1>12. CASE Swallow BY <1>12 DEF Swallow, Handle, Pending, tasks
<1>13. CASE Transfer BY <1>13 DEF Transfer
<1>14. CASE CreateDataTask BY <1>14 DEF CreateDataTask
<1>15. CASE KillSeen BY <1>15 DEF KillSeen
<1>16. CASE KillData BY <1>16 DEF KillData
<1>17. CASE AwaitData BY <1>17 DEF AwaitData
<1>18. CASE Recover BY <1>18 DEF Recover
<1>19. CASE GoOn BY <1>19 DEF GoOn
<1>20. CASE EndProc BY <1>20 DEF EndProc, PortDeinit, Drained
<1>21. CASE SetUp BY <1>21 DEF SetUp
<1>22. CASE OutDone BY <1>22 DEF OutDone
<1>23. CASE SendNext BY <1>23 DEF SendNext
<1>24. CASE DataKilled BY <1>24 DEF DataKilled
<1>25. CASE EndData BY <1>25 DEF EndData
<1>26. CASE Plug BY <1>26 DEF Plug, Signal, tasks
<1>27. CASE Unplug BY <1>27 DEF Unplug, Lost, Signal, tasks
<1>28. CASE PortError BY <1>28 DEF PortError, Lost, Signal, tasks
<1>29. CASE ResetFails BY <1>29 DEF ResetFails, Connection, Pending
<1>30. CASE PipeFails BY <1>30 DEF PipeFails, Connection, Pending
<1>31. CASE AllocFails BY <1>31 DEF AllocFails
<1>32. CASE TransferFails BY <1>32 DEF TransferFails
<1>33. CASE ClosePipe BY <1>33 DEF ClosePipe
<1> QED BY <1>1, <1>2, <1>3, <1>4, <1>5, <1>6, <1>7, <1>8, <1>9, <1>10, <1>11,
           <1>12, <1>13, <1>14, <1>15, <1>16, <1>17, <1>18, <1>19, <1>20,
           <1>21, <1>22, <1>23, <1>24, <1>25, <1>26, <1>27, <1>28, <1>29,
           <1>30, <1>31, <1>32, <1>33 DEF Next, Owner, Processing, DataTask,
           Device

LEMMA StepIInv ==
  ASSUME UsbLifeAssumption, IInv, [Next]_vars PROVE IInv'
<1>1. CASE Next
  BY <1>1, TasksTypedStep, UrbsTypedStep, PortTypedStep, LeftStep,
     OwnerStep, DataStep, PortStep, SessionStep DEF IInv, TypeOK
<1>2. CASE UNCHANGED vars
  BY <1>2 DEF vars, tasks, portSide, IInv, TypeOK, TasksTyped, UrbsTyped,
     PortTyped, LeftInv, OwnerInv, DataInv, PortInv, OneSession, Running
<1> QED BY <1>1, <1>2

LEMMA Invariance == ASSUME UsbLifeAssumption PROVE Spec => []IInv
<1>1. Init => IInv BY InitIInv
<1>2. IInv /\ [Next]_vars => IInv' BY StepIInv
<1> QED BY <1>1, <1>2, PTL DEF Spec

-----------------------------------------------------------------------------
(* The variables of the driver's life keep their types: among others, the  *)
(* queue of port messages and the transfers of a set-up their bounds.      *)
THEOREM TypeCorrect == ASSUME UsbLifeAssumption PROVE Spec => []TypeOK
<1>1. IInv => TypeOK BY DEF IInv
<1> QED BY <1>1, Invariance, PTL

LEMMA UrbsOwned == ASSUME IInv PROVE IdleUrbsOwned
BY DEF IInv, TypeOK, UrbsTyped, OneSession, IdleUrbsOwned

(* The data task never finds an URB of an earlier connection in its list   *)
(* of idle ones, however often and whenever the device comes and goes.     *)
THEOREM IdleUrbsOwnedCorrect ==
  ASSUME UsbLifeAssumption PROVE Spec => []IdleUrbsOwned
<1>1. IInv => IdleUrbsOwned BY UrbsOwned
<1> QED BY <1>1, Invariance, PTL

-----------------------------------------------------------------------------
(* Every step of the driver is one of the resource's, or none.             *)
LEMMA ResourceInit == ASSUME Init PROVE R!Init
BY DEF Init, R!Init, State, Users

Unused(task) == task \in {"none", "ended"}

LEMMA SameUse ==
  ASSUME group' = group, Unused(proc)' = Unused(proc),
         Unused(data)' = Unused(data),
         (owner \in {"new", "gone"})' = (owner \in {"new", "gone"})
  PROVE  [R!Next]_R!vars
BY DEF Unused, State, Users, R!vars

LEMMA ResourceStep ==
  ASSUME IInv, [Next]_vars PROVE [R!Next]_R!vars
<1> DEFINE Kept == /\ group' = group /\ Unused(proc)' = Unused(proc)
                   /\ Unused(data)' = Unused(data)
                   /\ (owner \in {"new", "gone"})'
                        = (owner \in {"new", "gone"})
<1>0. Kept => [R!Next]_R!vars BY SameUse
<1>1. CASE Install
  <2>1. State = "none" BY <1>1 DEF Install, State, IInv, OwnerInv
  <2>2. CASE owner' = "gone"
    <3>1. Kept BY <1>1, <2>2 DEF Install, Unused
    <3> QED BY <3>1, <1>0
  <2>3. CASE owner' = "wait"
    <3>1. State' = "held" BY <1>1, <2>3 DEF Install, State
    <3>2. Users' \in SUBSET {"processing", "data"} BY DEF Users
    <3> QED BY <2>1, <3>1, <3>2 DEF R!Next, R!Acquire
  <2> QED BY <1>1, <2>2, <2>3 DEF Install
<1>2. CASE Deleted
  <2>1. Users = {} /\ State = "held"
    BY <1>2 DEF Deleted, Users, State, IInv, TypeOK, TasksTyped, Running,
       OwnerInv, DataInv
  <2>2. Users' = Users /\ State' = "freed"
    BY <1>2 DEF Deleted, Users, State
  <2> QED BY <2>1, <2>2 DEF R!Next, R!Free
<1>3. CASE PortInit
  <2>1. CASE proc' = "power"
    <3>1. Kept BY <1>3, <2>1 DEF PortInit, Unused
    <3> QED BY <3>1, <1>0
  <2>2. CASE proc' = "ended"
    <3>1. State = "held" /\ State' = State
      BY <1>3 DEF PortInit, State, IInv, OwnerInv, TypeOK, TasksTyped, Owners
    <3>2. "processing" \in Users /\ Users' = Users \ {"processing"}
      BY <1>3, <2>2 DEF PortInit, Users
    <3> QED BY <3>1, <3>2 DEF R!Next, R!Leave
  <2> QED BY <1>3, <2>1, <2>2 DEF PortInit
<1>4. CASE CreateDataTask
  <2>1. CASE proc' = "kill"
    <3>1. Kept BY <1>4, <2>1 DEF CreateDataTask, Unused
    <3> QED BY <3>1, <1>0
  <2>2. CASE data' = "setup" /\ proc' = "listen"
    <3>1. State = "held" /\ State' = State
      BY <1>4 DEF CreateDataTask, State, IInv, OwnerInv, TypeOK, TasksTyped,
         Owners
    <3>2. data = "none"
      BY <1>4 DEF CreateDataTask, IInv, TypeOK, TasksTyped, DataInv, Running
    <3>3. "data" \in {"processing", "data"} \ Users
          /\ Users' = Users \cup {"data"}
      BY <1>4, <2>2, <3>2 DEF CreateDataTask, Users
    <3> QED BY <3>1, <3>3 DEF R!Next, R!Join
  <2> QED BY <1>4, <2>1, <2>2 DEF CreateDataTask
<1>5. CASE EndData
  <2>1. State = "held" /\ State' = State
    BY <1>5 DEF EndData, State, IInv, OwnerInv, DataInv, Running, TypeOK,
       TasksTyped, Owners
  <2>2. "data" \in Users /\ Users' = Users \ {"data"}
    BY <1>5 DEF EndData, Users
  <2> QED BY <2>1, <2>2 DEF R!Next, R!Leave
<1>6. CASE EndProc
  <2>1. State = "held" /\ State' = State
    BY <1>6 DEF EndProc, State, IInv, OwnerInv, TypeOK, TasksTyped, Owners
  <2>2. "processing" \in Users /\ Users' = Users \ {"processing"}
    BY <1>6 DEF EndProc, Users
  <2> QED BY <2>1, <2>2 DEF R!Next, R!Leave
<1> USE DEF Unused, portSide
<1>7. CASE Connected BY <1>7, <1>0 DEF Connected
<1>8. CASE ConnectTimeout BY <1>8, <1>0 DEF ConnectTimeout
<1>9. CASE PowerOn BY <1>9, <1>0 DEF PowerOn
<1>10. CASE ListenNothing BY <1>10, <1>0 DEF ListenNothing, tasks
<1>11. CASE ListenConnection BY <1>11, <1>0 DEF ListenConnection, Connection
<1>12. CASE ListenLoss BY <1>12, <1>0 DEF ListenLoss
<1>13. CASE ForceReset BY <1>13, <1>0 DEF ForceReset, tasks
<1>14. CASE Enqueue BY <1>14, <1>0 DEF Enqueue
<1>15. CASE Swallow BY <1>15, <1>0 DEF Swallow, tasks
<1>16. CASE Transfer BY <1>16, <1>0 DEF Transfer
<1>17. CASE KillSeen BY <1>17, <1>0 DEF KillSeen
<1>18. CASE KillData BY <1>18, <1>0 DEF KillData
<1>19. CASE AwaitData BY <1>19, <1>0 DEF AwaitData
<1>20. CASE Recover BY <1>20, <1>0 DEF Recover
<1>21. CASE GoOn BY <1>21, <1>0 DEF GoOn
<1>22. CASE SetUp BY <1>22, <1>0 DEF SetUp
<1>23. CASE OutDone BY <1>23, <1>0 DEF OutDone
<1>24. CASE SendNext BY <1>24, <1>0 DEF SendNext
<1>25. CASE DataKilled BY <1>25, <1>0 DEF DataKilled
<1>26. CASE Plug BY <1>26, <1>0 DEF Plug, tasks
<1>27. CASE Unplug BY <1>27, <1>0 DEF Unplug, tasks
<1>28. CASE PortError BY <1>28, <1>0 DEF PortError, tasks
<1>29. CASE ResetFails BY <1>29, <1>0 DEF ResetFails, Connection
<1>30. CASE PipeFails BY <1>30, <1>0 DEF PipeFails, Connection
<1>31. CASE AllocFails BY <1>31, <1>0 DEF AllocFails
<1>32. CASE TransferFails BY <1>32, <1>0 DEF TransferFails
<1>33. CASE ClosePipe BY <1>33, <1>0 DEF ClosePipe
<1>34. CASE UNCHANGED vars BY <1>34, <1>0 DEF vars, tasks
<1> QED BY <1>1, <1>2, <1>3, <1>4, <1>5, <1>6, <1>7, <1>8, <1>9, <1>10, <1>11,
           <1>12, <1>13, <1>14, <1>15, <1>16, <1>17, <1>18, <1>19, <1>20,
           <1>21, <1>22, <1>23, <1>24, <1>25, <1>26, <1>27, <1>28, <1>29,
           <1>30, <1>31, <1>32, <1>33, <1>34 DEF Next, Owner, Processing,
           DataTask, Device

(* The driver implements a shared resource: whatever fails and whenever    *)
(* the device comes and goes, the event group, the rings and the DTE are   *)
(* freed by usbh_cdc_driver_delete only when no task is left to use them.  *)
THEOREM FreedUnusedCorrect ==
  ASSUME UsbLifeAssumption PROVE Spec => FreedUnused
<1>1. Init => R!Init BY ResourceInit
<1>2. IInv /\ [Next]_vars => [R!Next]_R!vars BY ResourceStep
<1> QED BY <1>1, <1>2, Invariance, PTL DEF Spec, FreedUnused, R!Spec
=============================================================================
