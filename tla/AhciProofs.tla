------------------------------- MODULE AhciProofs -------------------------------
(***************************************************************************)
(* Proofs about the SATA driver of Ahci.tla, for any number of ports and   *)
(* commands and every combination of faults.                               *)
(*                                                                         *)
(* None of the invariants is inductive as it stands.  What carries them:   *)
(* the lists are held exactly while a port is selected (Bound); the port a *)
(* command runs on is started, so the engine cannot stop under it, and     *)
(* only the command of the last Issue can be in the port (Engine, OwnEnd); *)
(* without hangs a call ends only when its port has nothing to do (Quiet); *)
(* and what the scan knows of the ports behind it (Scanned).               *)
(***************************************************************************)
EXTENDS Ahci, TLAPS

\* The driver's own record of its port.
Bound ==
  /\ allocated <=> port # none
  /\ allocated => mapped
  /\ pc = "stopOld" => port # none
  /\ pc = "failed" => port = none
  /\ pc = "stop" => k \in Ports
  /\ op = "identify" /\ pc \in {"issue", "poll"} => k \in Ports

\* The registers of a port.
Engine ==
  /\ \A p \in Ports : hba[p].start => hba[p].running
  /\ \A p \in Ports : hba[p].err => hba[p].current = 0
  /\ \A p \in Ports : hba[p].current # 0 /\ hba[p].moved => hba[p].current \in done
  /\ pc \in {"issue", "poll", "up"} => hba[port].start

\* While the driver polls, the command in its port is the one it issued, and PxCI
\* is set until that one's data was moved.
OwnEnd ==
  pc = "poll" =>
    /\ table = issued
    /\ hba[port].current \in {0, issued}
    /\ ~hba[port].err => hba[port].ci \/ issued \in done

\* Without hangs, a port that nobody polls has nothing to do.
Quiet ==
  "hang" \notin faults =>
    \A p \in Ports : pc # "poll" \/ p # port =>
      hba[p].current = 0 /\ (hba[p].ci => hba[p].err)

NoneBefore(n) == \A q \in Ports : q < n => attached[q] = "none"

\* With nothing failing: only a device that is no disk fails a command, and the
\* scan has passed ports without a device, up to one that it turned down.
Scanned ==
  faults = {} =>
    /\ \A p \in Ports : hba[p].err => attached[p] = "other"
    /\ pc = "scan" /\ mapped => NoneBefore(k)
    /\ pc = "scan" /\ ~mapped => \E q \in Ports : attached[q] = "other" /\ NoneBefore(q)
    /\ op = "identify" /\ pc \in {"issue", "poll"} => port = k /\ NoneBefore(k)
    /\ pc = "stop" => attached[k] = "other" /\ NoneBefore(k)

AhciInv ==
  /\ TypeOK /\ Bound /\ ListsOutliveEngine
  /\ Engine /\ OwnEnd /\ SuccessIsOwn
  /\ Quiet
  /\ Scanned /\ DiskIsFound

--------------------------------------------------------------------------------
\* Writing a field or two of a port's registers keeps their types.
LEMMA RegistersTyped ==
  ASSUME NEW h \in [Ports -> Port], NEW p \in Ports, NEW b \in BOOLEAN, NEW c \in BOOLEAN,
         NEW n \in Command
  PROVE  /\ [h EXCEPT ![p].start = b] \in [Ports -> Port]
         /\ [h EXCEPT ![p].start = b, ![p].running = c] \in [Ports -> Port]
         /\ [h EXCEPT ![p].running = b] \in [Ports -> Port]
         /\ [h EXCEPT ![p].ci = b, ![p].err = c] \in [Ports -> Port]
         /\ [h EXCEPT ![p].current = n, ![p].moved = b] \in [Ports -> Port]
         /\ [h EXCEPT ![p].moved = b] \in [Ports -> Port]
  BY DEF Port

\* At power-on every port is stopped.
LEMMA InitAhciInv == Init => AhciInv
<1> SUFFICES ASSUME Init PROVE AhciInv
  OBVIOUS
<1>1. Stopped \in Port
  BY AhciAssumption DEF Stopped, Port, Command
<1>2. TypeOK
  <2>1. 0 \in Command /\ 0 \in 0 .. LastPort + 1
    BY AhciAssumption DEF Command
  <2>2. hba \in [Ports -> Port]
    BY <1>1 DEF Init
  <2>3. QED
    BY <2>1, <2>2 DEF Init, TypeOK
<1>3. Bound /\ ListsOutliveEngine /\ Engine /\ OwnEnd /\ SuccessIsOwn /\ Quiet /\ Scanned /\ DiskIsFound
  BY DEF Init, Bound, ListsOutliveEngine, Engine, OwnEnd, SuccessIsOwn, Quiet, Scanned,
         DiskIsFound, Stopped, none
<1>4. QED
  BY <1>2, <1>3 DEF AhciInv

\* The controller takes the command from the table.
LEMMA FetchPreserves ==
  ASSUME AhciInv, NEW p \in Ports, Fetch(p)
  PROVE  AhciInv'
<1>1. hba' \in [Ports -> Port]
  BY RegistersTyped DEF AhciInv, TypeOK, Bound, none, Fetch
<1>2. TypeOK' /\ Bound' /\ ListsOutliveEngine'
  BY <1>1, AhciAssumption DEF AhciInv, driver, plugged, TypeOK, Port, Ports, none, Command,
                              Attachment, Bound, ListsOutliveEngine, Fetch
<1>3. Engine' /\ OwnEnd' /\ SuccessIsOwn'
  BY AhciAssumption DEF AhciInv, driver, plugged, TypeOK, Port, Ports, none, Bound,
                        ListsOutliveEngine, Engine, OwnEnd, SuccessIsOwn, Fetch
<1>4. Quiet'
  BY AhciAssumption DEF AhciInv, driver, plugged, TypeOK, Port, Ports, none, Quiet, OwnEnd,
                        Engine, Fetch
<1>5. Scanned' /\ DiskIsFound'
  BY AhciAssumption DEF AhciInv, driver, plugged, TypeOK, Port, Ports, none, DiskIsFound,
                        Scanned, NoneBefore, Bound, Engine, Fetch
<1>6. QED
  BY <1>2, <1>3, <1>4, <1>5 DEF AhciInv

\* A command's data is moved: it counts as done.
LEMMA MovePreserves ==
  ASSUME AhciInv, NEW p \in Ports, Move(p)
  PROVE  AhciInv'
<1>1. hba' \in [Ports -> Port]
  BY RegistersTyped DEF AhciInv, TypeOK, Bound, none, Move
<1>2. done' \subseteq Command
  BY DEF AhciInv, TypeOK, Port, Move
<1>3. TypeOK' /\ Bound' /\ ListsOutliveEngine'
  BY <1>1, <1>2, AhciAssumption DEF AhciInv, driver, plugged, TypeOK, Port, Ports, none,
                                    Command, Attachment, Bound, ListsOutliveEngine, Move
<1>4. Engine' /\ OwnEnd' /\ SuccessIsOwn'
  BY AhciAssumption DEF AhciInv, driver, plugged, TypeOK, Port, Ports, none, Bound,
                        ListsOutliveEngine, Engine, OwnEnd, SuccessIsOwn, Move
<1>5. Quiet'
  BY AhciAssumption DEF AhciInv, driver, plugged, TypeOK, Port, Ports, none, Quiet, OwnEnd,
                        Engine, Move
<1>6. Scanned' /\ DiskIsFound'
  BY AhciAssumption DEF AhciInv, driver, plugged, TypeOK, Port, Ports, none, DiskIsFound,
                        Scanned, NoneBefore, Bound, Engine, Move
<1>7. QED
  BY <1>3, <1>4, <1>5, <1>6 DEF AhciInv

\* A command whose data was moved ends; PxCI is cleared.
LEMMA CompletePreserves ==
  ASSUME AhciInv, NEW p \in Ports, Complete(p)
  PROVE  AhciInv'
<1>1. TypeOK' /\ Bound' /\ ListsOutliveEngine'
  BY AhciAssumption DEF AhciInv, driver, plugged, TypeOK, Port, Ports, none, Command,
                        Attachment, Bound, ListsOutliveEngine, Complete
<1>2. Engine' /\ OwnEnd' /\ SuccessIsOwn'
  BY AhciAssumption DEF AhciInv, driver, plugged, TypeOK, Port, Ports, none, Bound,
                        ListsOutliveEngine, Engine, OwnEnd, SuccessIsOwn, Complete
<1>3. Quiet'
  BY AhciAssumption DEF AhciInv, driver, plugged, TypeOK, Port, Ports, none, Quiet, OwnEnd,
                        Engine, Complete
<1>4. Scanned' /\ DiskIsFound'
  BY AhciAssumption DEF AhciInv, driver, plugged, TypeOK, Port, Ports, none, DiskIsFound,
                        Scanned, NoneBefore, Bound, Engine, Complete
<1>5. QED
  BY <1>1, <1>2, <1>3, <1>4 DEF AhciInv

\* The device fails a command; nothing is left in the port.
LEMMA FailPreserves ==
  ASSUME AhciInv, NEW p \in Ports, Fail(p)
  PROVE  AhciInv'
<1>1. TypeOK' /\ Bound' /\ ListsOutliveEngine'
  BY AhciAssumption DEF AhciInv, driver, plugged, TypeOK, Port, Ports, none, Command,
                        Attachment, Bound, ListsOutliveEngine, Fail
<1>2. Engine' /\ OwnEnd' /\ SuccessIsOwn'
  BY AhciAssumption DEF AhciInv, driver, plugged, TypeOK, Port, Ports, none, Bound,
                        ListsOutliveEngine, Engine, OwnEnd, SuccessIsOwn, Fail
<1>3. Quiet'
  BY AhciAssumption DEF AhciInv, driver, plugged, TypeOK, Port, Ports, none, Quiet, OwnEnd,
                        Engine, Fail
<1>4. Scanned' /\ DiskIsFound'
  BY AhciAssumption DEF AhciInv, driver, plugged, TypeOK, Port, Ports, none, DiskIsFound,
                        Scanned, NoneBefore, Bound, Engine, Fail
<1>5. QED
  BY <1>1, <1>2, <1>3, <1>4 DEF AhciInv

\* A port whose start bit is clear stops and forgets its command.
LEMMA EngineStopsPreserves ==
  ASSUME AhciInv, NEW p \in Ports, EngineStops(p)
  PROVE  AhciInv'
<1>1. TypeOK' /\ Bound' /\ ListsOutliveEngine'
  BY AhciAssumption DEF AhciInv, driver, plugged, TypeOK, Port, Ports, none, Command,
                        Attachment, Bound, ListsOutliveEngine, EngineStops, Stopped
<1>2. Engine' /\ OwnEnd' /\ SuccessIsOwn'
  BY AhciAssumption DEF AhciInv, driver, plugged, TypeOK, Port, Ports, none, Bound,
                        ListsOutliveEngine, Engine, OwnEnd, SuccessIsOwn, EngineStops,
                        Stopped
<1>3. Quiet'
  BY AhciAssumption DEF AhciInv, driver, plugged, TypeOK, Port, Ports, none, Quiet, OwnEnd,
                        Engine, EngineStops, Stopped
<1>4. Scanned' /\ DiskIsFound'
  BY AhciAssumption DEF AhciInv, driver, plugged, TypeOK, Port, Ports, none, DiskIsFound,
                        Scanned, NoneBefore, Bound, Engine, EngineStops, Stopped
<1>5. QED
  BY <1>1, <1>2, <1>3, <1>4 DEF AhciInv

\* A port of an earlier attempt is told to stop.
LEMMA StopOldPortPreserves ==
  ASSUME AhciInv, StopOldPort
  PROVE  AhciInv'
<1>1. hba' \in [Ports -> Port]
  BY RegistersTyped DEF AhciInv, TypeOK, Bound, none, StopOldPort, BeginStop
<1>2. TypeOK' /\ Bound' /\ ListsOutliveEngine'
  BY <1>1, AhciAssumption DEF AhciInv, driver, plugged, TypeOK, Port, Ports, none, Command,
                              Attachment, Bound, ListsOutliveEngine, StopOldPort, BeginStop
<1>3. Engine' /\ OwnEnd' /\ SuccessIsOwn'
  BY AhciAssumption DEF AhciInv, driver, plugged, TypeOK, Port, Ports, none, Bound,
                        ListsOutliveEngine, Engine, OwnEnd, SuccessIsOwn, StopOldPort,
                        BeginStop
<1>4. Quiet'
  BY AhciAssumption DEF AhciInv, driver, plugged, TypeOK, Port, Ports, none, Quiet, OwnEnd,
                        Engine, StopOldPort, BeginStop
<1>5. Scanned' /\ DiskIsFound'
  BY AhciAssumption DEF AhciInv, driver, plugged, TypeOK, Port, Ports, none, DiskIsFound,
                        Scanned, NoneBefore, Bound, Engine, StopOldPort, BeginStop
<1>6. QED
  BY <1>2, <1>3, <1>4, <1>5 DEF AhciInv

\* ... and is given up when it has.
LEMMA OldPortStoppedPreserves ==
  ASSUME AhciInv, OldPortStopped
  PROVE  AhciInv'
<1>1. TypeOK' /\ Bound' /\ ListsOutliveEngine'
  BY AhciAssumption DEF AhciInv, driver, plugged, TypeOK, Port, Ports, none, Command,
                        Attachment, Bound, ListsOutliveEngine, OldPortStopped, Hang,
                        PortStopped, ReleaseDmaBuffers
<1>2. Engine' /\ OwnEnd' /\ SuccessIsOwn'
  BY AhciAssumption DEF AhciInv, driver, plugged, TypeOK, Port, Ports, none, Bound,
                        ListsOutliveEngine, Engine, OwnEnd, SuccessIsOwn, OldPortStopped,
                        Hang, PortStopped, ReleaseDmaBuffers
<1>3. Quiet'
  BY AhciAssumption DEF AhciInv, driver, plugged, TypeOK, Port, Ports, none, Quiet, OwnEnd,
                        Engine, OldPortStopped, Hang, PortStopped, ReleaseDmaBuffers
<1>4. Scanned' /\ DiskIsFound'
  BY AhciAssumption DEF AhciInv, driver, plugged, TypeOK, Port, Ports, none, DiskIsFound,
                        Scanned, NoneBefore, Bound, Engine, OldPortStopped, Hang,
                        PortStopped, ReleaseDmaBuffers
<1>5. QED
  BY <1>1, <1>2, <1>3, <1>4 DEF AhciInv

\* The reset stops every port, and the scan begins.
LEMMA ResetPreserves ==
  ASSUME AhciInv, Reset
  PROVE  AhciInv'
<1>1. TypeOK' /\ Bound' /\ ListsOutliveEngine'
  BY AhciAssumption DEF AhciInv, driver, plugged, TypeOK, Port, Ports, none, Command,
                        Attachment, Bound, ListsOutliveEngine, Reset, Stopped
<1>2. Engine' /\ OwnEnd' /\ SuccessIsOwn'
  BY AhciAssumption DEF AhciInv, driver, plugged, TypeOK, Port, Ports, none, Bound,
                        ListsOutliveEngine, Engine, OwnEnd, SuccessIsOwn, Reset, Stopped
<1>3. Quiet'
  BY AhciAssumption DEF AhciInv, driver, plugged, TypeOK, Port, Ports, none, Quiet, OwnEnd,
                        Engine, Reset, Stopped
<1>4. Scanned' /\ DiskIsFound'
  BY AhciAssumption DEF AhciInv, driver, plugged, TypeOK, Port, Ports, none, DiskIsFound,
                        Scanned, NoneBefore, Bound, Engine, Reset, Stopped
<1>5. QED
  BY <1>1, <1>2, <1>3, <1>4 DEF AhciInv

\* A port without a device is passed over.
LEMMA SkipPortPreserves ==
  ASSUME AhciInv, SkipPort
  PROVE  AhciInv'
<1>1. TypeOK' /\ Bound' /\ ListsOutliveEngine'
  BY AhciAssumption DEF AhciInv, driver, plugged, TypeOK, Port, Ports, none, Command,
                        Attachment, Bound, ListsOutliveEngine, SkipPort, HasActiveLink,
                        NextPort
<1>2. Engine' /\ OwnEnd' /\ SuccessIsOwn'
  BY AhciAssumption DEF AhciInv, driver, plugged, TypeOK, Port, Ports, none, Bound,
                        ListsOutliveEngine, Engine, OwnEnd, SuccessIsOwn, SkipPort,
                        HasActiveLink, NextPort
<1>3. Quiet'
  BY AhciAssumption DEF AhciInv, driver, plugged, TypeOK, Port, Ports, none, Quiet, OwnEnd,
                        Engine, SkipPort, HasActiveLink, NextPort
<1>4. Scanned' /\ DiskIsFound'
  BY AhciAssumption DEF AhciInv, driver, plugged, TypeOK, Port, Ports, none, DiskIsFound,
                        Scanned, NoneBefore, Bound, Engine, SkipPort, HasActiveLink, NextPort
<1>5. QED
  BY <1>1, <1>2, <1>3, <1>4 DEF AhciInv

\* The scan after a rejected port.
LEMMA ScanWithoutRegistersPreserves ==
  ASSUME AhciInv, ScanWithoutRegisters
  PROVE  AhciInv'
<1>1. TypeOK' /\ Bound' /\ ListsOutliveEngine'
  BY AhciAssumption DEF AhciInv, driver, plugged, TypeOK, Port, Ports, none, Command,
                        Attachment, Bound, ListsOutliveEngine, ScanWithoutRegisters, NextPort
<1>2. Engine' /\ OwnEnd' /\ SuccessIsOwn'
  BY AhciAssumption DEF AhciInv, driver, plugged, TypeOK, Port, Ports, none, Bound,
                        ListsOutliveEngine, Engine, OwnEnd, SuccessIsOwn,
                        ScanWithoutRegisters, NextPort
<1>3. Quiet'
  BY AhciAssumption DEF AhciInv, driver, plugged, TypeOK, Port, Ports, none, Quiet, OwnEnd,
                        Engine, ScanWithoutRegisters, NextPort
<1>4. Scanned' /\ DiskIsFound'
  BY AhciAssumption DEF AhciInv, driver, plugged, TypeOK, Port, Ports, none, DiskIsFound,
                        Scanned, NoneBefore, Bound, Engine, ScanWithoutRegisters, NextPort
<1>5. QED
  BY <1>1, <1>2, <1>3, <1>4 DEF AhciInv

\* A port with a device is started, unless memory runs out.
LEMMA StartPortPreserves ==
  ASSUME AhciInv, StartPort
  PROVE  AhciInv'
<1>1. /\ k \in Ports /\ mapped /\ attached[k] # "none" /\ issued < MaxCommands
      /\ pc = "scan" /\ port = none /\ ~allocated
      /\ \A p \in Ports : ~hba[p].running
      /\ UNCHANGED <<plugged, table, done, answered>>
  BY DEF StartPort, HasActiveLink, AhciInv, TypeOK, Bound, ListsOutliveEngine, none
<1>2. ASSUME
         /\ port' = k /\ allocated' = TRUE
         /\ hba' = [hba EXCEPT ![k].start = TRUE, ![k].running = TRUE]
         /\ Begin("identify")
         /\ pc' = "issue"
         /\ UNCHANGED <<mapped, k>>
       PROVE  AhciInv'
  <2>1. hba' \in [Ports -> Port]
    BY <1>1, <1>2, RegistersTyped DEF AhciInv, TypeOK
  <2>2. TypeOK'
    BY <1>1, <1>2, <2>1, AhciAssumption DEF AhciInv, plugged, TypeOK, Port, Ports, none,
                                            Command, Attachment, Bound, Begin
  <2>3. Bound' /\ ListsOutliveEngine'
    BY <1>1, <1>2, AhciAssumption DEF AhciInv, plugged, TypeOK, Port, Ports, none, Bound,
                                      ListsOutliveEngine, Begin
  <2>4. Engine' /\ OwnEnd' /\ SuccessIsOwn'
    BY <1>1, <1>2, AhciAssumption DEF AhciInv, plugged, TypeOK, Port, Ports, none, Bound,
                                      ListsOutliveEngine, Engine, OwnEnd, SuccessIsOwn, Begin
  <2>5. Quiet'
    BY <1>1, <1>2, AhciAssumption DEF AhciInv, plugged, TypeOK, Port, Ports, none, Quiet,
                                      OwnEnd, Engine, Begin
  <2>6. Scanned' /\ DiskIsFound'
    BY <1>1, <1>2, AhciAssumption DEF AhciInv, plugged, TypeOK, Port, Ports, none,
                                      DiskIsFound, Scanned, NoneBefore, Bound, Engine, Begin
  <2>7. QED
    BY <2>2, <2>3, <2>4, <2>5, <2>6 DEF AhciInv
<1>3. ASSUME
         /\ MayRunOut
         /\ ReleaseDmaBuffers /\ NextPort
         /\ UNCHANGED <<hba, op, issued>>
       PROVE  AhciInv'
  <2>1. TypeOK'
    <3>1. k' \in 0 .. LastPort + 1
      BY <1>1, <1>3, AhciAssumption DEF NextPort, Ports
    <3>2. QED
      BY <1>1, <1>3, <3>1 DEF AhciInv, plugged, TypeOK, ReleaseDmaBuffers, NextPort
  <2>2. Bound' /\ ListsOutliveEngine'
    BY <1>1, <1>3, AhciAssumption DEF AhciInv, plugged, TypeOK, Port, Ports, none, Bound,
                                      ListsOutliveEngine, MayRunOut, ReleaseDmaBuffers,
                                      NextPort
  <2>3. Engine' /\ OwnEnd' /\ SuccessIsOwn'
    BY <1>1, <1>3, AhciAssumption DEF AhciInv, plugged, TypeOK, Port, Ports, none, Bound,
                                      ListsOutliveEngine, Engine, OwnEnd, SuccessIsOwn,
                                      MayRunOut, ReleaseDmaBuffers, NextPort
  <2>4. Quiet'
    BY <1>1, <1>3, AhciAssumption DEF AhciInv, plugged, TypeOK, Port, Ports, none, Quiet,
                                      OwnEnd, Engine, MayRunOut, ReleaseDmaBuffers, NextPort
  <2>5. Scanned' /\ DiskIsFound'
    BY <1>1, <1>3, AhciAssumption DEF AhciInv, plugged, TypeOK, Port, Ports, none,
                                      DiskIsFound, Scanned, NoneBefore, Bound, Engine,
                                      MayRunOut, ReleaseDmaBuffers, NextPort
  <2>6. QED
    BY <2>1, <2>2, <2>3, <2>4, <2>5 DEF AhciInv
<1>4. ASSUME
         /\ MayRunOut
         /\ port' = k /\ allocated' = TRUE
         /\ hba' = [hba EXCEPT ![k].running = TRUE]
         /\ pc' = "stop"
         /\ UNCHANGED <<mapped, k, op, issued>>
       PROVE  AhciInv'
  <2>1. hba' \in [Ports -> Port]
    BY <1>1, <1>4, RegistersTyped DEF AhciInv, TypeOK
  <2>2. TypeOK'
    BY <1>1, <1>4, <2>1, AhciAssumption DEF AhciInv, plugged, TypeOK, Port, Ports, none,
                                            Command, Attachment, Bound, MayRunOut
  <2>3. Bound' /\ ListsOutliveEngine'
    BY <1>1, <1>4, AhciAssumption DEF AhciInv, plugged, TypeOK, Port, Ports, none, Bound,
                                      ListsOutliveEngine, MayRunOut
  <2>4. Engine' /\ OwnEnd' /\ SuccessIsOwn'
    BY <1>1, <1>4, AhciAssumption DEF AhciInv, plugged, TypeOK, Port, Ports, none, Bound,
                                      ListsOutliveEngine, Engine, OwnEnd, SuccessIsOwn,
                                      MayRunOut
  <2>5. Quiet'
    BY <1>1, <1>4, AhciAssumption DEF AhciInv, plugged, TypeOK, Port, Ports, none, Quiet,
                                      OwnEnd, Engine, MayRunOut
  <2>6. Scanned' /\ DiskIsFound'
    BY <1>1, <1>4, AhciAssumption DEF AhciInv, plugged, TypeOK, Port, Ports, none,
                                      DiskIsFound, Scanned, NoneBefore, Bound, Engine,
                                      MayRunOut
  <2>7. QED
    BY <2>2, <2>3, <2>4, <2>5, <2>6 DEF AhciInv
<1>5. QED
  BY <1>2, <1>3, <1>4 DEF StartPort

\* The disk is found.
LEMMA IdentifiedPreserves ==
  ASSUME AhciInv, Identified
  PROVE  AhciInv'
<1>1. TypeOK' /\ Bound' /\ ListsOutliveEngine'
  BY AhciAssumption DEF AhciInv, driver, plugged, TypeOK, Port, Ports, none, Command,
                        Attachment, Bound, ListsOutliveEngine, Identified, Succeeded
<1>2. Engine' /\ OwnEnd' /\ SuccessIsOwn'
  BY AhciAssumption DEF AhciInv, driver, plugged, TypeOK, Port, Ports, none, Bound,
                        ListsOutliveEngine, Engine, OwnEnd, SuccessIsOwn, Identified,
                        Succeeded
<1>3. Quiet'
  BY AhciAssumption DEF AhciInv, driver, plugged, TypeOK, Port, Ports, none, Quiet, OwnEnd,
                        Engine, Identified, Succeeded
<1>4. Scanned' /\ DiskIsFound'
  BY AhciAssumption DEF AhciInv, driver, plugged, TypeOK, Port, Ports, none, DiskIsFound,
                        Scanned, NoneBefore, Bound, Engine, Identified, Succeeded
<1>5. QED
  BY <1>1, <1>2, <1>3, <1>4 DEF AhciInv

\* A device is turned down: its port is told to stop.
LEMMA NotIdentifiedPreserves ==
  ASSUME AhciInv, NotIdentified
  PROVE  AhciInv'
<1>1. hba' \in [Ports -> Port]
  BY RegistersTyped DEF AhciInv, TypeOK, Bound, none, NotIdentified, BeginStop
<1>2. TypeOK' /\ Bound' /\ ListsOutliveEngine'
  BY <1>1, AhciAssumption DEF AhciInv, driver, plugged, TypeOK, Port, Ports, none, Command,
                              Attachment, Bound, ListsOutliveEngine, NotIdentified,
                              BeginStop, CanIssue, Failed, Hang, Succeeded
<1>3. Engine' /\ OwnEnd' /\ SuccessIsOwn'
  BY AhciAssumption DEF AhciInv, driver, plugged, TypeOK, Port, Ports, none, Bound,
                        ListsOutliveEngine, Engine, OwnEnd, SuccessIsOwn, NotIdentified,
                        BeginStop, CanIssue, Failed, Hang, Succeeded
<1>4. Quiet'
  BY AhciAssumption DEF AhciInv, driver, plugged, TypeOK, Port, Ports, none, Quiet, OwnEnd,
                        Engine, NotIdentified, BeginStop, CanIssue, Failed, Hang, Succeeded
<1>5. Scanned' /\ DiskIsFound'
  BY AhciAssumption DEF AhciInv, driver, plugged, TypeOK, Port, Ports, none, DiskIsFound,
                        Scanned, NoneBefore, Bound, Engine, NotIdentified, BeginStop,
                        CanIssue, Failed, Hang, Succeeded
<1>6. QED
  BY <1>2, <1>3, <1>4, <1>5 DEF AhciInv

\* ... and is given up when it has.
LEMMA RejectPortPreserves ==
  ASSUME AhciInv, RejectPort
  PROVE  AhciInv'
<1>1. CASE PortStopped /\ ReleaseDmaBuffers /\ NextPort
  <2>1. TypeOK'
    <3>1. k' \in 0 .. LastPort + 1
      BY <1>1, AhciAssumption DEF AhciInv, Bound, RejectPort, NextPort, Ports
    <3>2. QED
      BY <1>1, <3>1 DEF AhciInv, plugged, TypeOK, RejectPort, ReleaseDmaBuffers, NextPort
  <2>2. Bound' /\ ListsOutliveEngine'
    BY <1>1, AhciAssumption DEF AhciInv, driver, plugged, TypeOK, Port, Ports, none, Bound,
                                ListsOutliveEngine, RejectPort, Hang, NextPort, PortStopped,
                                ReleaseDmaBuffers
  <2>3. Engine' /\ OwnEnd' /\ SuccessIsOwn'
    BY <1>1, AhciAssumption DEF AhciInv, driver, plugged, TypeOK, Port, Ports, none, Bound,
                                ListsOutliveEngine, Engine, OwnEnd, SuccessIsOwn, RejectPort,
                                Hang, NextPort, PortStopped, ReleaseDmaBuffers
  <2>4. Quiet'
    BY <1>1, AhciAssumption DEF AhciInv, driver, plugged, TypeOK, Port, Ports, none, Quiet,
                                OwnEnd, Engine, RejectPort, Hang, NextPort, PortStopped,
                                ReleaseDmaBuffers
  <2>5. Scanned' /\ DiskIsFound'
    BY <1>1, AhciAssumption DEF AhciInv, driver, plugged, TypeOK, Port, Ports, none,
                                DiskIsFound, Scanned, NoneBefore, Bound, Engine, RejectPort,
                                Hang, NextPort, PortStopped, ReleaseDmaBuffers
  <2>6. QED
    BY <2>1, <2>2, <2>3, <2>4, <2>5 DEF AhciInv
<1>2. CASE ~(PortStopped /\ ReleaseDmaBuffers /\ NextPort)
  <2>1. TypeOK' /\ Bound' /\ ListsOutliveEngine'
    BY <1>2, AhciAssumption DEF AhciInv, driver, plugged, TypeOK, Port, Ports, none, Command,
                                Attachment, Bound, ListsOutliveEngine, RejectPort, Hang,
                                NextPort, PortStopped, ReleaseDmaBuffers
  <2>2. Engine' /\ OwnEnd' /\ SuccessIsOwn'
    BY <1>2, AhciAssumption DEF AhciInv, driver, plugged, TypeOK, Port, Ports, none, Bound,
                                ListsOutliveEngine, Engine, OwnEnd, SuccessIsOwn, RejectPort,
                                Hang, NextPort, PortStopped, ReleaseDmaBuffers
  <2>3. Quiet'
    BY <1>2, AhciAssumption DEF AhciInv, driver, plugged, TypeOK, Port, Ports, none, Quiet,
                                OwnEnd, Engine, RejectPort, Hang, NextPort, PortStopped,
                                ReleaseDmaBuffers
  <2>4. Scanned' /\ DiskIsFound'
    BY <1>2, AhciAssumption DEF AhciInv, driver, plugged, TypeOK, Port, Ports, none,
                                DiskIsFound, Scanned, NoneBefore, Bound, Engine, RejectPort,
                                Hang, NextPort, PortStopped, ReleaseDmaBuffers
  <2>5. QED
    BY <2>1, <2>2, <2>3, <2>4 DEF AhciInv
<1>3. QED
  BY <1>1, <1>2

\* No port is left.
LEMMA ScanEndsPreserves ==
  ASSUME AhciInv, ScanEnds
  PROVE  AhciInv'
<1>1. TypeOK' /\ Bound' /\ ListsOutliveEngine'
  BY AhciAssumption DEF AhciInv, driver, plugged, TypeOK, Port, Ports, none, Command,
                        Attachment, Bound, ListsOutliveEngine, ScanEnds
<1>2. Engine' /\ OwnEnd' /\ SuccessIsOwn'
  BY AhciAssumption DEF AhciInv, driver, plugged, TypeOK, Port, Ports, none, Bound,
                        ListsOutliveEngine, Engine, OwnEnd, SuccessIsOwn, ScanEnds
<1>3. Quiet'
  BY AhciAssumption DEF AhciInv, driver, plugged, TypeOK, Port, Ports, none, Quiet, OwnEnd,
                        Engine, ScanEnds
<1>4. Scanned' /\ DiskIsFound'
  BY AhciAssumption DEF AhciInv, driver, plugged, TypeOK, Port, Ports, none, DiskIsFound,
                        Scanned, NoneBefore, Bound, Engine, ScanEnds
<1>5. QED
  BY <1>1, <1>2, <1>3, <1>4 DEF AhciInv

\* loadDriver calls initialize again.
LEMMA RetryPreserves ==
  ASSUME AhciInv, Retry
  PROVE  AhciInv'
<1>1. TypeOK' /\ Bound' /\ ListsOutliveEngine'
  BY AhciAssumption DEF AhciInv, driver, plugged, TypeOK, Port, Ports, none, Command,
                        Attachment, Bound, ListsOutliveEngine, Retry
<1>2. Engine' /\ OwnEnd' /\ SuccessIsOwn'
  BY AhciAssumption DEF AhciInv, driver, plugged, TypeOK, Port, Ports, none, Bound,
                        ListsOutliveEngine, Engine, OwnEnd, SuccessIsOwn, Retry
<1>3. Quiet'
  BY AhciAssumption DEF AhciInv, driver, plugged, TypeOK, Port, Ports, none, Quiet, OwnEnd,
                        Engine, Retry
<1>4. Scanned' /\ DiskIsFound'
  BY AhciAssumption DEF AhciInv, driver, plugged, TypeOK, Port, Ports, none, DiskIsFound,
                        Scanned, NoneBefore, Bound, Engine, Retry
<1>5. QED
  BY <1>1, <1>2, <1>3, <1>4 DEF AhciInv

\* A caller asks for a transfer.
LEMMA ReadPreserves ==
  ASSUME AhciInv, Read
  PROVE  AhciInv'
<1>1. TypeOK' /\ Bound' /\ ListsOutliveEngine'
  BY AhciAssumption DEF AhciInv, driver, plugged, TypeOK, Port, Ports, none, Command,
                        Attachment, Bound, ListsOutliveEngine, Read, Begin
<1>2. Engine' /\ OwnEnd' /\ SuccessIsOwn'
  BY AhciAssumption DEF AhciInv, driver, plugged, TypeOK, Port, Ports, none, Bound,
                        ListsOutliveEngine, Engine, OwnEnd, SuccessIsOwn, Read, Begin
<1>3. Quiet'
  BY AhciAssumption DEF AhciInv, driver, plugged, TypeOK, Port, Ports, none, Quiet, OwnEnd,
                        Engine, Read, Begin
<1>4. Scanned' /\ DiskIsFound'
  BY AhciAssumption DEF AhciInv, driver, plugged, TypeOK, Port, Ports, none, DiskIsFound,
                        Scanned, NoneBefore, Bound, Engine, Read, Begin
<1>5. QED
  BY <1>1, <1>2, <1>3, <1>4 DEF AhciInv

\* The command goes to the port.
LEMMA IssuePreserves ==
  ASSUME AhciInv, Issue
  PROVE  AhciInv'
<1>1. hba' \in [Ports -> Port]
  BY RegistersTyped DEF AhciInv, TypeOK, Bound, none, Issue, CanIssue
<1>2. TypeOK' /\ Bound' /\ ListsOutliveEngine'
  BY <1>1, AhciAssumption DEF AhciInv, driver, plugged, TypeOK, Port, Ports, none, Command,
                              Attachment, Bound, ListsOutliveEngine, Issue, CanIssue
<1>3. Engine' /\ OwnEnd' /\ SuccessIsOwn'
  BY AhciAssumption DEF AhciInv, driver, plugged, TypeOK, Port, Ports, none, Bound,
                        ListsOutliveEngine, Engine, OwnEnd, SuccessIsOwn, Issue, CanIssue
<1>4. Quiet'
  BY AhciAssumption DEF AhciInv, driver, plugged, TypeOK, Port, Ports, none, Quiet, OwnEnd,
                        Engine, Issue, CanIssue
<1>5. Scanned' /\ DiskIsFound'
  BY AhciAssumption DEF AhciInv, driver, plugged, TypeOK, Port, Ports, none, DiskIsFound,
                        Scanned, NoneBefore, Bound, Engine, Issue, CanIssue
<1>6. QED
  BY <1>2, <1>3, <1>4, <1>5 DEF AhciInv

\* A caller is told that its transfer succeeded.
LEMMA ReturnsOkPreserves ==
  ASSUME AhciInv, ReturnsOk
  PROVE  AhciInv'
<1>1. TypeOK' /\ Bound' /\ ListsOutliveEngine'
  BY AhciAssumption DEF AhciInv, driver, plugged, TypeOK, Port, Ports, none, Command,
                        Attachment, Bound, ListsOutliveEngine, ReturnsOk, Succeeded
<1>2. Engine' /\ OwnEnd' /\ SuccessIsOwn'
  BY AhciAssumption DEF AhciInv, driver, plugged, TypeOK, Port, Ports, none, Bound,
                        ListsOutliveEngine, Engine, OwnEnd, SuccessIsOwn, ReturnsOk,
                        Succeeded
<1>3. Quiet'
  BY AhciAssumption DEF AhciInv, driver, plugged, TypeOK, Port, Ports, none, Quiet, OwnEnd,
                        Engine, ReturnsOk, Succeeded
<1>4. Scanned' /\ DiskIsFound'
  BY AhciAssumption DEF AhciInv, driver, plugged, TypeOK, Port, Ports, none, DiskIsFound,
                        Scanned, NoneBefore, Bound, Engine, ReturnsOk, Succeeded
<1>5. QED
  BY <1>1, <1>2, <1>3, <1>4 DEF AhciInv

\* A caller is told that its transfer failed.
LEMMA ReturnsFalsePreserves ==
  ASSUME AhciInv, ReturnsFalse
  PROVE  AhciInv'
<1>1. TypeOK' /\ Bound' /\ ListsOutliveEngine'
  BY AhciAssumption DEF AhciInv, driver, plugged, TypeOK, Port, Ports, none, Command,
                        Attachment, Bound, ListsOutliveEngine, ReturnsFalse, CanIssue,
                        Failed, Hang
<1>2. Engine' /\ OwnEnd' /\ SuccessIsOwn'
  BY AhciAssumption DEF AhciInv, driver, plugged, TypeOK, Port, Ports, none, Bound,
                        ListsOutliveEngine, Engine, OwnEnd, SuccessIsOwn, ReturnsFalse,
                        CanIssue, Failed, Hang
<1>3. Quiet'
  BY AhciAssumption DEF AhciInv, driver, plugged, TypeOK, Port, Ports, none, Quiet, OwnEnd,
                        Engine, ReturnsFalse, CanIssue, Failed, Hang
<1>4. Scanned' /\ DiskIsFound'
  BY AhciAssumption DEF AhciInv, driver, plugged, TypeOK, Port, Ports, none, DiskIsFound,
                        Scanned, NoneBefore, Bound, Engine, ReturnsFalse, CanIssue, Failed,
                        Hang
<1>5. QED
  BY <1>1, <1>2, <1>3, <1>4 DEF AhciInv

--------------------------------------------------------------------------------
\* The driver, its controller and their records agree in every reachable state.
THEOREM AhciInvariant == Spec => []AhciInv
<1>1. AhciInv /\ [Next]_vars => AhciInv'
  <2> SUFFICES ASSUME AhciInv, [Next]_vars PROVE AhciInv'
    OBVIOUS
  <2>1. CASE UNCHANGED vars
    BY <2>1 DEF vars, driver, plugged, AhciInv, TypeOK, Bound, ListsOutliveEngine, Engine, OwnEnd,
                SuccessIsOwn, Quiet, Scanned, NoneBefore, DiskIsFound
  <2>2. CASE Controller
    BY <2>2, FetchPreserves, MovePreserves, CompletePreserves, FailPreserves, EngineStopsPreserves
       DEF Controller
  <2>3. CASE initialize
    BY <2>3, StopOldPortPreserves, OldPortStoppedPreserves, ResetPreserves, SkipPortPreserves,
       ScanWithoutRegistersPreserves, StartPortPreserves, IdentifiedPreserves,
       NotIdentifiedPreserves, RejectPortPreserves, ScanEndsPreserves, RetryPreserves
       DEF initialize
  <2>4. CASE Read \/ Issue \/ ReturnsOk \/ ReturnsFalse
    BY <2>4, ReadPreserves, IssuePreserves, ReturnsOkPreserves, ReturnsFalsePreserves
  <2>5. QED
    BY <2>1, <2>2, <2>3, <2>4 DEF Next
<1>2. QED
  BY InitAhciInv, <1>1, PTL DEF Spec

\* The variables keep their types, and a command runs only with port and lists.
THEOREM AhciTypes == Spec => []TypeOK
<1>1. AhciInv => TypeOK
  BY DEF AhciInv
<1>2. QED
  BY <1>1, AhciInvariant, PTL

\* A running controller has its lists, whatever times out, fails or is retried.
THEOREM ListsOutliveEngineAlways == Spec => []ListsOutliveEngine
<1>1. AhciInv => ListsOutliveEngine
  BY DEF AhciInv
<1>2. QED
  BY <1>1, AhciInvariant, PTL

\* Success is always that of the caller's own command.
THEOREM SuccessIsOwnAlways == Spec => []SuccessIsOwn
<1>1. AhciInv => SuccessIsOwn
  BY DEF AhciInv
<1>2. QED
  BY <1>1, AhciInvariant, PTL

\* Without hangs the controller never moves data for a call that has returned.
THEOREM NoStrayDmaAlways == Spec => []NoStrayDma
<1>1. AhciInv => NoStrayDma
  <2> SUFFICES ASSUME AhciInv, "hang" \notin faults, NEW p \in Ports,
                      hba[p].running, hba[p].current # 0
               PROVE  hba[p].current \in InUse
    BY DEF NoStrayDma
  <2>1. pc = "poll" /\ p = port
    BY DEF AhciInv, Quiet
  <2>2. QED
    BY <2>1 DEF AhciInv, OwnEnd, InUse
<1>2. QED
  BY <1>1, AhciInvariant, PTL

\* With nothing failing, the first device is looked at, on any number of ports.
THEOREM DiskIsFoundAlways == Spec => []DiskIsFound
<1>1. AhciInv => DiskIsFound
  BY DEF AhciInv
<1>2. QED
  BY <1>1, AhciInvariant, PTL

================================================================================
