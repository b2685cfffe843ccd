---------------------------------- MODULE Ahci ----------------------------------
(***************************************************************************)
(* The SATA driver, Driver::AHCI::AHCIDriver, against the controller.      *)
(*                                                                         *)
(* The driver polls: every wait is a loop of at most pollLimit reads of a  *)
(* register, so it ends when the register says so or, whatever the device  *)
(* is still doing, when the loop runs out.  Meanwhile the controller reads *)
(* the command table and moves data on its own.  The two interleave here;  *)
(* register writes between two waits are one step.                         *)
(*                                                                         *)
(* The controller is external and modelled from how the driver uses it, by *)
(* the rules of the AHCI specification the driver relies on: a port whose  *)
(* start bit is cleared stops some time later and drops its command; after *)
(* a task file error the port executes nothing and PxCI stays set.         *)
(***************************************************************************)
EXTENDS Integers

CONSTANTS
  LastPort,       \* the implemented ports are 0 .. LastPort
  Faults,         \* bound: what may go wrong: "media", "memory", "hang"
  MaxCommands     \* bound: commands issued in a behaviour

ASSUME AhciAssumption ==
  /\ LastPort \in Nat
  /\ Faults \subseteq {"media", "memory", "hang"}
  /\ MaxCommands \in Nat

Ports == 0 .. LastPort

\* What a port is connected to: "other" has an active link but is no disk the
\* driver accepts (a CD-ROM drive, a disk with 4096-byte sectors).
Attachment == {"none", "disk", "other"}

none    == -1
Command == 0 .. MaxCommands      \* the commands of a behaviour; 0 is no command

\* Of a port's registers: start (PxCMD.ST, FRE), running (PxCMD.CR, FR), ci
\* (PxCI), err (PxTFD.ERR, PxIS.TFES); and the command the controller has taken
\* from the table, with whether its data has been moved.
Port    == [start: BOOLEAN, running: BOOLEAN, ci: BOOLEAN, err: BOOLEAN,
            current: Command, moved: BOOLEAN]
Stopped == [start |-> FALSE, running |-> FALSE, ci |-> FALSE, err |-> FALSE,
            current |-> 0, moved |-> FALSE]

VARIABLES
  attached,       \* what is connected to each port
  faults,         \* what may go wrong in this behaviour
  hba,            \* the port registers
  mapped,         \* registers # nullptr
  port,           \* the port of the driver (port, selectedPort), or none
  allocated,      \* the driver holds its command list, FIS area and table
  table,          \* the command in the command table
  pc,             \* where the driver is
  k,              \* portNumber of the loop of initialize
  op,             \* the command being executed: "identify" or "read"
  issued,         \* history: commands started so far; the last one has its
                  \* buffer in use while executeCommand runs
  done,           \* history: the commands whose data was moved completely
  answered        \* history: the last command a caller was told succeeded

driver == <<mapped, port, allocated, table, pc, k, op, issued>>
plugged == <<attached, faults>>
vars   == <<plugged, hba, driver, done, answered>>

HasActiveLink(p) == attached[p] # "none"

\* allocateAligned may find no memory below 4 GiB.
MayRunOut == "memory" \in faults

\* Mutant: the polls have no limit.
HangNever(p) == FALSE

Hang(p) == "hang" \in faults \/ hba[p].err    \* a wait on port p may run out

Init ==
  /\ attached \in [Ports -> Attachment]
  /\ faults \in SUBSET Faults
  /\ hba = [p \in Ports |-> Stopped]
  /\ mapped = FALSE /\ port = none /\ allocated = FALSE /\ table = 0
  /\ pc = "down" /\ k = 0 /\ op = "identify" /\ issued = 0
  /\ done = {} /\ answered = 0

--------------------------------------------------------------------------------
\* The controller.
Fetch(p) ==
  /\ hba[p].running /\ hba[p].ci /\ ~hba[p].err /\ hba[p].current = 0
  /\ hba' = [hba EXCEPT ![p].current = table, ![p].moved = FALSE]
  /\ UNCHANGED <<plugged, driver, done, answered>>

\* DMA to or from the buffer of the command.
Move(p) ==
  /\ hba[p].running /\ hba[p].current # 0 /\ ~hba[p].moved
  /\ hba' = [hba EXCEPT ![p].moved = TRUE]
  /\ done' = done \cup {hba[p].current}
  /\ UNCHANGED <<plugged, driver, answered>>

Complete(p) ==
  /\ hba[p].running /\ hba[p].current # 0 /\ hba[p].moved
  /\ hba' = [hba EXCEPT ![p].ci = FALSE, ![p].current = 0]
  /\ UNCHANGED <<plugged, driver, done, answered>>

Fail(p) ==
  /\ hba[p].running /\ hba[p].current # 0 /\ ~hba[p].moved
  /\ attached[p] = "other" \/ "media" \in faults
  /\ hba' = [hba EXCEPT ![p].err = TRUE, ![p].current = 0]
  /\ UNCHANGED <<plugged, driver, done, answered>>

EngineStops(p) ==
  /\ hba[p].running /\ ~hba[p].start
  /\ hba' = [hba EXCEPT ![p] = Stopped]
  /\ UNCHANGED <<plugged, driver, done, answered>>

--------------------------------------------------------------------------------
\* executeCommand.  It begins when the buffer is ready (pc = "issue").
Begin(command) == op' = command /\ issued' = issued + 1

\* Mutant: no wait for PxCI and PxTFD before the command is written.
CanIssueAtOnce(p) == TRUE

CanIssue(p) == ~hba[p].ci /\ hba[p].current = 0

\* The command is written to the table and issued.
Issue ==
  /\ pc = "issue" /\ CanIssue(port)
  /\ table' = issued
  /\ hba' = [hba EXCEPT ![port].ci = TRUE, ![port].err = FALSE]
  /\ pc' = "poll"
  /\ UNCHANGED <<plugged, mapped, port, allocated, k, op, issued, done, answered>>

\* Mutant: the task file alone is looked at, as if it told the completion.
SucceededEarly == ~hba[port].err /\ (hba[port].current = 0 \/ ~hba[port].moved)

\* PxCI is clear: transferredBytes is what the controller stored for the command.
Succeeded == ~hba[port].err /\ ~hba[port].ci /\ hba[port].current = 0

Failed == \/ pc = "poll"  /\ (hba[port].err \/ Hang(port))
          \/ pc = "issue" /\ ~CanIssue(port) /\ Hang(port)

\* read and write return to their caller, whose buffer is gone.
ReturnsOk ==
  /\ pc = "poll" /\ op = "read" /\ Succeeded
  /\ pc' = "up" /\ answered' = issued
  /\ UNCHANGED <<plugged, hba, mapped, port, allocated, table, k, op, issued, done>>

ReturnsFalse ==
  /\ op = "read" /\ Failed
  /\ pc' = "up"
  /\ UNCHANGED <<plugged, hba, mapped, port, allocated, table, k, op, issued, done, answered>>

--------------------------------------------------------------------------------
\* finalize: the start bit is cleared, and only a port that has stopped gives up
\* its buffers.
BeginStop(p) == [hba EXCEPT ![p].start = FALSE]

\* Mutant: the buffers are released whether the port stopped or not.
PortStoppedIgnored == TRUE

PortStopped == ~hba[port].running

ReleaseDmaBuffers == mapped' = FALSE /\ port' = none /\ allocated' = FALSE

\* The loop of initialize goes on with the next port.
NextPort == k' = k + 1 /\ pc' = "scan"

\* Mutant: the loop goes on without asking whether finalize gave the port up.
RejectAndGoOn ==
  /\ pc = "stop"
  /\ \/ PortStopped /\ ReleaseDmaBuffers /\ NextPort
     \/ hba[port].running /\ Hang(port) /\ NextPort /\ UNCHANGED <<mapped, port, allocated>>
  /\ UNCHANGED <<plugged, hba, table, op, issued, done, answered>>

\* initialize after a rejected port: finalize, then the next port or, if the
\* port does not stop, the end.
RejectPort ==
  /\ pc = "stop"
  /\ \/ PortStopped /\ ReleaseDmaBuffers /\ NextPort
     \/ hba[port].running /\ Hang(port) /\ pc' = "down" /\ UNCHANGED <<mapped, port, allocated, k>>
  /\ UNCHANGED <<plugged, hba, table, op, issued, done, answered>>

--------------------------------------------------------------------------------
\* initialize.  loadDriver calls it at boot and again for every dformat and mnt
\* while it has not succeeded; a port it could not stop before comes first.
StopOldPort ==
  /\ pc = "down" /\ port # none
  /\ hba' = BeginStop(port)
  /\ pc' = "stopOld"
  /\ UNCHANGED <<plugged, mapped, port, allocated, table, k, op, issued, done, answered>>

OldPortStopped ==
  /\ pc = "stopOld"
  /\ \/ PortStopped /\ ReleaseDmaBuffers
     \/ hba[port].running /\ Hang(port) /\ UNCHANGED <<mapped, port, allocated>>
  /\ pc' = "down"
  /\ UNCHANGED <<plugged, hba, table, k, op, issued, done, answered>>

\* The controller is found and reset, which stops every port.
Reset ==
  /\ pc = "down" /\ port = none /\ ~allocated
  /\ hba' = [p \in Ports |-> Stopped]
  /\ mapped' = TRUE
  /\ k' = 0 /\ pc' = "scan"
  /\ UNCHANGED <<plugged, port, allocated, table, op, issued, done, answered>>

SkipPort ==
  /\ pc = "scan" /\ k \in Ports /\ mapped
  /\ ~HasActiveLink(k)
  /\ NextPort
  /\ UNCHANGED <<plugged, hba, mapped, port, allocated, table, op, issued, done, answered>>

\* finalize has set registers to nullptr, but the loop goes on: it reads the
\* next port's registers from low memory, where it finds no device.
ScanWithoutRegisters ==
  /\ pc = "scan" /\ k \in Ports /\ ~mapped
  /\ NextPort
  /\ UNCHANGED <<plugged, hba, mapped, port, allocated, table, op, issued, done, answered>>

\* A port with an active link is set up and asked to identify itself, unless
\* there is no memory for its DMA structures.
StartPort ==
  /\ pc = "scan" /\ k \in Ports /\ mapped
  /\ HasActiveLink(k) /\ issued < MaxCommands
  /\ \/ /\ port' = k /\ allocated' = TRUE
        /\ hba' = [hba EXCEPT ![k].start = TRUE, ![k].running = TRUE]
        /\ Begin("identify")
        /\ pc' = "issue"
        /\ UNCHANGED <<mapped, k>>
     \/ /\ MayRunOut                  \* none for the lists: finalize
        /\ ReleaseDmaBuffers /\ NextPort
        /\ UNCHANGED <<hba, op, issued>>
     \/ /\ MayRunOut                  \* none for the IDENTIFY buffer: the same,
        /\ port' = k /\ allocated' = TRUE        \* with the engine running
        /\ hba' = [hba EXCEPT ![k].running = TRUE]
        /\ pc' = "stop"
        /\ UNCHANGED <<mapped, k, op, issued>>
  /\ UNCHANGED <<plugged, table, done, answered>>

\* The device answers; sectorCount # 0 for a disk the driver accepts.
Identified ==
  /\ op = "identify" /\ pc = "poll" /\ Succeeded /\ attached[port] = "disk"
  /\ pc' = "up"
  /\ UNCHANGED <<plugged, hba, mapped, port, allocated, table, k, op, issued, done, answered>>

\* The IDENTIFY buffer is released, and only then is the port stopped.
NotIdentified ==
  /\ op = "identify"
  /\ Failed \/ (pc = "poll" /\ Succeeded /\ attached[port] = "other")
  /\ hba' = BeginStop(port)
  /\ pc' = "stop"
  /\ UNCHANGED <<plugged, mapped, port, allocated, table, k, op, issued, done, answered>>

\* Mutant: portNumber + 1 < portCount.
ScanEndsEarly ==
  /\ pc = "scan" /\ k + 1 \notin Ports
  /\ pc' = "failed"
  /\ UNCHANGED <<plugged, hba, mapped, port, allocated, table, k, op, issued, done, answered>>

ScanEnds ==
  /\ pc = "scan" /\ k \notin Ports
  /\ pc' = "failed"
  /\ UNCHANGED <<plugged, hba, mapped, port, allocated, table, k, op, issued, done, answered>>

Retry ==
  /\ pc = "failed"
  /\ pc' = "down"
  /\ UNCHANGED <<plugged, hba, mapped, port, allocated, table, k, op, issued, done, answered>>

\* read or write: the file systems issue one transfer at a time.
Read ==
  /\ pc = "up" /\ issued < MaxCommands
  /\ Begin("read")
  /\ pc' = "issue"
  /\ UNCHANGED <<plugged, hba, mapped, port, allocated, table, k, done, answered>>

Controller == \E p \in Ports : Fetch(p) \/ Move(p) \/ Complete(p) \/ Fail(p) \/ EngineStops(p)

initialize == \/ StopOldPort \/ OldPortStopped \/ Reset \/ SkipPort \/ ScanWithoutRegisters
              \/ StartPort \/ Identified \/ NotIdentified \/ RejectPort \/ ScanEnds \/ Retry

Next == Controller \/ initialize \/ Read \/ Issue \/ ReturnsOk \/ ReturnsFalse

Spec == Init /\ [][Next]_vars

\* The processor executes the driver, and a controller that does not hang goes on
\* with the command it has and stops when it is told to.
FairSpec == Spec /\ WF_vars(initialize \/ Issue \/ ReturnsOk \/ ReturnsFalse)
                 /\ WF_vars("hang" \notin faults /\ Controller)
--------------------------------------------------------------------------------
\* Every variable has its type; a command is executed only with a port and its
\* lists in place, and the scan goes on only without one.
TypeOK ==
  /\ attached \in [Ports -> Attachment] /\ faults \subseteq Faults
  /\ hba \in [Ports -> Port]
  /\ mapped \in BOOLEAN /\ allocated \in BOOLEAN
  /\ port \in Ports \cup {none}
  /\ table \in Command /\ issued \in Command /\ answered \in Command
  /\ pc \in {"down", "scan", "issue", "poll", "stop", "stopOld", "up", "failed"}
  /\ pc \in {"issue", "poll", "stop", "up"} => port # none /\ mapped /\ allocated
  /\ pc = "scan" => port = none
  /\ k \in 0 .. LastPort + 1
  /\ op \in {"identify", "read"}
  /\ done \subseteq Command

\* A controller that runs has its command list, FIS area and table: they are given
\* back only when the port has stopped, and no second port is started meanwhile,
\* through failed IDENTIFYs, ports that do not stop, and retries.
ListsOutliveEngine == \A p \in Ports : hba[p].running => allocated /\ port = p

\* What a caller was told succeeded was moved to its own buffer: the late end of a
\* command that timed out is never taken for the end of the next one.
SuccessIsOwn == answered # 0 => answered \in done

\* With a controller that answers within the poll limit, the controller moves data
\* only for the command in progress: no caller's buffer, and no released IDENTIFY
\* buffer, is written after the call has returned.
InUse == IF pc \in {"issue", "poll"} THEN {issued} ELSE {}
NoStrayDma ==
  "hang" \notin faults =>
    \A p \in Ports : hba[p].running /\ hba[p].current # 0 /\ ~hba[p].moved
                       => hba[p].current \in InUse

\* With nothing failing, initialize gives up only when there is no disk, or when it
\* has turned down the device of an earlier port: "first usable SATA disk"
\* (docs/ahci.en.md:92) means a disk on the first port with a device.
DiskIsFound ==
  pc = "failed" /\ faults = {} =>
    \A p \in Ports : attached[p] = "disk" => \E q \in 0 .. p - 1 : attached[q] = "other"

\* Every call ends, whatever the devices do or leave undone: initialize gets through
\* all its ports or gives up, and a transfer is answered.
CallsEnd ==
  pc \notin {"down", "up", "failed"}
    ~> pc \in {"down", "up", "failed"} \/ (pc = "scan" /\ issued = MaxCommands)
==============================================================================
