----------------------------- MODULE FileService -----------------------------
(***************************************************************************)
(* What Kernel::Filesystem promises the shell about the two block devices: *)
(* exactly one of them serves the file commands, a format never runs while *)
(* the SATA disk serves them, and the RAM disk is what serves them         *)
(* whenever a mount or a format did not succeed.                           *)
(* Filesystem.tla is shown to implement this.                              *)
(***************************************************************************)
VARIABLES serving,     \* the device behind the file commands
          formatting   \* a format of the SATA disk is under way

serviceVars == <<serving, formatting>>

ServiceInit == serving = "ram" /\ formatting = FALSE

\* mnt: whatever served before, the outcome is the SATA disk or the RAM disk.
MountOutcome ==
  /\ ~formatting
  /\ serving' \in {"ram", "sata"}
  /\ UNCHANGED formatting

\* unmnt: leaves the SATA disk.
Leave ==
  /\ ~formatting
  /\ serving = "sata"
  /\ serving' = "ram"
  /\ UNCHANGED formatting

\* dformat: the disk is taken out of service in the step that begins the format.
BeginFormat ==
  /\ ~formatting
  /\ serving' = "ram"
  /\ formatting' = TRUE

EndFormat ==
  /\ formatting
  /\ formatting' = FALSE
  /\ UNCHANGED serving

\* A reset of the machine comes back on the RAM disk.
Restart ==
  /\ serving' = "ram"
  /\ formatting' = FALSE

ServiceNext == MountOutcome \/ Leave \/ BeginFormat \/ EndFormat \/ Restart

ServiceSpec == ServiceInit /\ [][ServiceNext]_serviceVars
==============================================================================
