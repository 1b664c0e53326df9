------------------------------- MODULE MCDisk -------------------------------
(***************************************************************************)
(* Disk for TLC.  With three entries per queue the phase turns: mounting   *)
(* takes four commands of the I/O queue, the file system two more.  One    *)
(* command may be given up before the last request.                        *)
(***************************************************************************)
EXTENDS Disk
=============================================================================
