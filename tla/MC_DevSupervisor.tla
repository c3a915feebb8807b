--------------------------- MODULE MC_DevSupervisor ---------------------------
(* TLC instances of DevSupervisor. *)
EXTENDS DevSupervisor
DrainFault == {"drain-deadline"}
AllFaults == {"drain-deadline", "restart-fails", "crash", "file-system"}
===============================================================================
