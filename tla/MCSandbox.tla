------------------------------ MODULE MCSandbox ------------------------------
(* Small instances of SandboxSlots for TLC. *)
EXTENDS SandboxSlots, TLC

Never == {FALSE}
Maybe == BOOLEAN
=============================================================================
