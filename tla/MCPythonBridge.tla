--------------------------- MODULE MCPythonBridge ---------------------------
(***************************************************************************)
(* Instances of PythonBridge for TLC: a child that writes its answers the  *)
(* way the behaviour reads them, and the child of gagent_py.               *)
(***************************************************************************)
EXTENDS PythonBridge
=============================================================================
