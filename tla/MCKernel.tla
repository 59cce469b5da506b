------------------------------ MODULE MCKernel -------------------------------
(***************************************************************************)
(* The kernel with as many tasks as there may be, and no files; with fewer *)
(* that open and close them; and with one that reads and writes up to two  *)
(* chunks and a byte.                                                      *)
(***************************************************************************)
EXTENDS Kernel

VARIABLE mode

InitMC == InitKernel /\ mode \in {"tasks", "tables", "bytes"} /\ (mode # "bytes" => size = 0)

NextMC ==
  /\ NextKernel
  /\ CASE mode = "tasks"  -> host' = host /\ \A s \in threads' : tableOf'[s] = s
       [] mode = "tables" -> /\ did'.call = "none" /\ \A s \in threads' \ threads : s <= 3 /\ tableOf[s] = NULL
                             /\ \A fd \in DOMAIN host' : host'[fd].mode = "r"
       [] mode = "bytes"  -> threads' = threads /\ tables'[1].last <= 1
  /\ UNCHANGED mode

SpecMC == InitMC /\ [][NextMC]_<<kernelVars, mode>> /\ WF_kernelVars(NextMC)
=============================================================================
