----------------------------- MODULE MountTasks -----------------------------
(***************************************************************************)
(* What FFileProvider::MountAsync promises, whatever pool it uses: every   *)
(* archive is mounted once, and MountAsync does not return before the last *)
(* of them is.  A mount that throws ends the process.                      *)
(***************************************************************************)
CONSTANT Archives

VARIABLES
  mount,    \* by archive: "waiting", "running" or "done"
  progress  \* "mounting", "returned" or "terminated"

mvars == <<mount, progress>>

MInit ==
  /\ mount = [a \in Archives |-> "waiting"]
  /\ progress = "mounting"

Begin(a) ==
  /\ progress = "mounting"
  /\ mount[a] = "waiting"
  /\ mount' = [mount EXCEPT ![a] = "running"]
  /\ UNCHANGED progress

End(a) ==
  /\ progress = "mounting"
  /\ mount[a] = "running"
  /\ mount' = [mount EXCEPT ![a] = "done"]
  /\ UNCHANGED progress

Terminate ==
  /\ progress = "mounting"
  /\ \E a \in Archives : mount[a] = "running"
  /\ progress' = "terminated"
  /\ UNCHANGED mount

AllReturn ==
  /\ progress = "mounting"
  /\ \A a \in Archives : mount[a] = "done"
  /\ progress' = "returned"
  /\ UNCHANGED mount

MNext == (\E a \in Archives : Begin(a) \/ End(a)) \/ Terminate \/ AllReturn

MSafe == MInit /\ [][MNext]_mvars
MSpec == MSafe /\ WF_mvars(MNext)
=============================================================================
