-------------------------- MODULE MC_SocketPoolWrap --------------------------
(***************************************************************************)
(* Scenario for the 16-bit generation counter of socket_handle.c: thread  *)
(* Keeper registers an fd, releases it and keeps the handle, as a         *)
(* subscription callback context keeps its handle after a close; thread   *)
(* Cycler then registers and releases the same slot over and over, as a  *)
(* component that opens and closes subscriptions does.  Keeper presents  *)
(* its handle while Cycler has the slot registered.  Every step is an     *)
(* action of SocketPool; the scenario only restricts which ones run.      *)
(***************************************************************************)
EXTENDS SocketPool

CONSTANTS Keeper, Cycler

WrapNext ==
    \/ \E t \in {Keeper, Cycler}, fd \in Fds :
         OpenFd(t, fd) \/ Register(t, fd)
    \/ \E t \in {Keeper, Cycler} : Release(t, held[t], FALSE)
    \/ fds[0] # FD_FREE /\ ProtectedBegin(Keeper, held[Keeper])
    \/ ProtectedBody(Keeper)

WrapSpec == Init /\ [][WrapNext]_vars

\* Keeper keeps its first handle; Cycler keeps its newest.
WrapScenario ==
    /\ held[Keeper].e \in {-1, 0}
    /\ held[Cycler].e \in {-1, epoch[0] - 1, epoch[0]}
=============================================================================
