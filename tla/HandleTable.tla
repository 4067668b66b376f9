----------------------------- MODULE HandleTable -----------------------------
(***************************************************************************)
(* Abstract specification of what a generational handle pool promises     *)
(* (src/priv_include/ggl/socket_handle.h): registering an fd yields a      *)
(* handle never handed out before, and a handle that has been released     *)
(* never names a registration again, however often its slot is reused.    *)
(* The detailed pool of SocketPool.tla is checked to implement this.       *)
(***************************************************************************)
EXTENDS TLC

CONSTANTS
    Handles,    \* every value a handle can take
    FdValues    \* the fds that can be registered

VARIABLES
    live,       \* live[h]: the fd registered under live handle h
    retired     \* handles that were live once and have been released

vars == <<live, retired>>

TypeOK ==
    /\ DOMAIN live \subseteq Handles
    /\ \A h \in DOMAIN live : live[h] \in FdValues
    /\ retired \subseteq Handles

Init ==
    /\ live = [h \in {} |-> 0]
    /\ retired = {}

\* register: a fresh handle, neither live nor retired, names the fd.
Register(h, fd) ==
    /\ h \notin DOMAIN live \cup retired
    /\ live' = live @@ (h :> fd)
    /\ UNCHANGED retired

\* release: a live handle stops naming its fd, for good.
Release(h) ==
    /\ h \in DOMAIN live
    /\ live' = [x \in DOMAIN live \ {h} |-> live[x]]
    /\ retired' = retired \cup {h}

Next ==
    \/ \E h \in Handles, fd \in FdValues : Register(h, fd)
    \/ \E h \in DOMAIN live : Release(h)

Spec == Init /\ [][Next]_vars
=============================================================================
