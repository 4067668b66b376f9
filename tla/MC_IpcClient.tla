---------------------------- MODULE MC_IpcClient ------------------------------
(* Instantiations of IpcClient for TLC: which thread uses which connection *)
EXTENDS IpcClient

\* t1 on c1, t2 on c2: one connection per thread.
OwnConn == [t \in Callers |-> IF t = CHOOSE x \in Callers : TRUE
                                THEN CHOOSE c \in Conns : TRUE
                                ELSE CHOOSE c \in Conns :
                                       c # CHOOSE d \in Conns : TRUE]

\* Every thread on the same connection.
SharedConn == [t \in Callers |-> CHOOSE c \in Conns : TRUE]
====
