----------------------------- MODULE SocketPool ------------------------------
(***************************************************************************)
(* The generational socket pool of src/src/socket_handle.c, shared by     *)
(* several threads.                                                        *)
(*                                                                         *)
(* A slot i holds an fd (or FD_FREE) and a 16-bit generation.  A handle   *)
(* is the pair of its two 16-bit halves: gen (high) and low = i + 1.       *)
(* Every operation takes the pool's recursive mutex; the exact-length     *)
(* read/write loop takes and drops it once per partial transfer and       *)
(* blocks inside the partial read WITH the mutex held.  The peer at the   *)
(* other end of each socket is the environment: it sends data or hangs    *)
(* up.                                                                     *)
(*                                                                         *)
(* epoch[i] is a history variable: the unbounded number of successful     *)
(* releases of slot i, of which generations[i] is the value mod 2^16.     *)
(* A thread presenting a handle also carries the epoch at which that      *)
(* handle was issued, so the model can tell a current handle from a       *)
(* stale one whose generation happens to match.                           *)
(***************************************************************************)
EXTENDS Integers, FiniteSets, FiniteSetsExt, TLC

CONSTANTS
    Threads,       \* threads using the pool
    NoThread,      \* owner of the mutex when nobody holds it
    MaxFds,        \* pool->max_fds
    Fds,           \* fds the OS can hand out (non-negative)
    GenBits,       \* width of a generation counter (uint16_t: 16)
    MaxEpoch,      \* bound: releases per slot explored
    IOLen,         \* bound: units of data one read/write call transfers
    HooksMayFail   \* whether on_register/on_release may return an error

ASSUME MaxFds \in 1..65535 /\ GenBits \in Nat \ {0} /\ IOLen \in Nat \ {0}
ASSUME Fds \subseteq Nat /\ NoThread \notin Threads

VARIABLES
    fds,           \* pool->fds
    generations,   \* pool->generations
    owner,         \* thread holding pool->mtx (recursive), or NoThread
    pc,            \* where each thread is
    op,            \* arguments and locals of each thread's current call
    owned,         \* fds a thread holds outside the pool
    held,          \* handles the application keeps (a handle with its epoch)
    osOpen,        \* fds open in the process
    peer,          \* peer[fd]: unread data at the socket, and hang-up
    epoch          \* history: successful releases of each slot

vars == <<fds, generations, owner, pc, op, owned, held, osOpen, peer, epoch>>

Slots == 0..MaxFds-1
GenMod == 2^GenBits
FD_FREE == -1431655766            \* -0x55555556
NoOp == [h |-> [gen |-> 0, low |-> 0], e |-> -1, idx |-> 0,
         rest |-> 0, kind |-> "none", fd |-> FD_FREE]
Quiet == [avail |-> 0, hup |-> FALSE]   \* a socket with nothing pending
HookOutcomes == IF HooksMayFail THEN BOOLEAN ELSE {TRUE}

(***************************************************************************)
(* Handles.  A handle is presented with the epoch it was issued at (-1    *)
(* for one never issued): one a thread kept from an earlier register,    *)
(* current or stale, a zero-initialised handle, or one whose index is     *)
(* out of range.                                                           *)
(***************************************************************************)
HandleOf(e, i) == [gen |-> e % GenMod, low |-> i + 1]
HandleIndex(h) == (h.low - 1) % 65536
\* the handle register returned for the slot's current registration
CurrentHandle(i) == [gen |-> generations[i], low |-> i + 1]

Junk == { [h |-> [gen |-> 0, low |-> 0], e |-> -1],
          [h |-> [gen |-> 0, low |-> MaxFds + 1], e |-> -1] }

\* Handles are shared between threads (callbacks receive them).
Presentable == {held[t] : t \in Threads} \cup Junk

\* pthread_mutex_lock on the recursive pool mutex: free, or already ours
Lockable(t) == owner \in {NoThread, t}

\* The caller of register stores the new handle, or keeps the one it had.
Keep(t, c) == held' \in {held, [held EXCEPT ![t] = c]}

\* mutant: validate_handle without the generation comparison
ValidateNoGen(h) ==
    IF HandleIndex(h) >= MaxFds THEN "INVALID" ELSE "OK"

\* validate_handle
Validate(h) ==
    IF HandleIndex(h) >= MaxFds THEN "INVALID"
    ELSE IF h.gen # generations[HandleIndex(h)] THEN "NOENTRY"
    ELSE "OK"

\* the call returns (its error code is not modelled)
Return(t) ==
    /\ pc' = [pc EXCEPT ![t] = "idle"]
    /\ op' = [op EXCEPT ![t] = NoOp]

(***************************************************************************)
(* The OS gives a thread a new connected socket (connect/accept).         *)
(***************************************************************************)
OpenFd(t, fd) ==
    /\ pc[t] = "idle"
    /\ fd \notin osOpen
    /\ osOpen' = osOpen \cup {fd}
    /\ owned' = [owned EXCEPT ![t] = @ \cup {fd}]
    /\ peer' = [peer EXCEPT ![fd] = Quiet]
    /\ UNCHANGED <<fds, generations, owner, pc, op, held, epoch>>

\* mutant: register whose on_register failure path forgets the rollback
RegisterNoRollback(t, fd) ==
    LET free == {i \in Slots : fds[i] = FD_FREE}
        i == Min(free)
    IN
    /\ pc[t] = "idle"
    /\ fd \in owned[t]
    /\ Lockable(t)
    /\ IF free = {}
         THEN UNCHANGED <<fds, owned, held>>
         ELSE /\ epoch[i] < MaxEpoch
              /\ \E hookOk \in HookOutcomes :
                   /\ fds' = [fds EXCEPT ![i] = fd]
                   /\ IF hookOk
                        THEN /\ owned' = [owned EXCEPT ![t] = @ \ {fd}]
                             /\ Keep(t, [h |-> CurrentHandle(i), e |-> epoch[i]])
                        ELSE UNCHANGED <<owned, held>>
    /\ UNCHANGED <<generations, owner, pc, op, osOpen, peer, epoch>>

(***************************************************************************)
(* ggl_socket_pool_register: first free slot, on_register may roll back. *)
(***************************************************************************)
Register(t, fd) ==
    LET free == {i \in Slots : fds[i] = FD_FREE}
        i == Min(free)
    IN
    /\ pc[t] = "idle"
    /\ fd \in owned[t]
    /\ Lockable(t)
    /\ IF free = {}
         THEN UNCHANGED <<fds, owned, held>>              \* GGL_ERR_NOMEM
         ELSE /\ epoch[i] < MaxEpoch
              /\ \E hookOk \in HookOutcomes :
                   IF hookOk
                     THEN /\ fds' = [fds EXCEPT ![i] = fd]
                          /\ owned' = [owned EXCEPT ![t] = @ \ {fd}]
                          /\ Keep(t, [h |-> CurrentHandle(i), e |-> epoch[i]])
                     ELSE UNCHANGED <<fds, owned, held>>  \* rolled back
    /\ UNCHANGED <<generations, owner, pc, op, osOpen, peer, epoch>>

\* mutant: release that frees the slot without bumping the generation
FreeSlotNoBump(i, hookOk) ==
    IF hookOk
      THEN /\ fds' = [fds EXCEPT ![i] = FD_FREE]
           /\ epoch' = [epoch EXCEPT ![i] = @ + 1]
           /\ UNCHANGED generations
      ELSE UNCHANGED <<generations, fds, epoch>>

(***************************************************************************)
(* The state change of ggl_socket_pool_release once the handle validated: *)
(* on_release may fail; otherwise bump the generation, free the slot.     *)
(***************************************************************************)
FreeSlot(i, hookOk) ==
    IF hookOk
      THEN /\ generations' = [generations EXCEPT ![i] = (@ + 1) % GenMod]
           /\ fds' = [fds EXCEPT ![i] = FD_FREE]
           /\ epoch' = [epoch EXCEPT ![i] = @ + 1]
      ELSE UNCHANGED <<generations, fds, epoch>>

(***************************************************************************)
(* ggl_socket_pool_release (the fd goes back to the caller) and           *)
(* ggl_socket_handle_close (release, then close the fd after the mutex is *)
(* dropped, a separate step).                                              *)
(***************************************************************************)
Release(t, c, closing) ==
    LET i == HandleIndex(c.h)
        fd == fds[i]
    IN
    /\ pc[t] = "idle"
    /\ Lockable(t)
    /\ IF Validate(c.h) # "OK"
         THEN UNCHANGED <<fds, generations, epoch, pc, op, owned, held>>
         ELSE \E hookOk \in HookOutcomes :
              /\ FreeSlot(i, hookOk)
              /\ IF hookOk /\ closing
                   THEN /\ pc' = [pc EXCEPT ![t] = "close_fd"]
                        /\ op' = [op EXCEPT ![t] = [NoOp EXCEPT !.fd = fd]]
                        /\ UNCHANGED <<owned, held>>
                   ELSE /\ owned' = IF hookOk
                                      THEN [owned EXCEPT ![t] = @ \cup {fd}]
                                      ELSE owned
                        /\ UNCHANGED <<pc, op>>
    /\ UNCHANGED <<owner, held, osOpen, peer>>

\* ggl_close(fd) at the end of ggl_socket_handle_close, outside the mutex.
CloseFd(t) ==
    /\ pc[t] = "close_fd"
    /\ osOpen' = osOpen \ {op[t].fd}
    /\ peer' = [peer EXCEPT ![op[t].fd] = Quiet]
    /\ pc' = [pc EXCEPT ![t] = "idle"]
    /\ op' = [op EXCEPT ![t] = NoOp]
    /\ UNCHANGED <<fds, generations, owner, owned, held, epoch>>

(***************************************************************************)
(* ggl_socket_handle_read / ggl_socket_handle_write: while data remains,  *)
(* lock, validate, transfer part of it, unlock.                            *)
(***************************************************************************)
IOAttempt(t, o) ==
    /\ Lockable(t)
    /\ IF Validate(o.h) # "OK"
         THEN /\ Return(t)
              /\ UNCHANGED owner
         ELSE /\ owner' = t
              /\ pc' = [pc EXCEPT ![t] = "io_data"]
              /\ op' = [op EXCEPT ![t] = [o EXCEPT !.idx = HandleIndex(o.h)]]
    /\ UNCHANGED <<fds, generations, owned, held, osOpen, peer, epoch>>

IOBegin(t, c, kind) ==
    /\ pc[t] = "idle"
    /\ IOAttempt(t, [NoOp EXCEPT !.h = c.h, !.e = c.e, !.rest = IOLen,
                                 !.kind = kind])

IOLock(t) ==
    /\ pc[t] = "io_lock"
    /\ IOAttempt(t, op[t])

\* mutant: a read that counts a zero-byte read (end of stream) as data
IODataEofAsData(t) ==
    LET o == op[t]
        fd == fds[o.idx]
    IN
    /\ pc[t] = "io_data"
    /\ owner' = NoThread
    /\ peer' = IF o.kind = "read"
                 THEN [peer EXCEPT ![fd].avail = @ - 1] ELSE peer
    /\ IF o.rest = 1
         THEN Return(t)
         ELSE /\ pc' = [pc EXCEPT ![t] = "io_lock"]
              /\ op' = [op EXCEPT ![t].rest = @ - 1]
    /\ UNCHANGED <<fds, generations, owned, held, osOpen, epoch>>

(***************************************************************************)
(* ggl_file_read_partial / ggl_file_write_partial under the mutex, with   *)
(* a result other than GGL_ERR_RETRY: part of the data moved, or the      *)
(* call failed (a read at end of stream, a write to a hung-up peer).  A   *)
(* read with no data and no hang-up blocks in read(), still holding the   *)
(* mutex: this action is not enabled until the peer sends or hangs up.    *)
(***************************************************************************)
IOMoved(t, o, fd) ==
    IF o.kind = "read" THEN peer[fd].avail = 1 ELSE ~peer[fd].hup

IOFailed(t, o, fd) ==
    IF o.kind = "read" THEN peer[fd].avail = 0 /\ peer[fd].hup
    ELSE peer[fd].hup

IOTransfer(t) ==
    LET o == op[t]
        fd == fds[o.idx]
    IN
    /\ pc[t] = "io_data"
    /\ owner' = NoThread
    /\ \/ /\ IOMoved(t, o, fd)
          /\ peer' = IF o.kind = "read"
                       THEN [peer EXCEPT ![fd].avail = 0] ELSE peer
          /\ IF o.rest = 1
               THEN Return(t)
               ELSE /\ pc' = [pc EXCEPT ![t] = "io_lock"]
                    /\ op' = [op EXCEPT ![t].rest = @ - 1]
       \/ /\ IOFailed(t, o, fd)
          /\ Return(t)
          /\ UNCHANGED peer
    /\ UNCHANGED <<fds, generations, owned, held, osOpen, epoch>>

\* GGL_ERR_RETRY: the call was interrupted by a signal (EINTR), which may
\* happen at any time or never; the loop unlocks and goes round again.
IOInterrupted(t) ==
    /\ pc[t] = "io_data"
    /\ owner' = NoThread
    /\ pc' = [pc EXCEPT ![t] = "io_lock"]
    /\ UNCHANGED <<fds, generations, owned, held, osOpen, peer, epoch, op>>

IOData(t) == IOTransfer(t) \/ IOInterrupted(t)

(***************************************************************************)
(* ggl_socket_handle_protected: lock, validate, run the action on the     *)
(* index, unlock.  The action may close the handle from within (the       *)
(* mutex is recursive), as a subscription callback does.                  *)
(***************************************************************************)
ProtectedBegin(t, c) ==
    /\ pc[t] = "idle"
    /\ Lockable(t)
    /\ IF Validate(c.h) # "OK"
         THEN /\ Return(t)
              /\ UNCHANGED owner
         ELSE /\ owner' = t
              /\ pc' = [pc EXCEPT ![t] = "prot_body"]
              /\ op' = [op EXCEPT ![t] = [NoOp EXCEPT !.h = c.h, !.e = c.e,
                                          !.idx = HandleIndex(c.h)]]
    /\ UNCHANGED <<fds, generations, owned, held, osOpen, peer, epoch>>

ProtectedBody(t) ==
    LET i == op[t].idx IN
    /\ pc[t] = "prot_body"
    /\ \/ /\ UNCHANGED <<fds, generations, epoch, osOpen, peer>>
       \/ \E hookOk \in HookOutcomes :          \* nested close of the handle
          /\ FreeSlot(i, hookOk)
          /\ osOpen' = IF hookOk THEN osOpen \ {fds[i]} ELSE osOpen
          /\ peer' = IF hookOk THEN [peer EXCEPT ![fds[i]] = Quiet] ELSE peer
    /\ owner' = NoThread
    /\ Return(t)
    /\ UNCHANGED <<owned, held>>

(***************************************************************************)
(* ggl_socket_handle_get_peer_pid: lock, validate, then getsockopt        *)
(* SO_PEERCRED on the slot's fd, which may fail; unlock.  The pid         *)
(* identifies the client, so it must be the peer of the registration the  *)
(* handle was issued for.                                                  *)
(***************************************************************************)
PeerPidBegin(t, c) ==
    /\ pc[t] = "idle"
    /\ Lockable(t)
    /\ IF Validate(c.h) # "OK"
         THEN /\ Return(t)
              /\ UNCHANGED owner
         ELSE /\ owner' = t
              /\ pc' = [pc EXCEPT ![t] = "peer_cred"]
              /\ op' = [op EXCEPT ![t] = [NoOp EXCEPT !.h = c.h, !.e = c.e,
                                          !.idx = HandleIndex(c.h)]]
    /\ UNCHANGED <<fds, generations, owned, held, osOpen, peer, epoch>>

\* getsockopt on pool->fds[index] (its result, or GGL_ERR_FAILURE), unlock
PeerCred(t) ==
    /\ pc[t] = "peer_cred"
    /\ owner' = NoThread
    /\ Return(t)
    /\ UNCHANGED <<fds, generations, owned, held, osOpen, peer, epoch>>

(***************************************************************************)
(* The peer of each open socket sends data or hangs up.                   *)
(***************************************************************************)
PeerSend(fd) ==
    /\ fd \in osOpen
    /\ ~peer[fd].hup /\ peer[fd].avail = 0
    /\ peer' = [peer EXCEPT ![fd].avail = 1]
    /\ UNCHANGED <<fds, generations, owner, pc, op, owned, held, osOpen, epoch>>

PeerHangup(fd) ==
    /\ fd \in osOpen
    /\ ~peer[fd].hup
    /\ peer' = [peer EXCEPT ![fd].hup = TRUE]
    /\ UNCHANGED <<fds, generations, owner, pc, op, owned, held, osOpen, epoch>>

Init ==
    /\ fds = [i \in Slots |-> FD_FREE]
    /\ generations = [i \in Slots |-> 0]
    /\ owner = NoThread
    /\ pc = [t \in Threads |-> "idle"]
    /\ op = [t \in Threads |-> NoOp]
    /\ owned = [t \in Threads |-> {}]
    /\ held = [t \in Threads |-> CHOOSE j \in Junk : j.h.low = 0]
    /\ osOpen = {}
    /\ peer = [fd \in Fds |-> Quiet]
    /\ epoch = [i \in Slots |-> 0]

Next ==
    \/ \E t \in Threads :
        \/ \E fd \in Fds : OpenFd(t, fd) \/ Register(t, fd)
        \/ \E c \in Presentable :
             \/ \E closing \in BOOLEAN : Release(t, c, closing)
             \/ \E kind \in {"read", "write"} : IOBegin(t, c, kind)
             \/ ProtectedBegin(t, c) \/ PeerPidBegin(t, c)
        \/ CloseFd(t) \/ IOLock(t) \/ IOData(t) \/ ProtectedBody(t)
        \/ PeerCred(t)
    \/ \E fd \in Fds : PeerSend(fd) \/ PeerHangup(fd)

\* Threads that are inside a pool call keep running, except that a read
\* with nothing to read stays blocked; the peer of a socket eventually
\* sends or hangs up.  An interrupted call (EINTR) is not assumed ever to
\* happen, and idle threads need not start new calls.
Fairness ==
    /\ \A t \in Threads :
         WF_vars(CloseFd(t) \/ IOLock(t) \/ IOTransfer(t) \/ ProtectedBody(t)
                 \/ PeerCred(t))
    /\ \A fd \in Fds : WF_vars(PeerSend(fd) \/ PeerHangup(fd))

Spec == Init /\ [][Next]_vars /\ Fairness

-----------------------------------------------------------------------------
TypeOK ==
    /\ fds \in [Slots -> Fds \cup {FD_FREE}]
    /\ generations \in [Slots -> 0..GenMod-1]
    /\ owner \in Threads \cup {NoThread}
    /\ pc \in [Threads -> {"idle", "close_fd", "io_lock", "io_data",
                           "prot_body", "peer_cred"}]
    /\ owned \in [Threads -> SUBSET Fds]
    /\ held \in [Threads -> [h : [gen : 0..GenMod-1, low : 0..MaxFds+1],
                             e : -1..MaxEpoch]]
    /\ osOpen \subseteq Fds
    /\ peer \in [Fds -> [avail : 0..1, hup : BOOLEAN]]
    /\ epoch \in [Slots -> 0..MaxEpoch]

(***************************************************************************)
(* Stale handles never act.  Whenever a thread is past validation inside  *)
(* a read/write transfer, a protected action or a peer-credential query,  *)
(* the slot it acts on is still in the registration its handle was issued *)
(* for: no handle kept                                                     *)
(* from before a close reaches the fd of a later registration of the same *)
(* slot (validate_handle's generation check, done under the mutex).       *)
(***************************************************************************)
HandleSafety ==
    \A t \in Threads :
        pc[t] \in {"io_data", "prot_body", "peer_cred"} =>
            /\ epoch[op[t].idx] = op[t].e
            /\ fds[op[t].idx] # FD_FREE

(***************************************************************************)
(* Every open fd has exactly one owner: a pool slot, the thread holding   *)
(* it, or the thread about to close it.  Register's rollback on a failed  *)
(* on_register and release's freeing of the slot keep an fd from being    *)
(* both in the pool and handed back, or from leaking.                     *)
(***************************************************************************)
Holders(fd) ==
    { <<"slot", i>> : i \in {i \in Slots : fds[i] = fd} }
    \cup { <<"thread", t>> : t \in {t \in Threads : fd \in owned[t]} }
    \cup { <<"closing", t>> :
             t \in {t \in Threads : pc[t] = "close_fd" /\ op[t].fd = fd} }

FdOwnership ==
    \A fd \in Fds : Cardinality(Holders(fd)) = IF fd \in osOpen THEN 1 ELSE 0

LiveSlots == {i \in Slots : fds[i] # FD_FREE}
AbsLive == [h \in {CurrentHandle(i) : i \in LiveSlots} |->
              fds[HandleIndex(h)]]
AbsRetired == UNION { {HandleOf(e, i) : e \in 0..epoch[i]-1} : i \in Slots }

Abstract == INSTANCE HandleTable
    WITH Handles <- UNION { {HandleOf(e, i) : e \in 0..MaxEpoch} : i \in Slots },
         FdValues <- Fds, live <- AbsLive, retired <- AbsRetired

ImplementsHandleTable == Abstract!Spec
=============================================================================
