------------------------------- MODULE GetConfig -------------------------------
(***************************************************************************)
(* Client::get_config of src/cpp/src/ipc/get_config.cpp: the string,      *)
(* object and typed (int64, double, bool) overloads, get_config_common,   *)
(* the result and error callbacks, and get_resp_value's unwrapping of the *)
(* GetConfiguration response by the last key of the path.                 *)
(*                                                                         *)
(* The IPC exchange (ggipc_call of the raw C API) is the environment: it  *)
(* fails in transport, or the server answers with an error code or with   *)
(* a response map.  Objects are abstracted to their type; a map object    *)
(* keeps its entries (key and type of the value).                          *)
(***************************************************************************)
EXTENDS Integers, Sequences

CONSTANTS
    KeyNames,    \* path elements and map keys
    MaxDepth,    \* gg_max_object_depth (15 in the code)
    MaxEntries   \* bound: entries of the "value" map in a response

ASSUME MaxDepth \in Nat /\ MaxEntries \in Nat

VARIABLES
    path,        \* key_path
    overload,    \* which Client::get_config was called: its value's type
    reply,       \* what ggipc_call produces
    sent,        \* the request went out (ggipc_call was reached)
    err,         \* the std::error_code returned, "none" before the return
    value,       \* the caller's output argument
    allocFails   \* the allocation of a copy (new, std::string::assign) fails

vars == <<path, overload, reply, sent, err, value, allocFails>>

Scalars == {"buf", "i64", "f64", "bool", "null", "list"}
Types == Scalars \cup {"map"}
Obj(t) == [type |-> t, entries |-> <<>>]
Entries == UNION { [1..n -> KeyNames \X Types] : n \in 0..MaxEntries }
MapObj(es) == [type |-> "map", entries |-> es]
Objects == {Obj(t) : t \in Scalars} \cup {MapObj(es) : es \in Entries}
\* The value of entry e, as get_resp_value returns it (a nested map's
\* entries are not explored).
EntryObj(e) == IF e[2] = "map" THEN MapObj(<<>>) ELSE Obj(e[2])

\* The "value" member of a response: missing, or any object.
Responses == {Obj("absent")} \cup Objects
Replies ==
    [kind : {"transport"}] \cup
    [kind : {"remote"}, code : {"ResourceNotFoundError", "UnauthorizedError"}]
    \cup [kind : {"result"}, resp : Responses]

\* Paths of length 0..2, and of MaxDepth and MaxDepth + 1.
Paths == UNION { [1..n -> KeyNames] : n \in 0..2 }
         \cup { [x \in 1..n |-> CHOOSE k \in KeyNames : TRUE] :
                  n \in {MaxDepth, MaxDepth + 1} }
\* std::string, AllocatedObject, int64_t, double, bool
Overloads == {"str", "obj", "i64", "f64", "bool"}
Unset == [type |-> "unset", entries |-> <<>>]

Init ==
    /\ path \in Paths
    /\ overload \in Overloads
    /\ reply \in Replies
    /\ sent = FALSE
    /\ err = "none"
    /\ value = Unset
    /\ allocFails \in BOOLEAN

\* The final key, or "none" for an empty key_path (expected_key = nullptr).
FinalKey(p) == IF Len(p) = 0 THEN "none" ELSE p[Len(p)]

\* mutant: the classic unwrapping without the check that the inner value
\* is not a map
GetRespValueAnyType(resp, fk) ==
    IF resp.type # "map" THEN Obj("invalid")
    ELSE IF fk # "none" /\ Len(resp.entries) = 1
            /\ resp.entries[1][1] = fk
      THEN EntryObj(resp.entries[1])
      ELSE resp

(***************************************************************************)
(* get_resp_value: the response must have a map member "value"            *)
(* (validate_map, else INVALID); a one-entry map whose key is the final   *)
(* key and whose value is not a map is unwrapped to that value.           *)
(***************************************************************************)
GetRespValue(resp, fk) ==
    IF resp.type # "map" THEN Obj("invalid")
    ELSE IF fk # "none" /\ Len(resp.entries) = 1
            /\ resp.entries[1][1] = fk /\ resp.entries[1][2] # "map"
      THEN EntryObj(resp.entries[1])
      ELSE resp

\* A copy needs memory (gg_obj_mem_usage > 0) for every object but a
\* scalar number, bool or null.
NeedsMemory(v) == v.type \in {"buf", "list", "map"}

\* get_config_str_callback: the value must be a buffer; std::string::assign
\* may throw (NOMEM).
StrCallback(resp, fk) ==
    LET v == GetRespValue(resp, fk) IN
    IF v.type = "invalid" THEN [code |-> "INVALID", out |-> Unset]
    ELSE IF v.type # "buf" THEN [code |-> "PARSE", out |-> Unset]
    ELSE IF allocFails THEN [code |-> "NOMEM", out |-> Unset]
    ELSE [code |-> "OK", out |-> v]

(***************************************************************************)
(* get_config_obj_callback: expected_type NULL accepts any type, another  *)
(* must match (PARSE); a value that needs memory is copied into a new     *)
(* allocation (NOMEM when new fails), else stored as it is.               *)
(***************************************************************************)
ObjCallback(resp, fk, expected) ==
    LET v == GetRespValue(resp, fk) IN
    IF v.type = "invalid" THEN [code |-> "INVALID", out |-> Unset]
    ELSE IF expected # "null" /\ expected # v.type
      THEN [code |-> "PARSE", out |-> Unset]
    ELSE IF NeedsMemory(v) /\ allocFails THEN [code |-> "NOMEM", out |-> Unset]
    ELSE [code |-> "OK", out |-> v]

\* get_config_error_callback
ErrorCallback(code) ==
    IF code = "ResourceNotFoundError" THEN "NOENTRY" ELSE "FAILURE"

\* The expected_type each overload passes: GG_TYPE_NULL for an object.
ExpectedType(o) == IF o = "obj" THEN "null" ELSE o

(***************************************************************************)
(* ggipc_call with the callbacks: a transport failure is returned as it   *)
(* is (NOCONN stands for each), an error response goes through the error  *)
(* callback, a result through the result callback.                        *)
(***************************************************************************)
IpcCall(o, fk) ==
    CASE reply.kind = "transport" -> [code |-> "NOCONN", out |-> Unset]
      [] reply.kind = "remote" -> [code |-> ErrorCallback(reply.code), out |-> Unset]
      [] o = "str" -> StrCallback(reply.resp, fk)
      [] OTHER -> ObjCallback(reply.resp, fk, ExpectedType(o))

\* get_config_common: key_path.size() > gg_max_object_depth
TooDeep(p) == Len(p) > MaxDepth

(***************************************************************************)
(* Client::get_config, each overload: get_config_common refuses a deep    *)
(* path before any IPC; otherwise ggipc_call runs the callbacks.  The     *)
(* typed overloads (get_config_overload) assign the value only when the   *)
(* call is OK and the object has the expected type.                        *)
(***************************************************************************)
GetConfigCall ==
    LET r == IpcCall(overload, FinalKey(path)) IN
    /\ err = "none"
    /\ IF TooDeep(path)
         THEN /\ err' = "NOMEM"
              /\ UNCHANGED <<sent, value>>
         ELSE /\ sent' = TRUE
              /\ err' = r.code
              /\ value' = IF overload \in {"str", "obj"} THEN r.out
                          ELSE IF r.code = "OK" /\ r.out.type = overload
                            THEN r.out ELSE Unset
    /\ UNCHANGED <<path, overload, reply, allocFails>>

\* The call has returned to the caller.
Returned ==
    /\ err # "none"
    /\ UNCHANGED vars

Next == GetConfigCall \/ Returned

Spec == Init /\ [][Next]_vars
-----------------------------------------------------------------------------
\* The type each overload's value holds: std::string a buffer, the typed
\* ones their own type, AllocatedObject any.
Fits(o, v) == o = "obj" \/ v.type = IF o = "str" THEN "buf" ELSE o

(***************************************************************************)
(* The reference of spec 6 and 8: with a non-empty path, "value" is       *)
(* unwrapped by the final key iff it is a one-entry map with that key and *)
(* a non-map inner value; otherwise it is returned verbatim.              *)
(***************************************************************************)
SpecValue(resp, p) ==
    IF Len(p) > 0 /\ Len(resp.entries) = 1 /\ resp.entries[1][1] = p[Len(p)]
       /\ resp.entries[1][2] # "map"
      THEN EntryObj(resp.entries[1]) ELSE resp

(***************************************************************************)
(* get_config reports success exactly when it hands the caller a value:   *)
(* on OK the output holds the spec's unwrapped "value" of the response,   *)
(* of the overload's type; on any error the output is left untouched.    *)
(* It takes the unwrapping, the type checks of both callbacks and of      *)
(* get_config_overload, and the error paths together to get this right.  *)
(***************************************************************************)
TypedResult ==
    err # "none" =>
        IF err = "OK"
          THEN /\ reply.kind = "result"
               /\ value = SpecValue(reply.resp, path)
               /\ Fits(overload, value)
          ELSE value = Unset
====
