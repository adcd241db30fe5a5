-------------------------------- MODULE KVApp --------------------------------
(***************************************************************************)
(* The key-value application (App/KVApp.cpp): the codec that puts a        *)
(* request into the payload of a transaction, and the executor that every  *)
(* replica runs.  A value is represented by its length, a key is one of    *)
(* Key; the in-memory store and Redis behave alike.                        *)
(***************************************************************************)
EXTENDS Naturals, Sequences, FiniteSets

CONSTANTS
    Key,         \* the keys
    MaxData,     \* longest value that fits in PAYLOAD_SIZE with its key and header
    MaxReply     \* MAX_VALUE_SIZE of MsgReply

ASSUME DataAssumption == MaxData \in Nat /\ MaxReply \in Nat

OpType == {"SET", "GET", "DEL"}

\* value is 0 but for SET.
AppRequest(client, req, op, key, value) ==
    [client |-> client, req |-> req, op |-> op, key |-> key, value |-> value]

NoPayload == [op |-> "INVALID"]

\* A request that is too long leaves the transaction with filler instead.
encode(req) == IF req.value <= MaxData THEN req ELSE NoPayload

\* The filler does not decode: its lengths exceed the payload.
CanDecode(payload) == payload # NoPayload

AppReply(status, value, del) == [status |-> status, value |-> value, del |-> del]

ErrorReply == AppReply("ERROR", 0, 0)

\* store maps the keys that are present to their values.
execMemory(store, req) ==
    CASE req.op = "SET" -> AppReply("OK", 0, 0)
      [] req.op = "GET" /\ req.key \in DOMAIN store -> AppReply("OK", store[req.key], 0)
      [] req.op = "GET" /\ req.key \notin DOMAIN store -> AppReply("NOT_FOUND", 0, 0)
      [] req.op = "DEL" -> AppReply("OK", 0, IF req.key \in DOMAIN store THEN 1 ELSE 0)

\* The map f with entry x, new or overwritten.
WithEntry(f, x, value) == [y \in DOMAIN f \cup {x} |-> IF y = x THEN value ELSE f[y]]

StoreAfter(store, req) ==
    CASE req.op = "SET" -> WithEntry(store, req.key, req.value)
      [] req.op = "GET" -> store
      [] req.op = "DEL" -> [k \in DOMAIN store \ {req.key} |-> store[k]]

dedupKey(req) == <<req.client, req.req>>

\* Mutant: a request that was executed before is executed again.
execute_again(kv, req) ==
    [store |-> StoreAfter(kv.store, req),
     cache |-> WithEntry(kv.cache, dedupKey(req), execMemory(kv.store, req))]

\* The executor's state after a request; its answer is in the cache.
execute(kv, req) ==
    IF dedupKey(req) \in DOMAIN kv.cache THEN kv
    ELSE [store |-> StoreAfter(kv.store, req),
          cache |-> WithEntry(kv.cache, dedupKey(req), execMemory(kv.store, req))]

\* What MsgReply carries of a reply: at most MaxReply bytes of the value.
MsgReply(cid, tid, rep) ==
    [cid |-> cid, tid |-> tid, rep |-> [rep EXCEPT !.value = IF @ > MaxReply THEN MaxReply ELSE @]]
=============================================================================
