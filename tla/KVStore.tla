------------------------------ MODULE KVStore ------------------------------
(***************************************************************************)
(* What the storage engine promises its callers: a map from keys to        *)
(* values.  A call is accepted, later it takes effect and is answered in   *)
(* one step.  Calls made after close are refused, and so are the calls     *)
(* whose key or value is too large.  Nothing here knows of memtables,      *)
(* files or sequence numbers.                                              *)
(*                                                                         *)
(* The store keeps versions of a key; its value is the newest of them.     *)
(* Where writing to the disk can fail, a put or delete can fail, and with  *)
(* it, or silently when the store is closed, versions can be lost: a key   *)
(* then has the newest version that is left.  A call that is answered "ok" *)
(* before close loses nothing that a lookup would see.                     *)
(***************************************************************************)
EXTENDS Naturals

CONSTANTS
  Client,        \* callers
  Key, Value,    \* keys, values
  None,          \* no value
  Idle,          \* the caller is not in a call
  TooLarge,      \* the calls refused for their size
  WritesFail,    \* can writing to the disk fail?
  ReadsFail      \* can reading from the disk fail?

VARIABLES
  versions,      \* versions[k]: the versions of k that the store has
  closed,
  pending,       \* pending[c]: the call of c that is not answered yet, or Idle
  answer         \* answer[c]: the last answer c was given

vars == <<versions, closed, pending, answer>>

(* A delete is a version too, with the value None.                          *)
Version == [at : Nat, val : Value \cup {None}]
Request == [op : {"put"}, key : Key, val : Value]
             \cup [op : {"delete", "get", "close"}, key : Key, val : {None}]
Answer  == [tag : {"ok", "closed", "invalid", "failed"}, val : Value \cup {None}]
Ok(v) == [tag |-> "ok", val |-> v]
Error(tag) == [tag |-> tag, val |-> None]

TypeOK ==
  /\ versions \in [Key -> SUBSET Version]
  /\ closed \in BOOLEAN
  /\ pending \in [Client -> Request \cup {Idle}]
  /\ answer \in [Client -> Answer]

Init ==
  /\ versions = [k \in Key |-> {}]
  /\ closed = FALSE
  /\ pending = [c \in Client |-> Idle]
  /\ answer = [c \in Client |-> Ok(None)]

(* The values of the newest version of k: there is only one.                *)
IsNewest(k, n) == n \in versions[k] /\ \A v \in versions[k] : v.at <= n.at
IsValue(k, val) ==
  IF versions[k] = {} THEN val = None
  ELSE \E n \in versions[k] : IsNewest(k, n) /\ val = n.val

Accept(c, r) ==
  /\ pending[c] = Idle
  /\ ~closed /\ r \notin TooLarge
  /\ pending' = [pending EXCEPT ![c] = r]
  /\ UNCHANGED <<versions, closed, answer>>

(* A call that is answered at once.  Closing a closed store is fine.        *)
Refuse(c, r) ==
  /\ pending[c] = Idle
  /\ closed \/ r \in TooLarge
  /\ answer' = [answer EXCEPT ![c] =
                  IF ~closed THEN Error("invalid")
                  ELSE IF r.op = "close" THEN Ok(None)
                  ELSE Error("closed")]
  /\ UNCHANGED <<versions, closed, pending>>

Pending(c, ops) == pending[c] # Idle /\ pending[c].op \in ops
Reply(c, a) ==
  /\ pending' = [pending EXCEPT ![c] = Idle]
  /\ answer' = [answer EXCEPT ![c] = a]

(* The new version is newer than all others of its key.  Older ones of this *)
(* key may be forgotten.                                                    *)
Write(k, val) ==
  /\ versions' = [versions EXCEPT ![k] = versions'[k]]
  /\ \E n \in versions'[k] :
       /\ n.val = val
       /\ \A v \in versions[k] : v.at < n.at
       /\ versions'[k] \subseteq versions[k] \cup {n}

DoWrite(c) ==
  /\ Pending(c, {"put", "delete"})
  /\ Write(pending[c].key, pending[c].val)
  /\ Reply(c, Ok(None))
  /\ UNCHANGED closed

(* Versions of any keys and any age are lost, and nothing else happens.     *)
Lose ==
  /\ WritesFail
  /\ versions' \in [Key -> SUBSET Version]
  /\ \A k \in Key : versions'[k] \subseteq versions[k]

FailWrite(c) ==
  /\ Pending(c, {"put", "delete"})
  /\ Lose
  /\ Reply(c, Error("failed"))
  /\ UNCHANGED closed

DoGet(c) ==
  /\ Pending(c, {"get"})
  /\ \E val \in Value \cup {None} : IsValue(pending[c].key, val) /\ Reply(c, Ok(val))
  /\ UNCHANGED <<versions, closed>>

FailGet(c) ==
  /\ Pending(c, {"get"})
  /\ ReadsFail
  /\ Reply(c, Error("failed"))
  /\ UNCHANGED <<versions, closed>>

LoseOnClose(c) ==
  /\ Pending(c, {"close"})
  /\ Lose
  /\ UNCHANGED <<closed, pending, answer>>

DoClose(c) ==
  /\ Pending(c, {"close"})
  /\ closed' = TRUE
  /\ Reply(c, Ok(None))
  /\ UNCHANGED versions

Next ==
  \E c \in Client :
    \/ \E r \in Request : Accept(c, r) \/ Refuse(c, r)
    \/ DoWrite(c) \/ FailWrite(c)
    \/ DoGet(c) \/ FailGet(c)
    \/ DoClose(c) \/ LoseOnClose(c)

Spec == Init /\ [][Next]_vars
=============================================================================
