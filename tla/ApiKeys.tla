------------------------------ MODULE ApiKeys -------------------------------
(***************************************************************************)
(* API keys: their rows, the calls of their owners, and what               *)
(* authenticateApiKey and requireScope let through.  lastUsedAt, which     *)
(* only the list of keys shows, is left out.                               *)
(***************************************************************************)
EXTENDS Tenants

CONSTANTS KeyIds,
          KeyOwner,   \* user who creates a key with that id
          KeyCalls    \* slots for calls of owners

ASSUME KeysConstants == KeyOwner \in [KeyIds -> Users]

VARIABLES key,    \* api_keys rows
          kcall   \* calls in flight

kvars == <<key, kcall>>

(* scoped: the scopes include projects:read *)
Key == [exists : BOOLEAN, scoped : BOOLEAN, expired : BOOLEAN, revoked : BOOLEAN,
        deleted : BOOLEAN]
NoKey == [exists |-> FALSE, scoped |-> FALSE, expired |-> FALSE, revoked |-> FALSE,
          deleted |-> FALSE]

KeyOps == {"revoke", "delete", "restore"}
KeyCall == [op : KeyOps \cup {"none"}, pc : {"read", "write"}, key : KeyIds]
NoKeyCall == [op |-> "none", pc |-> "read", key |-> CHOOSE k \in KeyIds : TRUE]

KTypeOK == key \in [KeyIds -> Key] /\ kcall \in [KeyCalls -> KeyCall]

KAnswered(c) == kcall' = [kcall EXCEPT ![c] = NoKeyCall]

-----------------------------------------------------------------------------

createApiKey(k, scoped) ==
  /\ ~key[k].exists
  /\ key' = [key EXCEPT ![k] = [NoKey EXCEPT !.exists = TRUE, !.scoped = scoped]]
  /\ UNCHANGED kcall

(* expiresAt passes *)
ExpireKey(k) ==
  /\ key[k].exists /\ ~key[k].expired
  /\ key' = [key EXCEPT ![k].expired = TRUE]
  /\ UNCHANGED kcall

KeyBegin(c, op, k) ==
  /\ kcall[c].op = "none"
  /\ kcall' = [kcall EXCEPT ![c] = [op |-> op, pc |-> "read", key |-> k]]
  /\ UNCHANGED key

(* findFirst scoped to the owner, 404 if there is no such key *)
KeyRead(c) ==
  LET k == key[kcall[c].key] IN
  /\ kcall[c].op # "none" /\ kcall[c].pc = "read"
  /\ IF k.exists /\ CASE kcall[c].op = "revoke" -> ~k.revoked /\ ~k.deleted
                      [] kcall[c].op = "delete" -> ~k.deleted
                      [] kcall[c].op = "restore" -> k.deleted
     THEN kcall' = [kcall EXCEPT ![c].pc = "write"]
     ELSE KAnswered(c)
  /\ UNCHANGED key

revokeApiKey(c) ==
  /\ kcall[c].op = "revoke" /\ kcall[c].pc = "write"
  /\ key' = [key EXCEPT ![kcall[c].key].revoked = TRUE]
  /\ KAnswered(c)

deleteApiKey(c) ==
  /\ kcall[c].op = "delete" /\ kcall[c].pc = "write"
  /\ key' = [key EXCEPT ![kcall[c].key].deleted = TRUE]
  /\ KAnswered(c)

(* Mutant: the restored key starts afresh. *)
restoreApiKeyFresh(c) ==
  /\ kcall[c].op = "restore" /\ kcall[c].pc = "write"
  /\ key' = [key EXCEPT ![kcall[c].key].deleted = FALSE, ![kcall[c].key].revoked = FALSE]
  /\ KAnswered(c)

restoreApiKey(c) ==
  /\ kcall[c].op = "restore" /\ kcall[c].pc = "write"
  /\ key' = [key EXCEPT ![kcall[c].key].deleted = FALSE]
  /\ KAnswered(c)

KeyWrite == \/ \E k \in KeyIds : ExpireKey(k) \/ \E b \in BOOLEAN : createApiKey(k, b)
            \/ \E c \in KeyCalls : revokeApiKey(c) \/ deleteApiKey(c) \/ restoreApiKey(c)

KeysQuiet(c) == KeyRead(c) \/ \E op \in KeyOps, k \in KeyIds : KeyBegin(c, op, k)

(* verifyApiKey, then requireScope('projects:read') on the scopes it read *)
KeyAccepted(k) ==
  /\ key[k].exists /\ ~key[k].deleted /\ ~key[k].revoked /\ ~key[k].expired
  /\ user[KeyOwner[k]].allowed
  /\ key[k].scoped
=============================================================================
