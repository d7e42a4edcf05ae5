--------------------------- MODULE Notifications ----------------------------
(***************************************************************************)
(* Notifications and their preferences.  A request stops at every await    *)
(* between two queries; what is one query is one step.  The sweep that     *)
(* removes old notifications is a job of the maintenance queue.            *)
(***************************************************************************)
EXTENDS Naturals

CONSTANTS
  Users, Types,   \* accounts, and NotificationType
  Notes,          \* ids of notifications
  Calls           \* request slots

ASSUME NotificationsConstants == Users # {} /\ Types # {} /\ Notes # {}

VARIABLES
  note,    \* notifications rows
  pref,    \* notification_preferences rows
  call,    \* requests in flight
  chosen   \* history: what each user has set last, field by field

nvars == <<note, pref, call, chosen>>

-----------------------------------------------------------------------------
(* Types *)

(* reads: how often readAt was written; 0 is an unread notification. *)
Note == [state : {"none", "live", "gone"}, user : Users, type : Types, reads : Nat]

Settings == [inApp : BOOLEAN, muted : SUBSET Types]
Defaults == [inApp |-> TRUE, muted |-> {}]
Pref == [exists : BOOLEAN, set : Settings]

(* allowed: the preferences let the type through at some moment of the call *)
Call == [pc : {"idle", "read", "create", "mark", "delete", "prefCreate"},
         op : {"none", "create", "mark", "delete", "get"},
         user : Users, type : Types, note : Notes, allowed : BOOLEAN]

Idle == [pc |-> "idle", op |-> "none", user |-> CHOOSE u \in Users : TRUE,
         type |-> CHOOSE t \in Types : TRUE, note |-> CHOOSE n \in Notes : TRUE,
         allowed |-> FALSE]

NTypeOK ==
  /\ note \in [Notes -> Note]
  /\ pref \in [Users -> Pref]
  /\ call \in [Calls -> Call]
  /\ chosen \in [Users -> Settings]

(* A user without a row is notified; so is one with the defaults. *)
Delivered(p, t) == ~p.exists \/ (p.set.inApp /\ t \notin p.set.muted)

NInit ==
  /\ note = [n \in Notes |-> [state |-> "none", user |-> Idle.user, type |-> Idle.type, reads |-> 0]]
  /\ pref = [u \in Users |-> [exists |-> FALSE, set |-> Defaults]]
  /\ call = [c \in Calls |-> Idle]
  /\ chosen = [u \in Users |-> Defaults]

Answered(c) == call' = [call EXCEPT ![c] = Idle]
Goes(c, pc) == call' = [call EXCEPT ![c].pc = pc]

-----------------------------------------------------------------------------
(* Operations *)

Begin(c, op, u, t, n) ==
  /\ call[c] = Idle
  /\ op = "create" => note[n].state = "none" /\ \A d \in Calls : call[d].op = "create" => call[d].note # n
  /\ call' = [call EXCEPT ![c] = [pc |-> "read", op |-> op, user |-> u, type |-> t, note |-> n,
                                  allowed |-> Delivered(pref[u], t)]]
  /\ UNCHANGED <<note, pref, chosen>>

(* Mutant: a user who has switched notifications off is notified. *)
createNotificationRead(c) ==
  /\ call[c].pc = "read" /\ call[c].op = "create"
  /\ IF call[c].type \notin pref[call[c].user].set.muted THEN Goes(c, "create") ELSE Answered(c)
  /\ UNCHANGED <<note, pref, chosen>>

createNotification(c) ==
  /\ call[c].pc = "read" /\ call[c].op = "create"
  /\ IF Delivered(pref[call[c].user], call[c].type) THEN Goes(c, "create") ELSE Answered(c)
  /\ UNCHANGED <<note, pref, chosen>>

CreateNotification(c) ==
  /\ call[c].pc = "create"
  /\ note' = [note EXCEPT ![call[c].note] = [state |-> "live", user |-> call[c].user,
                                             type |-> call[c].type, reads |-> 0]]
  /\ Answered(c)
  /\ UNCHANGED <<pref, chosen>>

Own(c) == LET n == note[call[c].note] IN n.state = "live" /\ n.user = call[c].user

markAsRead(c) ==
  /\ call[c].pc = "read" /\ call[c].op = "mark"
  /\ IF Own(c) /\ note[call[c].note].reads = 0 THEN Goes(c, "mark") ELSE Answered(c)
  /\ UNCHANGED <<note, pref, chosen>>

(* The row may be gone by now: P2025. *)
MarkAsRead(c) ==
  /\ call[c].pc = "mark"
  /\ note' = IF note[call[c].note].state = "live"
             THEN [note EXCEPT ![call[c].note].reads = @ + 1] ELSE note
  /\ Answered(c)
  /\ UNCHANGED <<pref, chosen>>

markAllAsRead(u) ==
  /\ note' = [n \in Notes |-> IF note[n].state = "live" /\ note[n].user = u /\ note[n].reads = 0
                              THEN [note[n] EXCEPT !.reads = 1] ELSE note[n]]
  /\ UNCHANGED <<pref, call, chosen>>

deleteNotification(c) ==
  /\ call[c].pc = "read" /\ call[c].op = "delete"
  /\ IF Own(c) THEN Goes(c, "delete") ELSE Answered(c)
  /\ UNCHANGED <<note, pref, chosen>>

DeleteNotification(c) ==
  /\ call[c].pc = "delete"
  /\ note' = [note EXCEPT ![call[c].note].state = "gone"]
  /\ Answered(c)
  /\ UNCHANGED <<pref, chosen>>

getPreferences(c) ==
  /\ call[c].pc = "read" /\ call[c].op = "get"
  /\ IF pref[call[c].user].exists THEN Answered(c) ELSE Goes(c, "prefCreate")
  /\ UNCHANGED <<note, pref, chosen>>

(* Mutant: the missing row is upserted with its defaults. *)
CreatePreferencesUpsert(c) ==
  /\ call[c].pc = "prefCreate"
  /\ pref' = [pref EXCEPT ![call[c].user] = [exists |-> TRUE, set |-> Defaults]]
  /\ Answered(c)
  /\ UNCHANGED <<note, chosen>>

(* userId is unique: a row created meanwhile stays, and the call fails. *)
CreatePreferences(c) ==
  /\ call[c].pc = "prefCreate"
  /\ pref' = IF pref[call[c].user].exists THEN pref
             ELSE [pref EXCEPT ![call[c].user] = [exists |-> TRUE, set |-> Defaults]]
  /\ Answered(c)
  /\ UNCHANGED <<note, chosen>>

(* An upsert of the fields that the body has; calls that wait to create a  *)
(* notification may now be allowed to.                                     *)
updatePreferences(u, inApp, muted) ==
  LET new == [inApp |-> IF inApp = {} THEN pref[u].set.inApp ELSE CHOOSE b \in inApp : TRUE,
              muted |-> IF muted = {} THEN pref[u].set.muted ELSE CHOOSE m \in muted : TRUE]
      p == [exists |-> TRUE, set |-> new] IN
  /\ inApp # {} \/ muted # {}
  /\ pref' = [pref EXCEPT ![u] = p]
  /\ chosen' = [chosen EXCEPT ![u] =
                  [inApp |-> IF inApp = {} THEN @.inApp ELSE new.inApp,
                   muted |-> IF muted = {} THEN @.muted ELSE new.muted]]
  /\ call' = [c \in Calls |-> IF call[c].pc # "idle" /\ call[c].user = u
                              THEN [call[c] EXCEPT !.allowed = @ \/ Delivered(p, call[c].type)]
                              ELSE call[c]]
  /\ UNCHANGED note

(* deleteMany of the notifications created before the retention period *)
cleanupNotifications ==
  /\ \E old \in SUBSET {n \in Notes : note[n].state = "live"} :
       note' = [n \in Notes |-> IF n \in old THEN [note[n] EXCEPT !.state = "gone"] ELSE note[n]]
  /\ UNCHANGED <<pref, call, chosen>>

Optional(S) == {{}} \cup {{s} : s \in S}

NNext ==
  \/ \E c \in Calls, u \in Users, t \in Types, n \in Notes, op \in {"create", "mark", "delete", "get"} :
       Begin(c, op, u, t, n)
  \/ \E c \in Calls : \/ createNotification(c) \/ CreateNotification(c)
                      \/ markAsRead(c) \/ MarkAsRead(c)
                      \/ deleteNotification(c) \/ DeleteNotification(c)
                      \/ getPreferences(c) \/ CreatePreferences(c)
  \/ \E u \in Users : \/ markAllAsRead(u)
                      \/ \E i \in Optional(BOOLEAN), m \in Optional(SUBSET Types) :
                           updatePreferences(u, i, m)

-----------------------------------------------------------------------------
(* Properties *)

(* A notification is only created if the preferences let its type through  *)
(* at some moment since the call began (notification.service.js,           *)
(* createNotification).                                                    *)
MutedRespected == \A c \in Calls : call[c].pc = "create" => call[c].allowed

(* The stored preferences are what the user has set last, whatever reads   *)
(* of preferences that did not exist yet are in flight (getPreferences).   *)
PreferencesKept == \A u \in Users : pref[u].exists => pref[u].set = chosen[u]
=============================================================================
