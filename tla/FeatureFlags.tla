---------------------------- MODULE FeatureFlags ----------------------------
(***************************************************************************)
(* Feature flags, their overrides per organization, the calls of           *)
(* administrators that change them, and the evaluation of a flag.  A call  *)
(* stops at every await between two queries.                               *)
(***************************************************************************)
EXTENDS Tenants

CONSTANTS
  FlagIds, Keys,
  KeyOf,     \* key a row with that id is created with
  Values,    \* JSON values of a flag or an override
  Bucket,    \* external: SHA-256 of organization and key, modulo 100
  FlagCalls  \* slots for calls of administrators

(* What evaluateByType can see of a JSON value: a missing field reads as   *)
(* FALSE, 0 and no plans.  An update does not check the percentage.        *)
Value == [enabled : BOOLEAN, percentage : Int, plans : SUBSET Plans]
FlagTypes == {"BOOLEAN", "PERCENTAGE", "PLAN"}
NoValue == [enabled |-> FALSE, percentage |-> 0, plans |-> {}]

ASSUME FlagsConstants ==
  /\ KeyOf \in [FlagIds -> Keys]
  /\ Values \subseteq Value /\ NoValue \in Values
  /\ Bucket \in [Keys -> [Orgs -> 0..99]]
  /\ NoPlan \notin Plans

VARIABLES
  flag,      \* feature_flags rows
  override,  \* organization_feature_flags rows
  fcall      \* calls in flight

fvars == <<flag, override, fcall>>

-----------------------------------------------------------------------------
(* Types *)

Flag == [state : {"none", "live", "gone"}, type : FlagTypes, value : Value, active : BOOLEAN]

(* row counts the rows the pair has had: another row has another id *)
Override == [exists : BOOLEAN, row : Nat, enabled : BOOLEAN, value : Value]
NoOverride == [exists |-> FALSE, row |-> 0, enabled |-> FALSE, value |-> NoValue]

FlagOps == {"create", "update", "delete", "set", "remove"}
FlagCall == [op : FlagOps \cup {"none"}, pc : {"read", "readOrg", "write"},
             flag : FlagIds, org : Orgs, row : Nat]
NoCall == [op |-> "none", pc |-> "read", flag |-> CHOOSE f \in FlagIds : TRUE,
           org |-> CHOOSE o \in Orgs : TRUE, row |-> 0]

FTypeOK ==
  /\ flag \in [FlagIds -> Flag]
  /\ override \in [FlagIds -> [Orgs -> Override]]
  /\ fcall \in [FlagCalls -> FlagCall]

Live(f) == flag[f].state = "live"
Taken(key) == \E f \in FlagIds : Live(f) /\ KeyOf[f] = key

At(c, op, pc) == fcall[c].op = op /\ fcall[c].pc = pc
FAnswered(c) == fcall' = [fcall EXCEPT ![c] = NoCall]
FGoes(c, pc) == fcall' = [fcall EXCEPT ![c].pc = pc]

Optional(S) == {{}} \cup {{s} : s \in S}
Given(x, old) == IF x = {} THEN old ELSE CHOOSE v \in x : TRUE

-----------------------------------------------------------------------------
(* Calls of administrators *)

FlagBegin(c, op, f, o) ==
  /\ fcall[c].op = "none"
  /\ op = "create" => flag[f].state = "none"
  /\ fcall' = [fcall EXCEPT ![c] = [NoCall EXCEPT !.op = op, !.flag = f, !.org = o]]
  /\ UNCHANGED <<flag, override>>

(* The first query of a call: 409 or 404, or on to the next. *)
FlagRead(c) ==
  LET k == fcall[c]
      found == override[k.flag][k.org]
  IN
  /\ k.pc = "read"
  /\ \/ k.op = "create" /\ IF Taken(KeyOf[k.flag]) THEN FAnswered(c) ELSE FGoes(c, "write")
     \/ k.op \in {"update", "delete"} /\ IF Live(k.flag) THEN FGoes(c, "write") ELSE FAnswered(c)
     \/ k.op = "set" /\ IF Live(k.flag) THEN FGoes(c, "readOrg") ELSE FAnswered(c)
     \/ k.op = "remove" /\ IF found.exists
                           THEN fcall' = [fcall EXCEPT ![c].pc = "write", ![c].row = found.row]
                           ELSE FAnswered(c)
  /\ UNCHANGED <<flag, override>>

FlagReadOrg(c) ==
  /\ fcall[c].pc = "readOrg"
  /\ IF org[fcall[c].org].live THEN FGoes(c, "write") ELSE FAnswered(c)
  /\ UNCHANGED <<flag, override>>

(* The key is unique: a flag created meanwhile makes the insert fail. *)
createFlag(c, type, value, active) ==
  LET f == fcall[c].flag IN
  /\ At(c, "create", "write")
  /\ flag' = IF Taken(KeyOf[f]) \/ flag[f].state # "none" THEN flag
             ELSE [flag EXCEPT ![f] = [state |-> "live", type |-> type, value |-> value,
                                       active |-> active]]
  /\ FAnswered(c)
  /\ UNCHANGED override

(* The fields of the body; a new type leaves the value as it is. *)
updateFlag(c, type, value, active) ==
  LET f == fcall[c].flag IN
  /\ At(c, "update", "write")
  /\ flag' = IF ~Live(f) THEN flag
             ELSE [flag EXCEPT ![f].type = Given(type, @), ![f].value = Given(value, @),
                               ![f].active = Given(active, @)]
  /\ FAnswered(c)
  /\ UNCHANGED override

(* The overrides go with their flag (onDelete: Cascade). *)
deleteFlag(c) ==
  LET f == fcall[c].flag IN
  /\ At(c, "delete", "write")
  /\ flag' = IF Live(f) THEN [flag EXCEPT ![f].state = "gone"] ELSE flag
  /\ override' = IF Live(f)
                 THEN [override EXCEPT ![f] = [o \in Orgs |-> [NoOverride EXCEPT !.row = override[f][o].row]]]
                 ELSE override
  /\ FAnswered(c)

(* An upsert; both fields have defaults, so that the value is always       *)
(* replaced.  Without the flag the foreign key fails.                      *)
setOverride(c, enabled, value) ==
  LET f == fcall[c].flag
      o == fcall[c].org
      old == override[f][o]
  IN
  /\ At(c, "set", "write")
  /\ override' = IF ~Live(f) THEN override
                 ELSE [override EXCEPT ![f][o] =
                         [exists |-> TRUE, row |-> IF old.exists THEN old.row ELSE old.row + 1,
                          enabled |-> enabled, value |-> value]]
  /\ FAnswered(c)
  /\ UNCHANGED flag

(* The row that was found; a newer one of the same pair stays. *)
removeOverride(c) ==
  LET k == fcall[c]
      old == override[k.flag][k.org]
  IN
  /\ At(c, "remove", "write")
  /\ override' = IF old.exists /\ old.row = k.row
                 THEN [override EXCEPT ![k.flag][k.org] = [NoOverride EXCEPT !.row = old.row]]
                 ELSE override
  /\ FAnswered(c)
  /\ UNCHANGED flag

FlagWrite(c) ==
  /\ fcall[c].pc = "write"
  /\ \/ \E t \in FlagTypes, v \in Values, a \in BOOLEAN : createFlag(c, t, v, a)
     \/ \E t \in Optional(FlagTypes), v \in Optional(Values), a \in Optional(BOOLEAN) :
          updateFlag(c, t, v, a)
     \/ \E b \in BOOLEAN, v \in Values : setOverride(c, b, v)
     \/ deleteFlag(c) \/ removeOverride(c)

FlagsQuiet(c) ==
  \/ FlagRead(c) \/ FlagReadOrg(c)
  \/ \E op \in FlagOps, f \in FlagIds, o \in Orgs : FlagBegin(c, op, f, o)

-----------------------------------------------------------------------------
(* Evaluation *)

InRollout(bucket, percentage) ==
  percentage > 0 /\ (percentage >= 100 \/ bucket < percentage)

evaluateByType(type, value, enabled, plan, key, o) ==
  enabled /\ CASE type = "BOOLEAN" -> value.enabled
               [] type = "PERCENTAGE" -> InRollout(Bucket[key][o], value.percentage)
               [] type = "PLAN" -> value.plans = {} \/ plan \in value.plans

(* The flag as the first query reads it, and the answer once the second    *)
(* has read the override of that flag's id.                                *)
FlagByKey(key) == IF Taken(key) THEN {CHOOSE f \in FlagIds : Live(f) /\ KeyOf[f] = key} ELSE {}

(* Mutant: the override's own value is not looked at. *)
WithOverrideFlagValue(f, row, plan, o) ==
  IF override[f][o].exists
  THEN evaluateByType(row.type, row.value, override[f][o].enabled, plan, KeyOf[f], o)
  ELSE evaluateByType(row.type, row.value, TRUE, plan, KeyOf[f], o)

WithOverride(f, row, plan, o) ==
  IF override[f][o].exists
  THEN evaluateByType(row.type, override[f][o].value, override[f][o].enabled, plan, KeyOf[f], o)
  ELSE evaluateByType(row.type, row.value, TRUE, plan, KeyOf[f], o)
=============================================================================
