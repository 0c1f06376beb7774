-------------------------- MODULE PlatformSettings --------------------------
(***************************************************************************)
(* The platform's settings and the requests that update several of them in *)
(* one READ COMMITTED transaction, key by key in the order of the request  *)
(* schema: each key is looked up, compared with the version the request    *)
(* expects, and written; a written row is locked until the transaction     *)
(* ends.  Values are left out.                                             *)
(***************************************************************************)
EXTENDS Naturals, Sequences

CONSTANTS
  SettingOrder,     \* the keys in the order of the schema
  Updates,          \* requests
  NoUpdate,         \* no request; also "no version is expected"
  Expectations      \* what a request may expect of its keys' versions

SettingKeys == {SettingOrder[i] : i \in DOMAIN SettingOrder}

ASSUME PlatformSettingsAssumption ==
  /\ SettingOrder \in Seq(SettingKeys) /\ NoUpdate \notin Updates \cup Nat
  /\ Expectations \subseteq [SettingKeys -> Nat \cup {NoUpdate}]

VARIABLES
  setting,   \* PlatformSetting.version (0: no row)
  update     \* where each request is

settings == <<setting, update>>

UpdateSteps == {"new", "find", "write", "commit", "done", "failed"}

\* todo: the keys still to be written, each with its place in the body; seen: the
\* version just read; wrote: the versions written and not yet committed.
NewUpdate == [at |-> "new", todo |-> <<>>, expects |-> [k \in SettingKeys |-> NoUpdate],
              seen |-> 0, wrote |-> [k \in SettingKeys |-> 0]]

\* What a body, or a part of one, can be.
Todos == UNION {[keys -> DOMAIN SettingOrder] : keys \in SUBSET SettingKeys}

SettingsOK ==
  /\ setting \in [SettingKeys -> Nat]
  /\ update \in [Updates -> [at : UpdateSteps, todo : Todos,
                             expects : [SettingKeys -> Nat \cup {NoUpdate}], seen : Nat,
                             wrote : [SettingKeys -> Nat]]]

SettingsInit ==
  /\ setting = [k \in SettingKeys |-> 0]
  /\ update = [u \in Updates |-> NewUpdate]

UpdateAt(u, step) == update[u].at = step
FirstKey(u) ==
  LET todo == update[u].todo
  IN  CHOOSE k \in DOMAIN todo : \A other \in DOMAIN todo : todo[k] <= todo[other]
Written(u) ==
  LET todo == update[u].todo IN [k \in DOMAIN todo \ {FirstKey(u)} |-> todo[k]]
Running(u) == update[u].at \in {"find", "write", "commit"}

\* The keys of a body come out of the schema in the schema's order, whatever order
\* they were sent in.  (The first form leaves them as they were.)
Place(k) == CHOOSE i \in DOMAIN SettingOrder : SettingOrder[i] = k
AsSent(body) == body
Parsed(body) == [k \in DOMAIN body |-> Place(k)]

\* The route: an administrator's request, parsed.
Bodies ==
  {body \in Todos : /\ DOMAIN body # {}
                    /\ \A j, k \in DOMAIN body : body[j] = body[k] => j = k}
PutSettings(u, body, expects) ==
  /\ UpdateAt(u, "new")
  /\ update' = [update EXCEPT ![u] = [NewUpdate EXCEPT !.at = "find", !.todo = Parsed(body),
                                                       !.expects = expects]]
  /\ UNCHANGED setting

\* An error, a conflict or a lost connection rolls the transaction back.
RollBack(u) == update' = [update EXCEPT ![u].at = "failed"] /\ UNCHANGED setting

FindSetting(u) ==
  LET k == FirstKey(u) IN
  /\ UpdateAt(u, "find")
  /\ \/ /\ update[u].expects[k] \in {NoUpdate, setting[k]}
        /\ update' = [update EXCEPT ![u].at = "write", ![u].seen = setting[k]]
        /\ UNCHANGED setting
     \/ update[u].expects[k] \notin {NoUpdate, setting[k]} /\ RollBack(u)

\* The row was written, or inserted, by a transaction that is still running.
Holds(u, k) == Running(u) /\ update[u].wrote[k] > 0
SettingHeld(k) == \E u \in Updates : Holds(u, k)

\* The row is updated by its id, whatever its version has become; a row that was
\* not there when it was looked for is inserted, which fails if it is there now.
WriteSetting(u) ==
  LET k == FirstKey(u) IN
  /\ UpdateAt(u, "write") /\ ~SettingHeld(k)
  /\ \/ /\ update[u].seen = 0 => setting[k] = 0
        /\ update' = [update EXCEPT ![u].at = IF DOMAIN Written(u) = {} THEN "commit" ELSE "find",
                                    ![u].todo = Written(u), ![u].wrote[k] = update[u].seen + 1]
        /\ UNCHANGED setting
     \/ update[u].seen = 0 /\ setting[k] # 0 /\ RollBack(u)

CommitSettings(u) ==
  /\ UpdateAt(u, "commit")
  /\ setting' = [k \in SettingKeys |->
       IF update[u].wrote[k] > 0 THEN update[u].wrote[k] ELSE setting[k]]
  /\ update' = [update EXCEPT ![u].at = "done"]

SettingsNext ==
  \E u \in Updates :
    \/ \E body \in Bodies, expects \in Expectations : PutSettings(u, body, expects)
    \/ FindSetting(u) \/ WriteSetting(u) \/ CommitSettings(u)
    \/ Running(u) /\ RollBack(u)

SettingsSpec == SettingsInit /\ [][SettingsNext]_settings

-----------------------------------------------------------------------------
\* Updates of several settings do not wait for each other in a circle, whatever
\* the order their keys were sent in: among any that run, one waits for no other.
WaitsFor(u, v) == u # v /\ UpdateAt(u, "write") /\ Holds(v, FirstKey(u))
NoCircularWait ==
  \A some \in (SUBSET Updates) \ {{}} : \E u \in some : \A v \in some : ~WaitsFor(u, v)
=============================================================================
