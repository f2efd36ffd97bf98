----------------------------- MODULE TaxSettings -----------------------------
(* The settings of an organization, for the fiscal module, for the payroll    *)
(* and for its registration.  Each is one row of figures and accounts,        *)
(* created with its defaults by whoever asks for it first, with tables of     *)
(* brackets or rates, each replaced as a whole.  A request is one READ        *)
(* COMMITTED transaction: its writes are seen by others when it commits.      *)
EXTENDS Integers, FiniteSets

CONSTANTS
  SettingsRequests,
  Scopes,             \* the settings there are
  Tables,             \* tables of brackets or rates, by annex or by tax
  ScopeOf(_),         \* the settings a table belongs to
  Keyed,              \* tables whose rows have a unique key
  OpenEnded,          \* those whose last bracket alone has no ceiling
  NoCeiling,
  Contents(_),        \* contents a request may give a table: sets of rows
  DefaultSettings(_), \* the figures of a new organization
  Configurations(_),  \* figures an organization may have set before
  DefaultContent(_),  \* the content of each table at first
  Changes(_),         \* updates of the row: functions on some of its fields
  HasUsableAccounts(_),
  Seed,               \* the author of the default rows, and no table
  MaxOverlapping      \* bound: requests in progress at once

\* Tables belong to settings; no table is the name for none; what is given to a
\* table is finite, and what it has at first has no key twice.
SettingsAssumption ==
  /\ Keyed \subseteq Tables /\ OpenEnded \subseteq Tables
  /\ Seed \notin SettingsRequests /\ Seed \notin Tables
  /\ \A t \in Tables :
       /\ ScopeOf(t) \in Scopes
       /\ \A content \in Contents(t) : IsFiniteSet(content)
  /\ \A t \in Keyed : \A a, b \in DefaultContent(t) : a.key = b.key => a = b

VARIABLES
  settings,     \* committed rows of each of the settings
  table,        \* committed rows of each table
  latest,       \* history: what the latest committed replacement wrote there
  progress,     \* how far each request is
  doing,         \* the uncommitted work of each request
  overlapped    \* history: replacements of a table have overlapped

committed == <<settings, table, latest>>

\* Rows of a table keep their author: equal rows of two requests are two rows.
By(author, content) == {[key |-> c.key, value |-> c.value, by |-> author] : c \in content}
DefaultRows(t) == By(Seed, DefaultContent(t))

NothingDone == [kind |-> "none", scope |-> Seed, created |-> FALSE, row |-> {}, change |-> {},
                target |-> Seed, seen |-> {}, dropped |-> {}, rows |-> {}]

InProgress(r) == progress[r] \notin {"idle", "done", "failed"}
Others(r) == {q \in SettingsRequests \ {r} : InProgress(q)}

\* Others that are about the same settings.
Rivals(r) == {q \in Others(r) : doing[q].scope = doing[r].scope}

\* What the statements of a request see: what is committed and its own writes.
NewSettings(r) == [by |-> r, figures |-> DefaultSettings(doing[r].scope)]
SettingsSeen(r) ==
  settings[doing[r].scope] \cup (IF doing[r].created THEN {NewSettings(r)} ELSE {})
TableSeen(r, t) ==
  IF doing[r].created /\ ScopeOf(t) = doing[r].scope THEN DefaultRows(t) ELSE table[t]

Applied(row, changes) ==
  [row EXCEPT !.figures =
     [f \in DOMAIN @ |-> IF \E c \in changes : f \in DOMAIN c
                         THEN (CHOOSE c \in changes : f \in DOMAIN c)[f] ELSE @[f]]]

(* What the services require of a table's new rows *)

KeysOf(rows) == {row.key : row \in rows}
NoKeyTwice(rows) == Cardinality(KeysOf(rows)) = Cardinality(rows)

OnlyLastIsOpen(rows) ==
  \E last \in rows : \A b \in rows : /\ b.value.max = NoCeiling <=> b = last
                                     /\ b.value.min <= last.value.min

IsAcceptable(t, rows) ==
  /\ t \in Keyed => NoKeyTwice(rows)
  /\ t \in OpenEnded => OnlyLastIsOpen(rows)

-----------------------------------------------------------------------------
\* Some of the settings were asked for before.
SettingsInit ==
  /\ \E old \in SUBSET Scopes :
       \E figures \in [old -> UNION {Configurations(s) : s \in old}] :
         /\ \A s \in old : figures[s] \in Configurations(s)
         /\ settings = [s \in Scopes |->
              IF s \in old THEN {[by |-> Seed, figures |-> figures[s]]} ELSE {}]
  /\ table = [t \in Tables |-> IF settings[ScopeOf(t)] = {} THEN {} ELSE DefaultRows(t)]
  /\ latest = table
  /\ progress = [r \in SettingsRequests |-> "idle"]
  /\ doing = [r \in SettingsRequests |-> NothingDone]
  /\ overlapped = FALSE

Proceeds(r, to, done) ==
  /\ progress' = [progress EXCEPT ![r] = to]
  /\ doing' = [doing EXCEPT ![r] = done]

RollsBack(r) == Proceeds(r, "failed", NothingDone) /\ UNCHANGED <<committed, overlapped>>

\* Everything a request does starts by looking for the row of its settings.
Begins(r, asked) ==
  /\ progress[r] = "idle" /\ Cardinality(Others(r)) < MaxOverlapping
  /\ Proceeds(r, IF settings[asked.scope] = {} THEN "absent" ELSE "found",
              [asked EXCEPT !.row = settings[asked.scope]])
  /\ overlapped' = (overlapped \/
       (asked.target # Seed /\ \E q \in Others(r) : doing[q].target = asked.target))
  /\ UNCHANGED committed

BeginGet(r, s) == Begins(r, [NothingDone EXCEPT !.kind = "get", !.scope = s])

BeginChange(r, s) == \E c \in Changes(s) :
  Begins(r, [NothingDone EXCEPT !.kind = "update", !.scope = s, !.change = {c}])

BeginReplace(r, t) == \E content \in Contents(t) :
  Begins(r, [NothingDone EXCEPT !.kind = "replace", !.scope = ScopeOf(t), !.target = t,
                                !.rows = By(r, content)])

\* The row is unique by organization: the insertion waits for one that is not
\* yet committed, and fails once another is.
CreateSettings(r) ==
  /\ progress[r] = "absent"
  /\ \A q \in Rivals(r) : ~doing[q].created
  /\ IF settings[doing[r].scope] # {} THEN RollsBack(r)
     ELSE /\ Proceeds(r, "found", [doing[r] EXCEPT !.created = TRUE, !.row = {NewSettings(r)}])
          /\ UNCHANGED <<committed, overlapped>>

\* The row is written under its lock, field by field.
WriteChange(r) ==
  /\ progress[r] = "found" /\ doing[r].kind = "update"
  /\ IF \A c \in doing[r].change : HasUsableAccounts(c)
     THEN /\ \A q \in Rivals(r) : ~(progress[q] = "written" /\ doing[q].kind = "update")
          /\ Proceeds(r, "written", doing[r])
          /\ UNCHANGED <<committed, overlapped>>
     ELSE RollsBack(r)

\* The deletion chooses the rows it sees, ...
ScanTable(r) ==
  /\ progress[r] = "found" /\ doing[r].kind = "replace"
  /\ IF IsAcceptable(doing[r].target, doing[r].rows)
     THEN /\ Proceeds(r, "scanned", [doing[r] EXCEPT !.seen = TableSeen(r, doing[r].target)])
          /\ UNCHANGED <<committed, overlapped>>
     ELSE RollsBack(r)

\* ... waits for whoever is deleting them, and skips those that are gone.
DeleteRows(r) ==
  /\ progress[r] = "scanned"
  /\ \A q \in Others(r) :
       doing[q].target = doing[r].target => doing[q].dropped \cap doing[r].seen = {}
  /\ Proceeds(r, "deleted", [doing[r] EXCEPT !.dropped = @ \cup
                               (doing[r].seen \cap TableSeen(r, doing[r].target))])
  /\ UNCHANGED <<committed, overlapped>>

\* Mutant: the keyed tables have no unique key.
InsertRowsUnindexed(r) ==
  /\ progress[r] = "deleted"
  /\ Proceeds(r, "written", doing[r]) /\ UNCHANGED <<committed, overlapped>>

\* A unique key waits for the transactions that insert or delete it, and then
\* refuses a row that remains.
InsertRows(r) ==
  LET t == doing[r].target IN
  /\ progress[r] = "deleted"
  /\ t \in Keyed =>
       \A q \in Others(r) :
         (doing[q].target = t /\ progress[q] \in {"deleted", "written"}) =>
           KeysOf(doing[r].rows) \cap
             KeysOf(doing[q].dropped \cup
                      (IF progress[q] = "written" THEN doing[q].rows ELSE {})) = {}
  /\ IF t \in Keyed /\ KeysOf(doing[r].rows) \cap KeysOf(TableSeen(r, t) \ doing[r].dropped) # {}
     THEN RollsBack(r)
     ELSE Proceeds(r, "written", doing[r]) /\ UNCHANGED <<committed, overlapped>>

\* Mutant: the deletion does not name the table, and takes the rows of all.
TableAfterAll(r, t) ==
  IF t = doing[r].target THEN (TableSeen(r, t) \ doing[r].dropped) \cup doing[r].rows
  ELSE IF doing[r].kind = "replace" /\ ScopeOf(t) = doing[r].scope THEN {}
  ELSE TableSeen(r, t)

TableAfter(r, t) ==
  IF t = doing[r].target THEN (TableSeen(r, t) \ doing[r].dropped) \cup doing[r].rows
  ELSE TableSeen(r, t)

\* A commit publishes the row a request created or changed, and its rows.
Publish(r) ==
  LET w == doing[r] IN
  /\ settings' = [settings EXCEPT ![w.scope] =
                    {Applied(row, w.change) : row \in SettingsSeen(r)}]
  /\ table' = [t \in Tables |-> TableAfter(r, t)]
  /\ latest' = [t \in Tables |->
                  IF t = w.target THEN w.rows
                  ELSE IF w.created /\ ScopeOf(t) = w.scope THEN DefaultRows(t) ELSE latest[t]]
  /\ Proceeds(r, "done", NothingDone)
  /\ UNCHANGED overlapped

CommitSettings(r) ==
  /\ \/ progress[r] = "written"
     \/ progress[r] = "found" /\ doing[r].kind = "get"
  /\ Publish(r)

\* A request may fail anywhere, a deadlock or a lost connection included.
AbortSettings(r) == InProgress(r) /\ RollsBack(r)

SettingsNext == \E r \in SettingsRequests :
  \/ \E s \in Scopes : BeginGet(r, s) \/ BeginChange(r, s)
  \/ \E t \in Tables : BeginReplace(r, t)
  \/ CreateSettings(r) \/ WriteChange(r)
  \/ ScanTable(r) \/ DeleteRows(r) \/ InsertRows(r)
  \/ CommitSettings(r) \/ AbortSettings(r)

settingsVars == <<committed, progress, doing, overlapped>>

SettingsSpec == SettingsInit /\ [][SettingsNext]_settingsVars

-----------------------------------------------------------------------------
(* Properties *)

\* However requests interleave, an organization has one row of each of its
\* settings, and a table with a unique key one row of each key: a state has one
\* rate.
OneOfEachKey ==
  /\ \A s \in Scopes : Cardinality(settings[s]) <= 1
  /\ \A t \in Keyed : \A a, b \in table[t] : a.key = b.key => a = b

\* However replacements interleave, the rows of the latest one to commit are
\* all there; until two overlap they are alone in their table, which shows no
\* row of an earlier replacement or of the defaults.
LatestReplacementStands ==
  /\ \A t \in Tables : latest[t] \subseteq table[t]
  /\ ~overlapped => latest = table

\* The settings stay whole: one row, one rate of each state, and the brackets
\* that were asked for last.
SettingsStayWhole == OneOfEachKey /\ LatestReplacementStands
=============================================================================
