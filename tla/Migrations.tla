------------------------------ MODULE Migrations ------------------------------
(***************************************************************************)
(* The Alembic revisions of the backend's schema, and the ORM models the   *)
(* program uses it by.  A revision is a script of schema commands; Can and *)
(* Do say what PostgreSQL makes of each.  env.py runs a command's          *)
(* revisions in one transaction: the states in between are those of a      *)
(* command that stops there, so each revision is a step of its own.        *)
(*                                                                         *)
(* Data: one user and one job at most, as functions from the columns to    *)
(* values.  A value is a sequence of words, so that '' is <<"">> and NULL  *)
(* is the empty sequence; the values no script looks at are <<"v">>.       *)
(***************************************************************************)
EXTENDS Naturals, Sequences, FiniteSets, SequencesExt

CONSTANTS
  FirstNames, LastNames,  \* names users of the app give themselves
  LiveNames               \* names of users of the database before Alembic

VARIABLES
  db,       \* the schema, its rows and the width of alembic_version
  applied,  \* the revisions applied
  refused   \* history: the steps PostgreSQL refused, as <<direction, revision>>

\* A name has a word at least, be it the empty one.
Words == {""} \cup UNION {ToSet(name) : name \in FirstNames \cup LastNames \cup LiveNames}
MigrationsAssumption == FirstNames \cup LastNames \cup LiveNames \subseteq Seq(Words) \ {<<>>}

vars == <<db, applied, refused>>

NULL == <<>>
Empty == <<"">>
Some == <<"v">>

-----------------------------------------------------------------------------
(***************************************************************************)
(* Columns.                                                                *)
(***************************************************************************)
Col(type) == [type |-> type, null |-> FALSE, default |-> NULL, unique |-> FALSE, to |-> "none"]
Maybe(c) == [c EXCEPT !.null = TRUE]
Default(c, d) == [c EXCEPT !.default = <<d>>]
Unique(c) == [c EXCEPT !.unique = TRUE]
Ref(table) == [Col("uuid") EXCEPT !.to = table]
Id == Default(Col("uuid"), "gen_random_uuid()")
Text == Col("text")
Time == Col("timestamptz")
Now == Default(Time, "now()")

-----------------------------------------------------------------------------
(***************************************************************************)
(* Commands, and what a database makes of them.                            *)
(***************************************************************************)
CreateType(type, labels) == [do |-> "create type", type |-> type, labels |-> labels]
DropType(type) == [do |-> "drop type", type |-> type]
CreateTable(t, columns) == [do |-> "create table", table |-> t, columns |-> columns]
DropTable(t) == [do |-> "drop table", table |-> t]
CreateIndex(i) == [do |-> "create index", index |-> i]
DropIndex(i) == [do |-> "drop index", index |-> i]
AddColumn(t, c, spec) == [do |-> "add column", table |-> t, column |-> c, spec |-> spec]
DropColumn(t, c) == [do |-> "drop column", table |-> t, column |-> c]
Rename(t, c, to) == [do |-> "rename", table |-> t, column |-> c, to |-> to]
RenameIfThere(t, c, to) == [do |-> "rename if there", table |-> t, column |-> c, to |-> to]
SetNull(t, c, null) == [do |-> "set null", table |-> t, column |-> c, null |-> null]
SetDefault(t, c, d) == [do |-> "set default", table |-> t, column |-> c, default |-> d]
RenameLabel(type, from, to) == [do |-> "rename label", type |-> type, from |-> from, to |-> to]
AddLabel(type, label) == [do |-> "add label", type |-> type, label |-> label]
Widen(n) == [do |-> "widen", width |-> n]
Update(t, c, rule) == [do |-> "update", table |-> t, column |-> c, rule |-> rule]

\* A label of a type that has it already: ADD VALUE without IF NOT EXISTS fails.
NewLabel(type, label) == [do |-> "new label", type |-> type, label |-> label]

Has(d, t, c) == t \in DOMAIN d.tables /\ c \in DOMAIN d.tables[t]
UsesType(d, type) ==
  \E t \in DOMAIN d.tables : \E c \in DOMAIN d.tables[t] : d.tables[t][c].type = type
LabelThere(d, type, value) ==
  value # NULL /\ type \in DOMAIN d.types => Head(value) \in d.types[type]

Can(c, d) ==
  CASE c.do = "create type"  -> TRUE
    [] c.do = "drop type"    -> ~UsesType(d, c.type)
    [] c.do = "create table" ->
         /\ c.table \notin DOMAIN d.tables
         /\ \A x \in DOMAIN c.columns :
              c.columns[x].to \in DOMAIN d.tables \cup {"none"}
    [] c.do = "drop table" ->
         /\ c.table \in DOMAIN d.tables
         /\ \A t \in DOMAIN d.tables \ {c.table} :
              \A x \in DOMAIN d.tables[t] : d.tables[t][x].to # c.table
    [] c.do = "create index" ->
         /\ c.index \notin d.indexes
         /\ \A x \in ToSet(c.index[3]) : Has(d, c.index[2], x)
    [] c.do = "drop index"  -> c.index \in d.indexes
    [] c.do = "add column"  ->
         /\ c.table \in DOMAIN d.tables /\ ~Has(d, c.table, c.column)
         /\ c.spec.null \/ c.spec.default # NULL \/ d.rows[c.table] = {}
    [] c.do = "rename"      -> Has(d, c.table, c.column) /\ ~Has(d, c.table, c.to)
    [] c.do = "rename if there" -> Has(d, c.table, c.column) => ~Has(d, c.table, c.to)
    [] c.do = "set null"    ->
         /\ Has(d, c.table, c.column)
         /\ c.null \/ \A r \in d.rows[c.table] : r[c.column] # NULL
    [] c.do = "set default" ->
         /\ Has(d, c.table, c.column)
         /\ LabelThere(d, d.tables[c.table][c.column].type, c.default)
    [] c.do = "rename label" -> c.from \in d.types[c.type] /\ c.to \notin d.types[c.type]
    [] c.do = "new label"   -> c.label \notin d.types[c.type]
    [] c.do \in {"add label", "widen"} -> TRUE
    [] c.do \in {"drop column", "update"} -> Has(d, c.table, c.column)

Put(f, x, v) == [y \in DOMAIN f \cup {x} |-> IF y = x THEN v ELSE f[y]]
Without(f, x) == [y \in DOMAIN f \ {x} |-> f[y]]
Renamed(f, x, to) == Put(Without(f, x), to, f[x])

\* A table's columns and rows change together.
Reshaped(d, t, columns, rows) == [d EXCEPT !.tables[t] = columns, !.rows[t] = rows]

Added(rows, c, v) == {Put(r, c, v) : r \in rows}
Dropped(rows, c) == {Without(r, c) : r \in rows}
RenamedIn(rows, c, to) == {Renamed(r, c, to) : r \in rows}

\* The values the scripts compute for a user: split and joined at the first
\* space; the first branch of a rule is that of a name without one.
FirstWord(name) == IF Len(name) = 1 THEN name ELSE <<Head(name)>>
OtherWords(name) == IF Len(name) = 1 THEN Empty ELSE Tail(name)
Joined(first, last) == IF last = Empty THEN first ELSE first \o last
ValueBy(rule, r) ==
  CASE rule = "first word"  -> FirstWord(r.name)
    [] rule = "other words" -> OtherWords(r.name)
    [] rule = "joined"      -> Joined(r.first_name, r.last_name)
    [] rule = "or empty"    -> IF r.student_number = NULL THEN Empty ELSE r.student_number

\* A default that is a label follows the label's name.
RelabelValue(v, from, to) == IF v = <<from>> THEN <<to>> ELSE v
RelabelColumns(f, type, from, to) ==
  [c \in DOMAIN f |-> IF f[c].type = type
                      THEN [f[c] EXCEPT !.default = RelabelValue(@, from, to)] ELSE f[c]]
RelabelRows(rows, f, type, from, to) ==
  {[c \in DOMAIN r |-> IF f[c].type = type THEN RelabelValue(r[c], from, to) ELSE r[c]] : r \in rows}
Relabel(d, type, from, to) ==
  [d EXCEPT
    !.types[type] = (@ \ {from}) \cup {to},
    !.tables = [t \in DOMAIN @ |-> RelabelColumns(@[t], type, from, to)],
    !.rows = [t \in DOMAIN @ |-> RelabelRows(@[t], d.tables[t], type, from, to)]]

Do(c, d) ==
  CASE c.do = "create type" ->
         IF c.type \in DOMAIN d.types THEN d
         ELSE [d EXCEPT !.types = Put(@, c.type, c.labels)]
    [] c.do = "drop type" -> [d EXCEPT !.types = Without(@, c.type)]
    [] c.do = "create table" ->
         [d EXCEPT !.tables = Put(@, c.table, c.columns), !.rows = Put(@, c.table, {})]
    [] c.do = "drop table" ->
         [d EXCEPT !.tables = Without(@, c.table), !.rows = Without(@, c.table),
                   !.indexes = {i \in @ : i[2] # c.table}]
    [] c.do = "create index" -> [d EXCEPT !.indexes = @ \cup {c.index}]
    [] c.do = "drop index" -> [d EXCEPT !.indexes = @ \ {c.index}]
    [] c.do = "add column" ->
         Reshaped(d, c.table, Put(d.tables[c.table], c.column, c.spec),
                  Added(d.rows[c.table], c.column, c.spec.default))
    [] c.do = "drop column" ->
         Reshaped(d, c.table, Without(d.tables[c.table], c.column),
                  Dropped(d.rows[c.table], c.column))
    [] c.do = "rename" \/ (c.do = "rename if there" /\ Has(d, c.table, c.column)) ->
         Reshaped(d, c.table, Renamed(d.tables[c.table], c.column, c.to),
                  RenamedIn(d.rows[c.table], c.column, c.to))
    [] c.do = "set null" -> [d EXCEPT !.tables[c.table][c.column].null = c.null]
    [] c.do = "set default" -> [d EXCEPT !.tables[c.table][c.column].default = c.default]
    [] c.do = "rename label" -> Relabel(d, c.type, c.from, c.to)
    [] c.do \in {"add label", "new label"} -> [d EXCEPT !.types[c.type] = @ \cup {c.label}]
    [] c.do = "widen" -> [d EXCEPT !.width = c.width]
    [] c.do = "update" ->
         [d EXCEPT !.rows[c.table] = {[r EXCEPT ![c.column] = ValueBy(c.rule, r)] : r \in @}]
    [] OTHER -> d

\* A script stops at the first command that is refused.
Execute(c, d) ==
  IF d.script = "runs" /\ Can(c, d) THEN Do(c, d) ELSE [d EXCEPT !.script = "stopped"]

Run(script, d) ==
  LET after[i \in 0..Len(script)] == IF i = 0 THEN d ELSE Execute(script[i], after[i - 1])
  IN after[Len(script)]

-----------------------------------------------------------------------------
(***************************************************************************)
(* The revisions.                                                          *)
(***************************************************************************)
Timing == "0005_job_timing_columns"
Upload == "0005_print_jobs_pending_selection_upload"

Revisions == {"0001", "0002", "0003", "0004", Timing, Upload, "0006", "0007", "0008", "0009"}

\* down_revision
DownRevisions == [r \in Revisions |->
  CASE r = "0001" -> {}             [] r = "0002" -> {"0001"}
    [] r = "0003" -> {"0002"}       [] r = "0004" -> {"0003"}
    [] r = Timing -> {"0004"}       [] r = Upload -> {"0004"}
    [] r = "0006" -> {Timing}       [] r = "0007" -> {"0006", Upload}
    [] r = "0008" -> {"0007"}       [] r = "0009" -> {"0008"}]

\* How long the revisions' identifiers are.
IdLength == [r \in Revisions |->
  CASE r = "0001" -> 29 [] r = "0002" -> 38 [] r = "0003" -> 35 [] r = "0004" -> 38
    [] r = Timing -> 23 [] r = Upload -> 40 [] r = "0006" -> 35 [] r = "0007" -> 23
    [] r = "0008" -> 28 [] r = "0009" -> 32]

\* Alembic's own column: VARCHAR(32).
VersionWidth == 32

BaseTypes == <<
  CreateType("user_role", {"student_staff", "farmer", "admin"}),
  CreateType("printer_status", {"idle", "printing", "error", "offline", "maintenance"}),
  CreateType("job_status", {"submitted", "queued", "printing", "completed", "failed",
                            "removed", "ready_for_collection"}),
  CreateType("check_type", {"printer_compatibility", "material_compatibility", "bed_size",
                            "config"}),
  CreateType("notification_type", {"job_started", "job_completed", "job_error",
                                   "ready_for_collection"}) >>

\* An older 0001, and the database that was there before Alembic, call it unit_code.
BaseUsers(department) == Put([
  id |-> Id, email |-> Unique(Text), name |-> Text, student_staff_number |-> Text,
  role |-> Default(Col("user_role"), "student_staff"), auth_hash |-> Text,
  created_at |-> Now ], department, Maybe(Text))

BaseMaterials == [id |-> Id, name |-> Text, type |-> Text, colour |-> Text]

BasePrinters == [
  id |-> Id, model |-> Text, status |-> Default(Col("printer_status"), "idle"),
  bed_size |-> Text, locked_profile |-> Maybe(Col("jsonb")),
  current_material_id |-> Maybe(Ref("materials")), location |-> Text ]

BaseJobs(department) == Put([
  id |-> Id, user_id |-> Ref("users"), printer_id |-> Maybe(Ref("printers")),
  material_id |-> Ref("materials"), gcode_path |-> Text,
  status |-> Default(Col("job_status"), "submitted"), queue_position |-> Maybe(Col("integer")),
  est_duration_min |-> Maybe(Col("float")), est_filament_g |-> Maybe(Col("float")),
  actual_duration_min |-> Maybe(Col("float")), actual_filament_g |-> Maybe(Col("float")),
  submitted_at |-> Now, completed_at |-> Maybe(Time) ], department, Maybe(Text))

BaseValidations == [
  id |-> Id, job_id |-> Ref("print_jobs"), check_type |-> Col("check_type"),
  passed |-> Col("boolean"), message |-> Maybe(Text), checked_at |-> Now ]

BaseNotifications == [
  id |-> Id, user_id |-> Ref("users"), job_id |-> Maybe(Ref("print_jobs")),
  type |-> Col("notification_type"), message |-> Text,
  is_read |-> Default(Col("boolean"), "false"), sent_at |-> Now ]

BaseRecords == [
  id |-> Id, job_id |-> Unique(Ref("print_jobs")), farmer_id |-> Ref("users"),
  ready_at |-> Maybe(Time), removed_at |-> Maybe(Time), collected_at |-> Maybe(Time),
  notes |-> Maybe(Text) ]

BaseLogs == [
  id |-> Id, printer_id |-> Ref("printers"), farmer_id |-> Ref("users"),
  description |-> Text, created_at |-> Now ]

BaseIndexes == <<
  <<"idx_print_jobs_user_id", "print_jobs", <<"user_id">>>>,
  <<"idx_print_jobs_printer_id", "print_jobs", <<"printer_id">>>>,
  <<"idx_print_jobs_status", "print_jobs", <<"status">>>>,
  <<"idx_job_validations_job_id", "job_validations", <<"job_id">>>>,
  <<"idx_notifications_user_id", "notifications", <<"user_id">>>>,
  <<"idx_notifications_user_is_read", "notifications", <<"user_id", "is_read">>>>,
  <<"idx_collection_records_job_id", "collection_records", <<"job_id">>>>,
  <<"idx_maintenance_logs_printer_id", "maintenance_logs", <<"printer_id">>>> >>

\* Each script of one kind of command over a list.
Each(Command(_), list) == [i \in DOMAIN list |-> Command(list[i])]

BaseTables(department) == <<
  CreateTable("users", BaseUsers(department)), CreateTable("materials", BaseMaterials),
  CreateTable("printers", BasePrinters), CreateTable("print_jobs", BaseJobs(department)),
  CreateTable("job_validations", BaseValidations),
  CreateTable("notifications", BaseNotifications),
  CreateTable("collection_records", BaseRecords),
  CreateTable("maintenance_logs", BaseLogs) >>

Baseline(department) ==
  BaseTypes \o BaseTables(department) \o Each(CreateIndex, BaseIndexes)

DropBaseline ==
  Each(DropIndex, Reverse(BaseIndexes))
  \o Each(DropTable, <<"maintenance_logs", "collection_records", "notifications",
                       "job_validations", "print_jobs", "printers", "materials", "users">>)
  \o Each(DropType, <<"notification_type", "check_type", "job_status", "printer_status",
                      "user_role">>)

QueueIndexes == <<
  <<"idx_printers_current_material_id", "printers", <<"current_material_id">>>>,
  <<"idx_print_jobs_material_id", "print_jobs", <<"material_id">>>>,
  <<"idx_notifications_job_id", "notifications", <<"job_id">>>>,
  <<"idx_collection_records_farmer_id", "collection_records", <<"farmer_id">>>>,
  <<"idx_maintenance_logs_farmer_id", "maintenance_logs", <<"farmer_id">>>>,
  <<"idx_print_jobs_queue_submitted_at", "print_jobs", <<"submitted_at">>>> >>

AddQueueIndexes ==
  <<Widen(255)>> \o Each(CreateIndex, QueueIndexes)
  \o <<DropColumn("print_jobs", "queue_position")>>

DropQueueIndexes ==
  <<AddColumn("print_jobs", "queue_position", Maybe(Col("integer")))>>
  \o Each(DropIndex, Reverse(QueueIndexes))

ToDepartment ==
  << RenameIfThere("users", "unit_code", "department"),
     RenameIfThere("print_jobs", "unit_code", "department") >>

ToUnitCode ==
  << RenameIfThere("users", "department", "unit_code"),
     RenameIfThere("print_jobs", "department", "unit_code") >>

\* Mutant: the default is not set again.
ToProfilesWithoutDefault == <<
  SetDefault("users", "role", NULL),
  RenameLabel("user_role", "student_staff", "student"),
  AddColumn("users", "first_name", Maybe(Text)), AddColumn("users", "last_name", Maybe(Text)),
  Update("users", "first_name", "first word"), Update("users", "last_name", "other words"),
  SetNull("users", "first_name", FALSE), SetNull("users", "last_name", FALSE),
  DropColumn("users", "name"),
  SetNull("users", "student_staff_number", TRUE),
  Rename("users", "student_staff_number", "student_number"),
  DropColumn("users", "auth_hash") >>

ToProfiles == <<
  SetDefault("users", "role", NULL),
  RenameLabel("user_role", "student_staff", "student"),
  SetDefault("users", "role", <<"student">>),
  AddColumn("users", "first_name", Maybe(Text)), AddColumn("users", "last_name", Maybe(Text)),
  Update("users", "first_name", "first word"), Update("users", "last_name", "other words"),
  SetNull("users", "first_name", FALSE), SetNull("users", "last_name", FALSE),
  DropColumn("users", "name"),
  SetNull("users", "student_staff_number", TRUE),
  Rename("users", "student_staff_number", "student_number"),
  DropColumn("users", "auth_hash") >>

FromProfiles == <<
  AddColumn("users", "auth_hash", [Text EXCEPT !.default = Empty]),
  SetDefault("users", "auth_hash", NULL),
  Update("users", "student_number", "or empty"),
  SetNull("users", "student_number", FALSE),
  Rename("users", "student_number", "student_staff_number"),
  AddColumn("users", "name", Maybe(Text)), Update("users", "name", "joined"),
  SetNull("users", "name", FALSE),
  DropColumn("users", "last_name"), DropColumn("users", "first_name"),
  SetDefault("users", "role", NULL),
  RenameLabel("user_role", "student", "student_staff"),
  SetDefault("users", "role", <<"student_staff">>) >>

AddJobColumn(name) == AddColumn("print_jobs", name, Maybe(Time))
DropJobColumn(name) == DropColumn("print_jobs", name)
TimingColumns == <<"started_at", "est_start_at", "est_completion_at">>

AddTiming == Each(AddJobColumn, TimingColumns)
DropTiming == Each(DropJobColumn, Reverse(TimingColumns))

AddUpload == <<
  AddLabel("job_status", "pending_selection"),
  SetNull("print_jobs", "material_id", TRUE),
  AddColumn("print_jobs", "original_filename", Maybe(Text)) >>

DropUpload ==
  <<DropColumn("print_jobs", "original_filename"), SetNull("print_jobs", "material_id", FALSE)>>

AddPrinterColumn(name) == AddColumn("printers", name, Maybe(Text))
DropPrinterColumn(name) == DropColumn("printers", name)
LinkColumns == <<"prusalink_url", "prusalink_username", "prusalink_password">>

AddPrusaLink ==
  Each(AddPrinterColumn, LinkColumns)
  \o <<AddColumn("print_jobs", "printer_job_id", Maybe(Col("integer")))>>
DropPrusaLink ==
  <<DropJobColumn("printer_job_id")>> \o Each(DropPrinterColumn, Reverse(LinkColumns))

\* Mutant: the labels are added without looking whether they are there.
AddPauseOnce == <<
  NewLabel("notification_type", "job_paused"), NewLabel("notification_type", "job_resumed"),
  AddJobColumn("paused_at") >>

AddPause == <<
  AddLabel("notification_type", "job_paused"), AddLabel("notification_type", "job_resumed"),
  AddJobColumn("paused_at") >>
DropPause == <<DropJobColumn("paused_at")>>

AddSubmitted == <<AddLabel("notification_type", "job_submitted")>>

Up == [r \in Revisions |->
  CASE r = "0001" -> Baseline("department") [] r = "0002" -> AddQueueIndexes
    [] r = "0003" -> ToDepartment           [] r = "0004" -> ToProfiles
    [] r = Timing -> AddTiming              [] r = Upload -> AddUpload
    [] r = "0006" -> AddPrusaLink           [] r = "0007" -> <<>>
    [] r = "0008" -> AddPause               [] r = "0009" -> AddSubmitted]

Down == [r \in Revisions |->
  CASE r = "0001" -> DropBaseline           [] r = "0002" -> DropQueueIndexes
    [] r = "0003" -> ToUnitCode             [] r = "0004" -> FromProfiles
    [] r = Timing -> DropTiming             [] r = Upload -> DropUpload
    [] r = "0006" -> DropPrusaLink          [] r = "0007" -> <<>>
    [] r = "0008" -> DropPause              [] r = "0009" -> <<>>]

\* What alembic_version holds: the applied revisions none of the others needs.
Heads(revisions) ==
  {r \in revisions : \A s \in revisions : r \notin DownRevisions[s]}

\* A revision is run, and then written down.
Fits(d, revisions) == \A r \in Heads(revisions) : IdLength[r] <= d.width

-----------------------------------------------------------------------------
EmptyDatabase ==
  [tables |-> <<>>, rows |-> <<>>, types |-> <<>>, indexes |-> {}, width |-> VersionWidth,
   script |-> "runs"]

\* A row of table t with the values of given, and any others the table asks for.
Row(d, t, given) ==
  [c \in DOMAIN d.tables[t] |->
     IF c \in DOMAIN given THEN given[c]
     ELSE IF d.tables[t][c].default # NULL THEN d.tables[t][c].default
     ELSE IF d.tables[t][c].null THEN NULL ELSE Some]

WithRow(d, t, given) == [d EXCEPT !.rows[t] = {Row(d, t, given)}]

\* The database that was there before Alembic is stamped with the baseline.
LiveDatabase(department, name) ==
  LET d == Run(Baseline(department), EmptyDatabase)
  IN WithRow(WithRow(d, "users", [name |-> name]), "print_jobs", [status |-> <<"queued">>])

Init ==
  /\ \/ db = EmptyDatabase /\ applied = {}
     \/ /\ applied = {"0001"}
        /\ \E department \in {"department", "unit_code"}, name \in LiveNames :
             db = LiveDatabase(department, name)
  /\ refused = {}

Upgrade(r) ==
  /\ r \notin applied /\ DownRevisions[r] \subseteq applied
  /\ LET d == Run(Up[r], db) IN
       IF d.script = "runs" /\ Fits(d, applied \cup {r})
       THEN db' = d /\ applied' = applied \cup {r} /\ UNCHANGED refused
       ELSE refused' = refused \cup {<<"up", r>>} /\ UNCHANGED <<db, applied>>

Downgrade(r) ==
  /\ r \in Heads(applied)
  /\ LET d == Run(Down[r], db) IN
       IF d.script = "runs" /\ Fits(d, applied \ {r})
       THEN db' = d /\ applied' = applied \ {r} /\ UNCHANGED refused
       ELSE refused' = refused \cup {<<"down", r>>} /\ UNCHANGED <<db, applied>>

\* The program runs at the head, and may then have a user, and a job that is
\* uploaded or submitted.
SignsUp ==
  /\ applied = Revisions /\ db.rows["users"] = {}
  /\ \E first \in FirstNames, last \in LastNames, number \in {NULL, Some} :
       db' = WithRow(db, "users", [first_name |-> first, last_name |-> last,
                                   student_number |-> number])
  /\ UNCHANGED <<applied, refused>>

Submits ==
  /\ applied = Revisions /\ db.rows["users"] # {} /\ db.rows["print_jobs"] = {}
  /\ \E job \in {[status |-> <<"pending_selection">>, material_id |-> NULL],
                 [status |-> <<"queued">>, material_id |-> Some]} :
       db' = WithRow(db, "print_jobs", job)
  /\ UNCHANGED <<applied, refused>>

Next ==
  \/ \E r \in Revisions : Upgrade(r) \/ Downgrade(r)
  \/ SignsUp \/ Submits

Spec == Init /\ [][Next]_vars

-----------------------------------------------------------------------------
(***************************************************************************)
(* The ORM models.                                                         *)
(***************************************************************************)
User == [
  id |-> Id, email |-> Unique(Text), first_name |-> Text, last_name |-> Text,
  student_number |-> Maybe(Text), role |-> Default(Col("user_role"), "student"),
  department |-> Maybe(Text), created_at |-> Now ]

Material == [id |-> Id, name |-> Text, type |-> Text, colour |-> Text]

Printer == [
  id |-> Id, model |-> Text, status |-> Default(Col("printer_status"), "idle"),
  bed_size |-> Text, locked_profile |-> Maybe(Col("jsonb")),
  current_material_id |-> Maybe(Ref("materials")), location |-> Text,
  prusalink_url |-> Maybe(Text), prusalink_username |-> Maybe(Text),
  prusalink_password |-> Maybe(Text) ]

PrintJob == [
  id |-> Id, user_id |-> Ref("users"), printer_id |-> Maybe(Ref("printers")),
  material_id |-> Maybe(Ref("materials")), gcode_path |-> Text,
  original_filename |-> Maybe(Text), status |-> Default(Col("job_status"), "submitted"),
  est_duration_min |-> Maybe(Col("float")), est_filament_g |-> Maybe(Col("float")),
  actual_duration_min |-> Maybe(Col("float")), actual_filament_g |-> Maybe(Col("float")),
  department |-> Maybe(Text), submitted_at |-> Now, printer_job_id |-> Maybe(Col("integer")),
  started_at |-> Maybe(Time), paused_at |-> Maybe(Time), completed_at |-> Maybe(Time),
  est_start_at |-> Maybe(Time), est_completion_at |-> Maybe(Time) ]

JobValidation == [
  id |-> Id, job_id |-> Ref("print_jobs"), check_type |-> Col("check_type"),
  passed |-> Col("boolean"), message |-> Maybe(Text), checked_at |-> Now ]

Notification == [
  id |-> Id, user_id |-> Ref("users"), job_id |-> Maybe(Ref("print_jobs")),
  type |-> Col("notification_type"), message |-> Text,
  is_read |-> Default(Col("boolean"), "false"), sent_at |-> Now ]

CollectionRecord == [
  id |-> Id, job_id |-> Unique(Ref("print_jobs")), farmer_id |-> Ref("users"),
  ready_at |-> Maybe(Time), removed_at |-> Maybe(Time), collected_at |-> Maybe(Time),
  notes |-> Maybe(Text) ]

MaintenanceLog == [
  id |-> Id, printer_id |-> Ref("printers"), farmer_id |-> Ref("users"),
  description |-> Text, created_at |-> Now ]

Models == [
  users |-> User, materials |-> Material, printers |-> Printer, print_jobs |-> PrintJob,
  job_validations |-> JobValidation, notifications |-> Notification,
  collection_records |-> CollectionRecord, maintenance_logs |-> MaintenanceLog ]

ModelTypes == [
  user_role |-> {"student", "farmer", "admin"},
  printer_status |-> {"idle", "printing", "error", "offline", "maintenance"},
  job_status |-> {"pending_selection", "submitted", "queued", "printing", "completed",
                  "failed", "removed", "ready_for_collection"},
  check_type |-> {"printer_compatibility", "material_compatibility", "bed_size", "config"},
  notification_type |-> {"job_submitted", "job_started", "job_completed", "job_error",
                         "ready_for_collection", "job_paused", "job_resumed"} ]

ModelIndexes == {
  <<"idx_print_jobs_user_id", "print_jobs", <<"user_id">>>>,
  <<"idx_print_jobs_printer_id", "print_jobs", <<"printer_id">>>>,
  <<"idx_print_jobs_status", "print_jobs", <<"status">>>>,
  <<"idx_print_jobs_material_id", "print_jobs", <<"material_id">>>>,
  <<"idx_print_jobs_queue_submitted_at", "print_jobs", <<"submitted_at">>>>,
  <<"idx_job_validations_job_id", "job_validations", <<"job_id">>>>,
  <<"idx_notifications_user_id", "notifications", <<"user_id">>>>,
  <<"idx_notifications_user_is_read", "notifications", <<"user_id", "is_read">>>>,
  <<"idx_notifications_job_id", "notifications", <<"job_id">>>>,
  <<"idx_collection_records_job_id", "collection_records", <<"job_id">>>>,
  <<"idx_collection_records_farmer_id", "collection_records", <<"farmer_id">>>>,
  <<"idx_maintenance_logs_printer_id", "maintenance_logs", <<"printer_id">>>>,
  <<"idx_maintenance_logs_farmer_id", "maintenance_logs", <<"farmer_id">>>>,
  <<"idx_printers_current_material_id", "printers", <<"current_material_id">>>> }

-----------------------------------------------------------------------------
(***************************************************************************)
(* Properties.                                                             *)
(***************************************************************************)

\* The applied revisions are closed under what they revise, every row has the
\* columns of its table, and a column that may not be NULL is not.
TypeOK ==
  /\ applied \subseteq Revisions /\ refused \subseteq {"up", "down"} \X Revisions
  /\ \A r \in applied : DownRevisions[r] \subseteq applied
  /\ db.script = "runs" /\ DOMAIN db.rows = DOMAIN db.tables
  /\ \A t \in DOMAIN db.tables : \A r \in db.rows[t] :
       /\ DOMAIN r = DOMAIN db.tables[t]
       /\ \A c \in DOMAIN r : r[c] # NULL \/ db.tables[t][c].null

\* From an empty database or the live one, over any revisions up and down: at
\* the head the schema is the one the models describe.
HeadIsModels ==
  applied = Revisions => db.tables = Models /\ db.types = ModelTypes /\ db.indexes = ModelIndexes

\* A step: a revision can always be applied, also over what a downgrade leaves behind,
\* and always be taken back, save that of uploads while a job has no material.
RefusedOnlyForUploads ==
  \A step \in refused' \ refused :
    step = <<"down", Upload>> /\ \E r \in db.rows["print_jobs"] : r.material_id = NULL

\* No job keeps a status the revisions applied do not know: the label stays when
\* its revision is taken back.
StatusesFitTheRevisions ==
  Upload \notin applied /\ applied # {}
    => \A r \in db.rows["print_jobs"] : r.status # <<"pending_selection">>

\* A space at the end of a name is lost.
Trimmed(name) ==
  IF Len(name) > 1 /\ name[Len(name)] = "" THEN SubSeq(name, 1, Len(name) - 1) ELSE name
FullName(r) ==
  Trimmed(IF "name" \in DOMAIN r THEN r.name ELSE Joined(r.first_name, r.last_name))

\* A step: a user keeps the full name, whichever way it is stored.
NamesSurvive ==
  applied' # {} /\ applied # {} =>
    \A r \in db.rows["users"] : \E s \in db'.rows["users"] : FullName(s) = FullName(r)
=============================================================================
