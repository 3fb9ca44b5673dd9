----------------------------- MODULE Attribution -----------------------------
(***************************************************************************)
(* Which team and project a request is charged to.  resolve_attribution     *)
(* finds the teams and projects a request names, or creates them, one        *)
(* statement after the other; administrators create, rename, link, close     *)
(* and delete them; the row of the request is logged at its end.             *)
(***************************************************************************)
EXTENDS Integers, FiniteSets

CONSTANTS
  Orgs,
  Requests,    \* proxied requests, each handled once
  Names,       \* names of teams, projects and departments, as they are spelled
  Fold,        \* the lower-case form of each name
  TeamIds,     \* ids of the rows that may be created; a request may give one
  ProjectIds,
  Tags,        \* what a request may name: org, team, project and department
  TeamEdits,   \* edits of administrators: an org and a name
  MaxAttributed, \* bound: how many requests are handled at the same time
  MaxEdits     \* bound: how many edits administrators make

VARIABLES
  teams,       \* rows of teams
  projects,    \* rows of projects
  at,          \* where the handler of each request is
  tag,         \* what each request names, as headers and metadata leave it
  team,        \* the row its handler has read or created, as a set of at most one
  project,
  closed,      \* history: the projects that were inactive when it came
  charged,     \* requests_log rows: request, team and project
  gone,        \* history: the ids of deleted rows, which are never used again
  doubled,     \* history: two rows of one organisation had one name
  calm,        \* history: no handlers overlapped
  edits        \* how many edits administrators have made

attributionVars ==
  <<teams, projects, at, tag, team, project, closed, charged, gone, doubled, calm, edits>>

-----------------------------------------------------------------------------
None == "none"

Ids == TeamIds \cup ProjectIds

\* Ids are UUIDs, which no name looks like; a tag may give one for a name.
ASSUME AttributionAssumption ==
  /\ Names \cap Ids = {} /\ TeamIds \cap ProjectIds = {} /\ None \notin Names \cup Ids
  /\ Fold \in [Names -> Names]
  /\ Tags \subseteq [org : Orgs, team : Names \cup Ids \cup {None},
                     project : Names \cup Ids \cup {None}, dept : Names \cup {None}]
  /\ TeamEdits \subseteq [org : Orgs, name : Names]
  /\ MaxAttributed \in Nat /\ MaxEdits \in Nat

TeamRow == [id : TeamIds, org : Orgs, name : Names \cup Ids, dept : Names \cup {None}]

ProjectRow == [id : ProjectIds, org : Orgs, name : Names \cup Ids,
               team : TeamIds \cup {None}, active : BOOLEAN]

Folded(name) == IF name \in Ids THEN name ELSE Fold[name]

\* Mutant: the name is compared as it is spelled.
SameSpelling(row, name) == row.name = name

\* func.lower on both sides.
SameName(row, name) == Folded(row.name) = Folded(name)

\* Mutant: the organisation is left out of the query.
FindAnywhere(rows, org, value) ==
  {row \in rows : IF value \in Ids THEN row.id = value ELSE SameName(row, value)}

\* A value in the form of a UUID is looked up as an id, any other as a name.
Find(rows, org, value) ==
  {row \in rows : row.org = org /\
     (IF value \in Ids THEN row.id = value ELSE SameName(row, value))}

IdOf(found) == IF found = {} THEN None ELSE (CHOOSE row \in found : TRUE).id

NamedTwice(rows) ==
  \E a, b \in rows : a # b /\ a.org = b.org /\ Folded(a.name) = Folded(b.name)

\* scalar_one_or_none raises if there are more.
Several(found) == Cardinality(found) > 1

\* The id of a new row, as a set of at most one; ids are the bound on rows.
Fresh(ids, rows) ==
  LET unused == {id \in ids \ gone : \A row \in rows : row.id # id}
  IN  IF unused = {} THEN {} ELSE {CHOOSE id \in unused : TRUE}

Handled == {r \in Requests : at[r] \notin {"new", "over", "failed"}}

\* The handler of r goes on to a stage, with what it has found by then.
Goto(r, stage) == at' = [at EXCEPT ![r] = stage]

Fails(r) ==
  /\ Goto(r, "failed")
  /\ UNCHANGED <<teams, projects, tag, team, project, closed, charged, gone, doubled, calm, edits>>

Remember == doubled' = (doubled \/ NamedTwice(teams') \/ NamedTwice(projects'))

AttributionInit ==
  /\ teams = {} /\ projects = {} /\ charged = {}
  /\ at = [r \in Requests |-> "new"]
  /\ tag \in [Requests -> Tags]
  /\ team = [r \in Requests |-> {}] /\ project = [r \in Requests |-> {}]
  /\ closed = [r \in Requests |-> {}]
  /\ gone = {} /\ doubled = FALSE /\ calm = TRUE /\ edits = 0

-----------------------------------------------------------------------------
Come(r) ==
  /\ at[r] = "new" /\ Cardinality(Handled) < MaxAttributed
  /\ Goto(r, IF tag[r].team = None THEN "project" ELSE "team")
  /\ closed' = [closed EXCEPT ![r] = {p.id : p \in {q \in projects : ~q.active}}]
  /\ calm' = (calm /\ Handled = {})
  /\ UNCHANGED <<teams, projects, tag, team, project, charged, gone, doubled, edits>>

\* The select of the team by id or name.
FindTeam(r) ==
  LET found == Find(teams, tag[r].org, tag[r].team)
  IN  /\ at[r] = "team" /\ ~Several(found)
      /\ Goto(r, IF found = {} THEN "new team"
                 ELSE IF tag[r].dept # None /\ \A t \in found : t.dept # tag[r].dept
                 THEN "move team" ELSE "project")
      /\ team' = [team EXCEPT ![r] = found]
      /\ UNCHANGED <<teams, projects, tag, project, closed, charged, gone, doubled, calm, edits>>

\* The team is created under the value itself, in the request's department.
CreateTeam(r, name, dept, stage) ==
  \E id \in Fresh(TeamIds, teams) :
    LET row == [id |-> id, org |-> tag[r].org, name |-> name, dept |-> dept]
    IN  /\ teams' = teams \cup {row} /\ Goto(r, stage)
        /\ team' = [team EXCEPT ![r] = {row}]
        /\ UNCHANGED <<projects, tag, project, closed, charged, gone, calm, edits>>
        /\ Remember

AddTeam(r) ==
  /\ at[r] = "new team" /\ CreateTeam(r, tag[r].team, tag[r].dept, "project")

\* The team moves to the department the request names; UPDATE of a row that
\* has been deleted fails.
MoveTeam(r) ==
  LET read == CHOOSE t \in team[r] : TRUE
      row == CHOOSE t \in teams : t.id = read.id
  IN  /\ at[r] = "move team" /\ \E t \in teams : t.id = read.id
      /\ teams' = (teams \ {row}) \cup {[row EXCEPT !.dept = tag[r].dept]}
      /\ Goto(r, "project")
      /\ UNCHANGED <<projects, tag, team, project, closed, charged, gone, doubled, calm, edits>>

\* A project of another team is linked to the request's team.
TakesProject(r, found) ==
  team[r] # {} /\ \A p \in found : p.team # IdOf(team[r])

FindProject(r) ==
  LET found == Find(projects, tag[r].org, tag[r].project)
  IN  /\ at[r] = "project" /\ tag[r].project # None /\ ~Several(found)
      /\ Goto(r, IF found = {} THEN "new project"
                 ELSE IF TakesProject(r, found) THEN "link" ELSE "dept")
      /\ project' = [project EXCEPT ![r] = found]
      /\ UNCHANGED <<teams, projects, tag, team, closed, charged, gone, doubled, calm, edits>>

NoProject(r) ==
  /\ at[r] = "project" /\ tag[r].project = None
  /\ Goto(r, "dept")
  /\ UNCHANGED <<teams, projects, tag, team, project, closed, charged, gone, doubled, calm, edits>>

\* The foreign key: the team must still be there.
TeamIsThere(r) == \A t \in team[r] : \E u \in teams : u.id = t.id

AddProject(r) ==
  \E id \in Fresh(ProjectIds, projects) :
    LET row == [id |-> id, org |-> tag[r].org, name |-> tag[r].project,
                team |-> IdOf(team[r]), active |-> TRUE]
    IN  /\ at[r] = "new project" /\ TeamIsThere(r)
        /\ projects' = projects \cup {row} /\ Goto(r, "dept")
        /\ project' = [project EXCEPT ![r] = {row}]
        /\ UNCHANGED <<teams, tag, team, closed, charged, gone, calm, edits>>
        /\ Remember

LinkProject(r) ==
  \E row \in projects :
    /\ at[r] = "link" /\ row.id = IdOf(project[r]) /\ TeamIsThere(r)
    /\ projects' = (projects \ {row}) \cup {[row EXCEPT !.team = IdOf(team[r])]}
    /\ Goto(r, "dept")
    /\ UNCHANGED <<teams, tag, team, project, closed, charged, gone, doubled, calm, edits>>

\* A request that names a department only is charged to the team of that name.
NeedsDept(r) == team[r] = {} /\ tag[r].dept # None

FindDept(r) ==
  LET found == {t \in teams : t.org = tag[r].org /\ SameName(t, tag[r].dept)}
  IN  /\ at[r] = "dept" /\ NeedsDept(r) /\ ~Several(found)
      /\ Goto(r, IF found = {} THEN "new dept" ELSE "done")
      /\ team' = [team EXCEPT ![r] = found]
      /\ UNCHANGED <<teams, projects, tag, project, closed, charged, gone, doubled, calm, edits>>

AddDept(r) ==
  /\ at[r] = "new dept" /\ CreateTeam(r, tag[r].dept, tag[r].dept, "done")

Resolve(r) ==
  /\ at[r] = "dept" /\ ~NeedsDept(r)
  /\ Goto(r, "done")
  /\ UNCHANGED <<teams, projects, tag, team, project, closed, charged, gone, doubled, calm, edits>>

\* A name is doubled, or a row of the handler's is gone: the request fails.
CannotResolve(r) ==
  /\ \/ /\ at[r] = "team" /\ Several(Find(teams, tag[r].org, tag[r].team))
     \/ /\ at[r] = "project" /\ tag[r].project # None
        /\ Several(Find(projects, tag[r].org, tag[r].project))
     \/ /\ at[r] = "dept" /\ NeedsDept(r)
        /\ Several({t \in teams : t.org = tag[r].org /\ SameName(t, tag[r].dept)})
     \/ /\ at[r] \in {"move team", "new project", "link"} /\ ~TeamIsThere(r)
     \/ /\ at[r] = "link" /\ \A p \in projects : p.id # IdOf(project[r])
  /\ Fails(r)

\* log_proxy_transaction, if both rows it refers to are still there.
LogCharge(r) ==
  /\ at[r] = "done" /\ Goto(r, "over")
  /\ charged' =
       IF TeamIsThere(r) /\ \A p \in project[r] : \E q \in projects : q.id = p.id
       THEN charged \cup {[request |-> r, team |-> IdOf(team[r]),
                           project |-> IdOf(project[r])]}
       ELSE charged
  /\ UNCHANGED <<teams, projects, tag, team, project, closed, gone, doubled, calm, edits>>

-----------------------------------------------------------------------------
\* Administrators; a handler of theirs reads and commits with nothing between.
Interfere ==
  /\ edits < MaxEdits /\ edits' = edits + 1 /\ Remember
  /\ UNCHANGED <<calm, at, tag, team, project, closed>>

CreateTeamByHand ==
  \E e \in TeamEdits, id \in Fresh(TeamIds, teams) :
    /\ teams' = teams \cup {[id |-> id, org |-> e.org, name |-> e.name, dept |-> None]}
    /\ UNCHANGED <<projects, charged, gone>> /\ Interfere

\* update_team: another name or another department; setting both is two edits.
UpdateTeam ==
  \E e \in TeamEdits, row \in teams :
    \E new \in {[row EXCEPT !.name = e.name], [row EXCEPT !.dept = e.name]} \ {row} :
      /\ row.org = e.org
      /\ teams' = (teams \ {row}) \cup {new}
      /\ UNCHANGED <<projects, charged, gone>> /\ Interfere

Forget(row, id) == IF row.team = id THEN [row EXCEPT !.team = None] ELSE row

\* Mutant: the log refers to the team all the same.
UntouchedRows(id) == charged

\* The projects of the team are deleted with it, its rows of the log stay.
KeptRows(id) == {Forget(row, id) : row \in charged}

DeleteTeam ==
  \E row \in teams :
    LET lost == {p.id : p \in {q \in projects : q.team = row.id}}
    IN  /\ teams' = teams \ {row}
        /\ projects' = {p \in projects : p.id \notin lost}
        /\ charged' = {IF c.project \in lost THEN [c EXCEPT !.project = None] ELSE c :
                         c \in KeptRows(row.id)}
        /\ gone' = gone \cup {row.id} \cup lost
        /\ edits < MaxEdits /\ edits' = edits + 1
        /\ UNCHANGED <<at, tag, team, project, closed, doubled, calm>>

CreateProjectByHand ==
  \E e \in TeamEdits, id \in Fresh(ProjectIds, projects),
     parent \in {None} \cup {t.id : t \in teams} :
    /\ \A t \in teams : t.id = parent => t.org = e.org
    /\ projects' = projects \cup {[id |-> id, org |-> e.org, name |-> e.name,
                                   team |-> parent, active |-> TRUE]}
    /\ UNCHANGED <<teams, charged, gone>> /\ Interfere

\* update_project: another name, another team, closed or open again.
UpdateProject ==
  \E row \in projects, e \in TeamEdits :
    \E new \in {[row EXCEPT !.name = e.name], [row EXCEPT !.active = ~@]}
              \cup {[row EXCEPT !.team = t.id] : t \in {u \in teams : u.org = row.org}} :
      /\ row.org = e.org /\ new # row
      /\ projects' = (projects \ {row}) \cup {new}
      /\ UNCHANGED <<teams, charged, gone>> /\ Interfere

\* delete_project closes the project.
CloseProject ==
  \E row \in projects :
    /\ projects' = (projects \ {row}) \cup {[row EXCEPT !.active = FALSE]}
    /\ UNCHANGED <<teams, charged, gone>> /\ Interfere

Resolving(r) ==
  \/ Come(r) \/ FindTeam(r) \/ AddTeam(r) \/ MoveTeam(r) \/ FindProject(r)
  \/ NoProject(r) \/ AddProject(r) \/ LinkProject(r) \/ FindDept(r) \/ AddDept(r)
  \/ Resolve(r) \/ CannotResolve(r) \/ LogCharge(r)

Editing ==
  \/ CreateTeamByHand \/ UpdateTeam \/ DeleteTeam
  \/ CreateProjectByHand \/ UpdateProject \/ CloseProject

AttributionNext == (\E r \in Requests : Resolving(r)) \/ Editing

-----------------------------------------------------------------------------
\* Rows keep their shape, and no project or charge refers to a team that is
\* gone: the ids of the rows are keys.
AttributionTypeOK ==
  /\ teams \subseteq TeamRow /\ projects \subseteq ProjectRow
  /\ \A a, b \in teams : a.id = b.id => a = b
  /\ \A a, b \in projects : a.id = b.id => a = b
  /\ \A p \in projects \cup charged : p.team = None \/ \E t \in teams : t.id = p.team
  /\ \A r \in Requests : Cardinality(team[r]) <= 1 /\ Cardinality(project[r]) <= 1

\* A request is charged within its organisation, to the team and the project
\* whose names or ids it gave.
ChargedAsNamed ==
  \A r \in Requests :
    LET Fits(row, value) == row.id = value \/ SameName(row, value)
    IN  /\ \A t \in team[r] : t.org = tag[r].org /\
             Fits(t, IF tag[r].team = None THEN tag[r].dept ELSE tag[r].team)
        /\ \A p \in project[r] : p.org = tag[r].org /\ Fits(p, tag[r].project)

\* A request fails over its names, or ends without its row in the log, only
\* after a name was doubled or a row was deleted.
LostOnlyIfDoubled ==
  \A r \in Requests :
    \/ at[r] \notin {"failed", "over"}
    \/ at[r] = "over" /\ \E c \in charged : c.request = r
    \/ doubled \/ gone # {}

\* While handlers do not overlap and no administrator has edited, each name has
\* one row, however it is spelled; an unknown id makes a new row every time.
OneRowPerName ==
  calm /\ edits = 0 /\ (\A r \in Requests : {tag[r].team, tag[r].project} \cap Ids = {}) =>
    ~NamedTwice(teams) /\ ~NamedTwice(projects)

\* ... and a project is in the team of the last request that named both.
ProjectFollowsTeam ==
  calm /\ edits = 0 => \A r \in Requests :
    at[r] = "done" /\ tag[r].team # None =>
      \A p \in projects : p.id = IdOf(project[r]) => p.team = IdOf(team[r])

\* Requests are charged to what they name, under whatever spelling, and a
\* project's own charges go to the team it was last named with.
ChargedRight == ChargedAsNamed /\ OneRowPerName /\ ProjectFollowsTeam

\* What the documentation of delete_project says: a closed project is charged
\* for no request that comes after it was closed.
ClosedIsNotCharged ==
  \A c \in charged : c.project \notin closed[c.request]
=============================================================================
