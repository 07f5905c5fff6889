----------------------------- MODULE AdminRoster -----------------------------
(***************************************************************************)
(* The organizers' pages of users and teams (admin-users.tsx,              *)
(* admin-teams.tsx, components/users, components/teams), the import panels *)
(* they share the shape of, and what the server does with each request     *)
(* (api/admin_users.go, api/admin_teams.go, user and team repositories).   *)
(*                                                                         *)
(* A user has a role, a team (0 is none), three switches and a password;   *)
(* passwords are numbered as they are generated.  A line of an import file *)
(* is [team, user, word]: 0 is a missing column, and word says that the    *)
(* line contains "team", "name" or "username" somewhere.  Toasts, wording  *)
(* and display names are left out.                                         *)
(***************************************************************************)
EXTENDS Naturals, Sequences, FiniteSets, SequencesExt, Paging

CONSTANTS
  Self,          \* the organizer at this console
  OtherAdmins,   \* admin accounts besides
  Roster,        \* the competitors at first, [user |-> team]
  FirstTeams,    \* the teams at first
  Imports,       \* what may be imported, [lines, mode]
  SingleTeam,    \* the team of "assign every row to one team"
  Switches,      \* the overrides of a competitor, among "exempt" and "web"
  MaxMembers,    \* team.MaxTeamMembers, MAX_MEMBERS_PER_TEAM
  UserSearches,  \* [text typed |-> users found]
  MaxOps,        \* bound on requests
  MaxUnsure      \* bound on lost answers and on other organizers' resets

\* Users and teams are numbers, and no competitor is an admin; an import is a list of lines.
Line == [team : Nat, user : Nat, word : BOOLEAN]

RosterConstants ==
  /\ Self \notin OtherAdmins /\ {Self} \cup OtherAdmins \subseteq Nat \ DOMAIN Roster
  /\ DOMAIN Roster \subseteq Nat /\ Roster \in [DOMAIN Roster -> Nat]
  /\ FirstTeams \subseteq Nat /\ SingleTeam \in Nat
  /\ Switches \subseteq {"exempt", "web"}
  /\ 1 \in DOMAIN Imports
  /\ \A i \in DOMAIN Imports :
       Imports[i].lines \in Seq(Line) /\ Imports[i].mode \in {"rows", "single", "names", "members"}

VARIABLES
  accounts, teams,      \* the server's
  passwords,            \* passwords generated so far
  listed,               \* what the page shows, [accounts, teams]
  load,                 \* the newest load is under way
  confirm,              \* the dialog that asks, <<>> or <<[kind, user, team]>>
  pending,              \* the request under way, <<>> or <<operation>>
  creds,                \* credentials shown, newest first
  importOpen, importFile, selectedIndices, bulkErrors,
  ops, unsure           \* bounds; unsure holds the users whose password the page cannot know

importVars == <<importOpen, importFile, selectedIndices, bulkErrors>>
dataVars   == <<accounts, teams, passwords>>
rosterVars == <<dataVars, listed, load, confirm, pending, creds, importVars, ops, unsure>>

Competitor(u, t, pw) ==
  [role |-> "competitor", team |-> t, suspended |-> FALSE, exempt |-> FALSE, web |-> FALSE, pw |-> pw]
Admin == [Competitor(0, 0, 0) EXCEPT !.role = "admin"]

With(f, u, r)  == [x \in DOMAIN f \cup {u} |-> IF x = u THEN r ELSE f[x]]
Without(f, us) == [x \in DOMAIN f \ us |-> f[x]]

-----------------------------------------------------------------------------
(* The list of users.  Dialogs are modal.                                  *)

filteredUsers(tab, search) ==
  {u \in DOMAIN listed.accounts : listed.accounts[u].role = tab} \cap UserSearches[search]

\* What may be selected: rows of one tab under one search (a change of either clears the
\* selection), and only what is still listed counts (handleToggleRow, handleToggleSelectAll).
Tabs == {"admin", "competitor"}
selections == UNION {SUBSET filteredUsers(tab, search) : tab \in Tabs, search \in DOMAIN UserSearches} \ {{}}

\* The buttons of a row: an organizer can neither be suspended nor deleted here, and only
\* resets the own password; the other buttons are those of the competitors' tab.
rowOffers(u, kind) ==
  /\ pending = <<>> /\ confirm = <<>>
  /\ CASE kind \in {"suspend", "delete"} -> u # Self /\ listed.accounts[u].role # "admin"
       [] kind = "reset"                 -> listed.accounts[u].role # "admin" \/ u = Self
       [] OTHER                          -> listed.accounts[u].role = "competitor"

\* The bar over a selection, on either tab: the overrides are those of the competitors'.
barOffers(us, kind) ==
  /\ pending = <<>> /\ confirm = <<>>
  /\ kind \in Switches => \A u \in us : listed.accounts[u].role = "competitor"

Op(kind, us, on, t, items) == [kind |-> kind, users |-> us, on |-> on, team |-> t, items |-> items]

Send(op) == ops < MaxOps /\ ops' = ops + 1 /\ pending' = <<op>>

\* A click opens a dialog, with the user as listed then ...
AskRow(u, kind) ==
  /\ rowOffers(u, kind)
  /\ kind \in Switches => ~listed.accounts[u][kind]
  /\ confirm' = <<[kind |-> kind, user |-> u, row |-> listed.accounts[u]]>>
  /\ UNCHANGED <<dataVars, listed, load, pending, creds, importVars, ops, unsure>>

\* ... but revoking an override needs no reason (requestExemptionToggle, requestFallbackToggle).
Revoke(u, kind) ==
  /\ rowOffers(u, kind) /\ kind \in Switches /\ listed.accounts[u][kind]
  /\ Send(Op(kind, {u}, FALSE, 0, <<>>))
  /\ UNCHANGED <<dataVars, listed, load, confirm, creds, importVars, unsure>>

\* A user of a team is removed from it before the new team gets the user.
assignTeam(c) ==
  \E t \in listed.teams \ {c.row.team} :
    Send(Op(IF c.row.team = 0 THEN "addMember" ELSE "removeMember", {c.user}, TRUE, t, <<>>))

\* The dialog is confirmed: it closes at once, except where its answer may have to be
\* shown in it (an override, a team).
Confirm ==
  /\ confirm # <<>> /\ pending = <<>>
  /\ LET c == confirm[1] IN
       /\ CASE c.kind = "suspend" -> Send(Op("suspend", {c.user}, ~c.row.suspended, 0, <<>>))
            [] c.kind = "team"    -> assignTeam(c)
            [] OTHER              -> Send(Op(c.kind, {c.user}, TRUE, 0, <<>>))
       /\ confirm' = IF c.kind \in {"team"} \cup Switches THEN confirm ELSE <<>>
  /\ UNCHANGED <<dataVars, listed, load, creds, importVars, unsure>>

CancelDialog ==
  /\ confirm # <<>> /\ pending = <<>> /\ confirm' = <<>>
  /\ UNCHANGED <<dataVars, listed, load, pending, creds, importVars, ops, unsure>>

bulkKind == [suspend |-> "bulk suspend", delete |-> "bulk delete", exempt |-> "bulk exempt", web |-> "bulk web"]

\* A button of the bar; deleting asks first (of the same selection).
Bulk(kind, on) ==
  /\ \E us \in selections :
       /\ barOffers(us, kind)
       /\ Send(Op(bulkKind[kind], us, on, 0, <<>>))
  /\ UNCHANGED <<dataVars, listed, load, confirm, creds, importVars, unsure>>

-----------------------------------------------------------------------------
(* The import panels.                                                      *)

\* Any line that contains such a word is taken for a header, if it is the first.
dataLines(f) == IF f # <<>> /\ f[1].word THEN Tail(f) ELSE f

\* parseCsvInput: a line is an item; parseTeamsInput: a line or all lines of a team are.
ParsedItems(f, mode) ==
  LET lines == dataLines(f)
      firsts == {i \in DOMAIN lines : lines[i].team # 0 /\ \A j \in 1..(i - 1) : lines[j].team # lines[i].team}
      order == rowsAt(lines, firsts)
      members(t) == rowsAt(lines, {i \in DOMAIN lines : lines[i].team = t /\ lines[i].user # 0})
  IN  CASE mode = "rows"    -> [i \in DOMAIN lines |-> [team |-> lines[i].team, users |-> <<lines[i].user>>]]
        [] mode = "single"  -> [i \in DOMAIN lines |-> [team |-> SingleTeam, users |-> <<lines[i].user>>]]
        [] mode = "names"   -> [i \in DOMAIN lines |-> [team |-> lines[i].team, users |-> <<>>]]
        [] mode = "members" -> [k \in DOMAIN order |-> [team |-> order[k].team,
              users |-> [m \in DOMAIN members(order[k].team) |-> members(order[k].team)[m].user]]]

ValidItem(items, i, mode, existing) ==
  CASE mode \in {"rows", "single"} -> items[i].team # 0 /\ items[i].users[1] # 0
    [] mode = "names"   -> /\ items[i].team \notin existing \cup {0}
                           /\ \A j \in 1..(i - 1) : items[j].team # items[i].team
    [] mode = "members" -> items[i].team \notin existing /\ Len(items[i].users) <= MaxMembers

importMode  == Imports[importFile].mode
parsedItems == IF importOpen THEN ParsedItems(Imports[importFile].lines, importMode) ELSE <<>>

validIndices(file, existing) ==
  LET items == ParsedItems(Imports[file].lines, Imports[file].mode)
  IN  {i \in DOMAIN items : ValidItem(items, i, Imports[file].mode, existing)}

\* The panel opens empty; text is pasted or read from a file, or the mode is changed: the
\* valid items are selected.
OpenImport ==
  /\ confirm = <<>>
  /\ ~importOpen /\ importOpen' = TRUE
  /\ importFile' \in DOMAIN Imports
  /\ selectedIndices' = validIndices(importFile', listed.teams)
  /\ UNCHANGED <<dataVars, listed, load, confirm, pending, creds, bulkErrors, ops, unsure>>

toggleSelectAllValid(valid) == valid # {} /\ selectedIndices' = IF valid \subseteq selectedIndices THEN {} ELSE valid
toggleRowSelection(i) == selectedIndices' = (selectedIndices \ {i}) \cup ({i} \ selectedIndices)

ToggleItem ==
  /\ confirm = <<>>
  /\ importOpen
  /\ LET valid == validIndices(importFile, listed.teams) IN
       toggleSelectAllValid(valid) \/ \E i \in valid : toggleRowSelection(i)
  /\ UNCHANGED <<dataVars, listed, load, confirm, pending, creds, importOpen, importFile,
                 bulkErrors, ops, unsure>>

\* The teams' panel forgets its errors, the users' keeps them.
CloseImport ==
  /\ confirm = <<>>
  /\ importOpen /\ pending = <<>>
  /\ importOpen' = FALSE /\ selectedIndices' = {} /\ importFile' = 1
  /\ bulkErrors' = IF importMode \in {"names", "members"} THEN 0 ELSE bulkErrors
  /\ UNCHANGED <<dataVars, listed, load, confirm, pending, creds, ops, unsure>>

SubmitImport ==
  /\ confirm = <<>>
  /\ importOpen /\ pending = <<>>
  /\ LET picked == selectedIndices \cap validIndices(importFile, listed.teams)
     IN  /\ picked # {}
         /\ Send(Op(IF importMode \in {"rows", "single"} THEN "users" ELSE "teams", {}, TRUE, 0,
                    rowsAt(parsedItems, picked)))
  /\ bulkErrors' = 0
  /\ UNCHANGED <<dataVars, listed, load, confirm, creds, importOpen, importFile,
                 selectedIndices, unsure>>

-----------------------------------------------------------------------------
(* The server.                                                             *)

membersOf(accts, t) == {u \in DOMAIN accts : accts[u].team = t}

\* createOne: the team is made if it is missing, also where the account then cannot be.
createOne(acc, item) ==
  LET u == item.users[1]
      full == Cardinality(membersOf(acc.accounts, item.team)) >= MaxMembers
      ok == u \notin acc.seen /\ ~full /\ u \notin DOMAIN acc.accounts
      account == Competitor(u, item.team, acc.pw + 1)
  IN  [accounts |-> IF ok THEN With(acc.accounts, u, account) ELSE acc.accounts,
       teams    |-> IF u \in acc.seen THEN acc.teams ELSE acc.teams \cup {item.team},
       creds    |-> IF ok THEN Append(acc.creds, [user |-> u, pw |-> acc.pw + 1]) ELSE acc.creds,
       pw       |-> IF ok THEN acc.pw + 1 ELSE acc.pw,
       failed   |-> IF ok THEN acc.failed ELSE acc.failed + 1,
       seen     |-> acc.seen \cup {u}]

\* createTeamOne: the team with all its members, or nothing.
createTeamOne(acc, item) ==
  LET us == item.users
      ok == /\ item.team \notin acc.teams /\ Len(us) <= MaxMembers /\ IsInjective(us)
            /\ \A k \in DOMAIN us : us[k] \notin DOMAIN acc.accounts
      place(u) == CHOOSE k \in DOMAIN us : us[k] = u
  IN  IF ~ok THEN [acc EXCEPT !.failed = @ + 1]
      ELSE [accounts |-> [x \in DOMAIN acc.accounts \cup ToSet(us) |->
                            IF x \in DOMAIN acc.accounts THEN acc.accounts[x]
                            ELSE Competitor(x, item.team, acc.pw + place(x))],
            teams    |-> acc.teams \cup {item.team},
            creds    |-> acc.creds \o [k \in DOMAIN us |-> [user |-> us[k], pw |-> acc.pw + k]],
            pw       |-> acc.pw + Len(us),
            failed   |-> acc.failed,
            seen     |-> acc.seen]

\* The items of an import, one after the other.
createEach(kind, acc, item) == IF kind = "users" THEN createOne(acc, item) ELSE createTeamOne(acc, item)

createAll(kind, start, items) == FoldLeft(LAMBDA acc, item : createEach(kind, acc, item), start, items)

\* Mutant: the statement of a bulk action does not ask for the role.
bulkAnyRole(us) == (us \ {Self}) \cap DOMAIN accounts

\* bulkUserAction: not the organizer who asks, and only competitors.
bulkTargets(us) == {u \in (us \ {Self}) \cap DOMAIN accounts : accounts[u].role = "competitor"}

\* A single request is refused for the other organizers' accounts, and for what is gone.
allowed(op) ==
  \A u \in op.users : u \in DOMAIN accounts /\ (op.kind # "reset" => accounts[u].role = "competitor")

Switched(us, field, on) == [u \in DOMAIN accounts |-> IF u \in us THEN [accounts[u] EXCEPT ![field] = on] ELSE accounts[u]]

Outcome(accts, tms, pw, new, failed) ==
  [accounts |-> accts, teams |-> tms, pw |-> pw, creds |-> new, failed |-> failed]
Same == Outcome(accounts, teams, passwords, <<>>, 0)

refused == [Same EXCEPT !.failed = 1]

bulkEffect(op) ==
  LET us == bulkTargets(op.users) IN
    IF op.users \ {Self} = {} THEN refused
    ELSE IF op.kind = "bulk delete" THEN [Same EXCEPT !.accounts = Without(accounts, us)]
    ELSE [Same EXCEPT !.accounts = Switched(us, CASE op.kind = "bulk suspend" -> "suspended"
                                                  [] op.kind = "bulk exempt"  -> "exempt"
                                                  [] OTHER                    -> "web", op.on)]

\* The members of a deleted team stay, without one.
dropEffect(op) ==
  [Same EXCEPT !.teams = @ \ {op.team},
               !.accounts = [u \in DOMAIN @ |-> IF @[u].team = op.team THEN [@[u] EXCEPT !.team = 0] ELSE @[u]]]

resetEffect(u) ==
  Outcome([accounts EXCEPT ![u].pw = passwords + 1], teams, passwords + 1, <<[user |-> u, pw |-> passwords + 1]>>, 0)

addEffect(u, t) ==
  LET full == Cardinality(membersOf(accounts, t)) >= MaxMembers IN
    IF t \notin teams \/ full \/ accounts[u].team \notin {0, t} THEN refused
    ELSE [Same EXCEPT !.accounts = Switched({u}, "team", t)]

oneEffect(op) ==
  LET one == CHOOSE u \in op.users : TRUE IN
    CASE op.kind = "reset"        -> resetEffect(one)
      [] op.kind = "delete"       -> [Same EXCEPT !.accounts = Without(accounts, op.users)]
      [] op.kind = "suspend"      -> [Same EXCEPT !.accounts = Switched(op.users, "suspended", op.on)]
      [] op.kind \in Switches     -> [Same EXCEPT !.accounts = Switched(op.users, op.kind, op.on)]
      [] op.kind = "removeMember" -> [Same EXCEPT !.accounts = Switched(op.users, "team", 0)]
      [] op.kind = "addMember"    -> addEffect(one, op.team)

\* What the server makes of a request; failed counts what it refuses.
Effect(op) ==
  LET start == [accounts |-> accounts, teams |-> teams, pw |-> passwords, creds |-> <<>>, failed |-> 0, seen |-> {}]
  IN  CASE op.kind \in {"users", "teams"} -> createAll(op.kind, start, op.items)
        [] op.kind = "dropTeam" -> dropEffect(op)
        [] op.kind \in {"bulk suspend", "bulk exempt", "bulk web", "bulk delete"} -> bulkEffect(op)
        [] OTHER -> IF allowed(op) THEN oneEffect(op) ELSE refused

-----------------------------------------------------------------------------
(* Answers and loads.                                                      *)

\* setCreds: new credentials go on top.
credsShown(new) == new \o creds

\* The request is served and its answer is shown, or the answer is lost; moving a user to
\* another team takes two requests, and the second is not sent if the first fails.
Answered ==
  /\ pending # <<>>
  /\ LET op == pending[1]  e == Effect(op)  touched == {e.creds[k].user : k \in DOMAIN e.creds}
         ok == e.failed = 0 \/ op.kind \in {"users", "teams"}
     IN  /\ accounts' = e.accounts /\ teams' = e.teams /\ passwords' = e.pw
         /\ \/ /\ creds' = credsShown(e.creds) /\ unsure' = unsure
               /\ IF ok /\ op.kind = "removeMember" /\ op.team # 0
                  THEN /\ pending' = <<[op EXCEPT !.kind = "addMember"]>>
                       /\ UNCHANGED <<confirm, load, importOpen, selectedIndices, bulkErrors>>
                  ELSE /\ pending' = <<>>
                       /\ confirm' = IF ok THEN <<>> ELSE confirm
                       /\ load' = IF ok /\ op.kind # "reset" THEN TRUE ELSE load
                       /\ IF op.kind \in {"users", "teams"} /\ e.failed = 0
                          THEN importOpen' = FALSE /\ selectedIndices' = {} /\ bulkErrors' = 0
                          ELSE /\ bulkErrors' = IF op.kind \in {"users", "teams"} THEN e.failed ELSE bulkErrors
                               /\ UNCHANGED <<importOpen, selectedIndices>>
            \/ /\ Cardinality(unsure) < MaxUnsure /\ unsure' = unsure \cup touched
               /\ pending' = <<>> /\ UNCHANGED <<creds, confirm, load, importOpen, selectedIndices, bulkErrors>>
  /\ UNCHANGED <<listed, importFile, ops>>

ClearCredentials ==
  /\ confirm = <<>>
  /\ creds # <<>> /\ creds' = <<>>
  /\ UNCHANGED <<dataVars, listed, load, confirm, pending, importVars, ops, unsure>>

\* The Refresh button.  useAsyncData drops the answer of an older load (AsyncData); a change
\* between the server's read and the answer is like a change after it.
Refresh ==
  /\ confirm = <<>> /\ ~load /\ load' = TRUE
  /\ UNCHANGED <<dataVars, listed, confirm, pending, creds, importVars, ops, unsure>>

\* The new list of teams parses the pasted rows again: the effect selects all valid ones.
LoadLands ==
  /\ load /\ load' = FALSE
  /\ listed' = [accounts |-> accounts, teams |-> teams]
  /\ selectedIndices' = IF importOpen THEN validIndices(importFile, teams) ELSE {}
  /\ UNCHANGED <<dataVars, confirm, pending, creds, importOpen, importFile, bulkErrors, ops, unsure>>

LoadFails ==
  /\ load /\ load' = FALSE
  /\ UNCHANGED <<dataVars, listed, confirm, pending, creds, importVars, ops, unsure>>

\* The buttons of the teams' table: a team is deleted, a member removed, a competitor added.
dropTeam(t) == Send(Op("dropTeam", {}, TRUE, t, <<>>))
removeMember(u) == listed.accounts[u].team # 0 /\ Send(Op("removeMember", {u}, TRUE, 0, <<>>))
unassigned == {u \in DOMAIN listed.accounts : listed.accounts[u].role = "competitor" /\ listed.accounts[u].team = 0}
addMember(u, t) == u \in unassigned /\ Send(Op("addMember", {u}, TRUE, t, <<>>))

TeamButton ==
  /\ pending = <<>> /\ confirm = <<>>
  /\ \/ \E t \in listed.teams : dropTeam(t)
     \/ \E u \in DOMAIN listed.accounts : removeMember(u) \/ \E t \in listed.teams : addMember(u, t)
  /\ UNCHANGED <<dataVars, listed, load, confirm, creds, importVars, unsure>>

\* Another organizer resets a password.
ElsewhereReset(u) ==
  /\ Cardinality(unsure) < MaxUnsure /\ accounts[u].role = "competitor"
  /\ accounts' = [accounts EXCEPT ![u].pw = passwords + 1] /\ passwords' = passwords + 1
  /\ unsure' = unsure \cup {u}
  /\ UNCHANGED <<teams, listed, load, confirm, pending, creds, importVars, ops>>

Init ==
  /\ accounts = [u \in {Self} \cup OtherAdmins \cup DOMAIN Roster |->
                   IF u \in DOMAIN Roster THEN Competitor(u, Roster[u], 0) ELSE Admin]
  /\ teams = FirstTeams /\ passwords = 0
  /\ listed = [accounts |-> accounts, teams |-> teams] /\ load = FALSE
  /\ confirm = <<>> /\ pending = <<>> /\ creds = <<>>
  /\ importOpen = FALSE /\ importFile = 1 /\ selectedIndices = {} /\ bulkErrors = 0
  /\ ops = 0 /\ unsure = {}

Next ==
  \/ Confirm \/ CancelDialog \/ TeamButton
  \/ \E u \in DOMAIN listed.accounts, kind \in {"reset", "delete", "suspend", "team"} \cup Switches :
       AskRow(u, kind) \/ Revoke(u, kind)
  \/ \E kind \in {"suspend", "delete"} \cup Switches, on \in BOOLEAN : Bulk(kind, on)
  \/ OpenImport \/ ToggleItem \/ CloseImport \/ SubmitImport
  \/ Answered \/ ClearCredentials \/ Refresh \/ LoadLands \/ LoadFails
  \/ \E u \in DOMAIN accounts : ElsewhereReset(u)

Spec == Init /\ [][Next]_rosterVars

-----------------------------------------------------------------------------
(* Properties.                                                             *)

\* Types.
TypeOK ==
  /\ \A u \in DOMAIN accounts : accounts[u].role \in {"admin", "competitor"} /\ accounts[u].pw \in 0..passwords
  /\ Len(pending) <= 1 /\ Len(confirm) <= 1
  /\ selectedIndices \subseteq DOMAIN parsedItems /\ importOpen \in BOOLEAN

\* The console lets an organizer select admins and press the buttons of the bar; whatever
\* is selected, listed, stale or repeated, no admin account is deleted or suspended or
\* changed, except for the organizer's own password (bulkUserAction, the role in the
\* repository's statements).
AdminsKept ==
  \A u \in {Self} \cup OtherAdmins :
    u \in DOMAIN accounts /\ [accounts[u] EXCEPT !.pw = 0] = Admin /\ (u # Self => accounts[u].pw = 0)

\* The topmost credential the console shows for an account is its password, also after
\* repeated resets, deletions and imports; other organizers and lost answers apart (setCreds).
NewestCredentialWorks ==
  \A k \in DOMAIN creds :
    LET u == creds[k].user IN
      (u \in DOMAIN accounts \ unsure /\ \A j \in 1..(k - 1) : creds[j].user # u) => accounts[u].pw = creds[k].pw
=============================================================================
