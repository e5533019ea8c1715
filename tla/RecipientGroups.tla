--------------------------- MODULE RecipientGroups ---------------------------
(***************************************************************************)
(* Recipient groups: the engine's handlers of the groups and their         *)
(* members, each in its steps between two queries, the console's pages     *)
(* that send the requests, other clients of the API, and what a rule's     *)
(* group is resolved to.                                                   *)
(***************************************************************************)
EXTENDS Naturals, FiniteSets

CONSTANTS
  None,
  Group, Member, Name,   \* rows and names
  Page, Client,          \* open pages of the console; other clients
  MaxRequests            \* bound: requests sent

VARIABLES
  groups,      \* the rows of the groups
  members,     \* the rows of the members
  page,        \* what a page shows: the list's groups, or a group with its members; a target is to be confirmed
  request,     \* the request of a page or a client
  removed,     \* history: members whose removal was answered
  groupSent

groupVars == <<groups, members, page, request, removed, groupSent>>

Sender == Page \cup Client
NoRequest == [pc |-> "idle"]

GroupsInit ==
  /\ groups = [g \in Group |-> None] /\ members = [m \in Member |-> None]
  /\ page = [t \in Page |-> [at |-> "list", group |-> None, rows |-> {}, target |-> None]]
  /\ request = [s \in Sender |-> NoRequest]
  /\ removed = {} /\ groupSent = 0

Existing == {g \in Group : groups[g] # None}
Active == {g \in Existing : groups[g].active}
RowsOf(g) == {m \in Member : members[m] # None /\ members[m].group = g}
ActiveMembers(g) == {m \in RowsOf(g) : members[m].active}
Known == {m \in Member : members[m] # None}
NameTaken(name, g) == \E h \in Existing \ {g} : groups[h].name = name

-----------------------------------------------------------------------------
\* The service.

\* Bound: requests. A client may add a member along with its change; ids of members are never checked.
GroupRequest(s, fields) ==
  /\ request[s] = NoRequest /\ groupSent < MaxRequests /\ groupSent' = groupSent + 1
  /\ request' = [request EXCEPT ![s] = fields]

CreateRequest(name, adds) == [op |-> "create", pc |-> "check", name |-> name, group |-> None, removes |-> {}, adds |-> adds]
UpdateRequest(g, name, removes, adds) ==
  [op |-> "update", pc |-> "find", name |-> name, group |-> g, removes |-> removes, adds |-> adds]
DeleteRequest(g) == [op |-> "delete", pc |-> "find", name |-> None, group |-> g, removes |-> {}, adds |-> FALSE]
AddMemberRequest(g) == [op |-> "add", pc |-> "find", name |-> None, group |-> g, removes |-> {}, adds |-> TRUE]
RemoveMemberRequest(g, m) == [op |-> "remove", pc |-> "find", name |-> None, group |-> g, removes |-> {m}, adds |-> FALSE]

ClientSends(c) ==
  /\ \/ \E name \in Name, adds \in BOOLEAN : GroupRequest(c, CreateRequest(name, adds))
     \/ \E g \in Existing, name \in Name \cup {None}, adds \in BOOLEAN, removes \in SUBSET Known :
          Cardinality(removes) <= 1 /\ GroupRequest(c, UpdateRequest(g, name, removes, adds))
     \/ \E g \in Existing : GroupRequest(c, DeleteRequest(g)) \/ GroupRequest(c, AddMemberRequest(g))
     \/ \E g \in Existing, m \in Known : GroupRequest(c, RemoveMemberRequest(g, m))
  /\ UNCHANGED <<groups, members, page, removed>>

Goes(s, pc) == request' = [request EXCEPT ![s].pc = pc]
\* The statements that follow the write of a group's row, each in its own transaction.
AfterSave(r) == IF r.removes # {} THEN "deactivate" ELSE IF r.adds THEN "add" ELSE "done"
AfterFind(r) ==
  CASE r.op = "update" -> IF r.name # None THEN "check" ELSE "save"
    [] r.op = "delete" -> "save"
    [] OTHER -> AfterSave(r)

\* The entity a handler has read: an update's comes with the members that are active. A deletion has
\* its flag cleared at once.
Find(s) ==
  LET r == request[s]
      row == groups[r.group]
      entity == [name |-> row.name, active |-> r.op # "delete" /\ row.active,
                 members |-> IF r.op = "delete" THEN None ELSE ActiveMembers(r.group)]
  IN /\ r.pc = "find"
     /\ request' = [request EXCEPT ![s] = [op |-> r.op, pc |-> AfterFind(r), name |-> r.name, group |-> r.group,
                                            removes |-> r.removes, adds |-> r.adds, entity |-> entity]]
     /\ UNCHANGED <<groups, members, page, removed, groupSent>>

\* Deactivated groups keep their names.
CheckName(s) ==
  LET r == request[s] IN
    /\ r.pc = "check"
    /\ IF NameTaken(r.name, r.group) THEN Goes(s, "refused")
       ELSE IF r.op = "create" THEN Goes(s, "insert")
       ELSE request' = [request EXCEPT ![s].pc = "save", ![s].entity.name = r.name]
    /\ UNCHANGED <<groups, members, page, removed, groupSent>>

UniqueName(name, g) == ~NameTaken(name, g)

\* Generated ids.
NewGroup == CHOOSE g \in Group : groups[g] = None
NewMember == CHOOSE m \in Member : members[m] = None

Insert(s) ==
  LET r == request[s] IN
    /\ r.pc = "insert" /\ Existing # Group
    /\ IF UniqueName(r.name, None)
       THEN /\ groups' = [groups EXCEPT ![NewGroup] = [name |-> r.name, active |-> TRUE]]
            /\ request' = [request EXCEPT ![s].pc = AfterSave(r), ![s].group = NewGroup]
       ELSE Goes(s, "failed") /\ UNCHANGED groups
    /\ UNCHANGED <<members, page, removed, groupSent>>

\* The rows of members that are not in the entity's list lose their group.
Orphans(r) == IF r.entity.members = None THEN {} ELSE RowsOf(r.group) \ r.entity.members
Detached(r, m) == IF m \in Orphans(r) THEN [members[m] EXCEPT !.group = None] ELSE members[m]
\* Mutant: the members that were read are written as well.
Written_Cascaded(r) ==
  [m \in Member |-> IF r.entity.members # None /\ m \in r.entity.members THEN [members[m] EXCEPT !.active = TRUE] ELSE Detached(r, m)]
Written(r) == [m \in Member |-> Detached(r, m)]

\* group_id is NOT NULL: no group that has a removed member can be saved.
NotNull(rows) == \A m \in Member : rows[m] # None => rows[m].group # None

\* Every column of the entity, as it was read.
Saved(r) == [name |-> r.entity.name, active |-> r.entity.active]

Save(s) ==
  LET r == request[s] IN
    /\ r.pc = "save"
    /\ IF UniqueName(r.entity.name, r.group) /\ NotNull(Written(r))
       THEN /\ groups' = [groups EXCEPT ![r.group] = Saved(r)]
            /\ members' = Written(r)
            /\ Goes(s, AfterSave(r))
       ELSE Goes(s, "failed") /\ UNCHANGED <<groups, members>>
    /\ UNCHANGED <<page, removed, groupSent>>

\* By id alone, whatever their group.
Deactivated(r) == [m \in Member |-> IF m \in r.removes THEN [members[m] EXCEPT !.active = FALSE] ELSE members[m]]

DeactivateMembers(s) ==
  LET r == request[s] IN
    /\ r.pc = "deactivate"
    /\ members' = Deactivated(r)
    /\ Goes(s, IF r.adds THEN "add" ELSE "done")
    /\ UNCHANGED <<groups, page, removed, groupSent>>

AddMembers(s) ==
  LET r == request[s] IN
    /\ r.pc = "add"
    /\ Known # Member /\ members' = [members EXCEPT ![NewMember] = [group |-> r.group, active |-> TRUE]]
    /\ Goes(s, "done")
    /\ UNCHANGED <<groups, page, removed, groupSent>>

\* A statement fails; what was committed before it stays.
FailRequest(s) ==
  /\ request[s].pc \in {"find", "check", "insert", "save", "deactivate", "add"} /\ Goes(s, "failed")
  /\ UNCHANGED <<groups, members, page, removed, groupSent>>

RequestSteps(s) == Find(s) \/ CheckName(s) \/ Insert(s) \/ Save(s) \/ DeactivateMembers(s) \/ AddMembers(s) \/ FailRequest(s)

Answered(s) == request' = [request EXCEPT ![s] = NoRequest]
Told(r) == IF r.pc = "done" THEN removed \cup r.removes ELSE removed
ClientAnswered(c) ==
  /\ request[c].pc \in {"done", "refused", "failed"} /\ Answered(c) /\ removed' = Told(request[c])
  /\ UNCHANGED <<groups, members, page, groupSent>>

-----------------------------------------------------------------------------
\* The console.

\* "Inactive" asks for isActive=false, which the service's conversion of the query takes for true.
Listed(filter) == IF filter = "all" THEN Existing ELSE Active
ListPage(filter) == [at |-> "list", group |-> None, rows |-> Listed(filter), target |-> None]
NewPage == [at |-> "new", group |-> None, rows |-> {}, target |-> None]
GroupPage(g) == [at |-> "group", group |-> g, rows |-> ActiveMembers(g), target |-> None]

Show(t, p) == page' = [page EXCEPT ![t] = p]

\* Bound: a page stays open while its request is under way.
OpenList(t) ==
  /\ request[t] = NoRequest /\ \E filter \in {"all", "active", "inactive"} : Show(t, ListPage(filter))
  /\ UNCHANGED <<groups, members, request, removed, groupSent>>
OpenNew(t) ==
  /\ request[t] = NoRequest /\ page[t].at = "list" /\ Show(t, NewPage)
  /\ UNCHANGED <<groups, members, request, removed, groupSent>>
OpenGroup(t) ==
  /\ request[t] = NoRequest /\ page[t].at = "list" /\ \E g \in page[t].rows : Show(t, GroupPage(g))
  /\ UNCHANGED <<groups, members, request, removed, groupSent>>

\* A row's Delete or Remove asks for a confirmation, which may be dismissed.
Ask(t) ==
  /\ page[t].at \in {"list", "group"} /\ request[t] = NoRequest
  /\ \E x \in IF page[t].target = None THEN page[t].rows ELSE {None} : page' = [page EXCEPT ![t].target = x]
  /\ UNCHANGED <<groups, members, request, removed, groupSent>>
Confirm(t) ==
  /\ page[t].target # None
  /\ GroupRequest(t, IF page[t].at = "list" THEN DeleteRequest(page[t].target) ELSE RemoveMemberRequest(page[t].group, page[t].target))
  /\ UNCHANGED <<groups, members, page, removed>>

\* The schema wants a name; members are no part of the form.
SubmitGroup(t) ==
  /\ page[t].at \in {"new", "group"}
  /\ \E name \in Name : GroupRequest(t, IF page[t].at = "new" THEN CreateRequest(name, FALSE) ELSE UpdateRequest(page[t].group, name, {}, FALSE))
  /\ UNCHANGED <<groups, members, page, removed>>
SubmitMember(t) ==
  /\ page[t].at = "group" /\ GroupRequest(t, AddMemberRequest(page[t].group))
  /\ UNCHANGED <<groups, members, page, removed>>

\* A created group is opened, a saved one left for the list, another change fetches the page's rows again.
Answer(t) ==
  LET r == request[t] IN
    CASE r.op = "create" -> GroupPage(r.group)
      [] r.op \in {"update", "delete"} -> ListPage("all")
      [] OTHER -> GroupPage(r.group)
PageAnswered(t) ==
  /\ request[t].pc \in {"done", "refused", "failed"} /\ Answered(t) /\ removed' = Told(request[t])
  /\ IF request[t].pc = "done" THEN Show(t, Answer(t)) ELSE UNCHANGED page
  /\ UNCHANGED <<groups, members, groupSent>>

-----------------------------------------------------------------------------
\* What a rule's group is resolved to: its active members, also of a deleted group; a group without any
\* is looked up, and missing if it was deleted (NES-004).
Resolved(g) == IF ActiveMembers(g) = {} /\ ~groups[g].active THEN {None} ELSE ActiveMembers(g)

GroupsNext ==
  \/ \E c \in Client : ClientSends(c) \/ ClientAnswered(c)
  \/ \E s \in Sender : RequestSteps(s)
  \/ \E t \in Page : OpenList(t) \/ OpenNew(t) \/ OpenGroup(t) \/ Ask(t) \/ Confirm(t) \/ SubmitGroup(t) \/ SubmitMember(t) \/ PageAnswered(t)

GroupsSpec == GroupsInit /\ [][GroupsNext]_groupVars

-----------------------------------------------------------------------------
\* No two groups have one name, over requests that check it at the same time and renames that are
\* undone by a save of what was read before.
NamesAreUnique == \A g, h \in Existing : groups[g].name = groups[h].name => g = h

\* Once a removal is answered no rule sends to the member, whatever group the request named and
\* whatever is saved afterwards.
RemovedIsNotSent == \A g \in Existing : Resolved(g) \cap removed = {}

\* No member is left without its group.
MembersHaveGroup == \A m \in Known : members[m].group \in Existing

\* A member belongs to its group for good, whatever list of members a save has read.
MembersKeepGroup == \A m \in Known : m \in Known' /\ members[m].group = members[m].group'

\* A deleted group comes back only by the save of an update that read it before the deletion.
DeletedUnlessRaced ==
  \A g \in Group : g \in Existing \ Active /\ g \in Active'
    => \E s \in Sender : request[s].pc = "save" /\ request[s].group = g /\ request[s].op = "update" /\ request[s].entity.active

\* Over overlapping creates, renames, removals and stale saves no two groups have one name, no member loses or
\* changes its group, no rule sends to a member whose removal was answered, and a deleted group comes back only by
\* the save of an update that had read it before.
GroupsConsistent ==
  /\ [](NamesAreUnique /\ RemovedIsNotSent /\ MembersHaveGroup)
  /\ [][MembersKeepGroup /\ DeletedUnlessRaced]_groupVars
=============================================================================
