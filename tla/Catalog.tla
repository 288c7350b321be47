------------------------------- MODULE Catalog ------------------------------
(***************************************************************************)
(* The service catalogue: seeded under SeedLock when instances boot, then  *)
(* edited from the back-office page, each tab with a copy of the tree that *)
(* may be old.  CatalogService looks, then writes; a save writes only the  *)
(* paths that differ from the document it loaded.                          *)
(***************************************************************************)
EXTENDS SeedLock, Documents

CONSTANTS
    Tabs,              \* open back-office tabs
    Names,             \* names the administrators give to new nodes
    Colours, NoColour, \* accent colours; an icon is treated as a colour is
    MaxNodes,          \* bound on the nodes of the catalogue
    MaxEdits           \* bound on the mutations sent

VARIABLES
    picked,  \* picked[n]: the colours somebody gave to node n itself
    tree,    \* tree[t]: the tree that tab t shows
    dialog,  \* dialog[t]: the appearance dialog: its node (0: closed) and field
    h,       \* h[t]: the mutation in flight from tab t
    edits    \* mutations sent so far

vars == <<bootVars, rows, picked, tree, dialog, h, edits>>

nodes == rows

Level       == {"DOMAIN", "CATEGORY", "SERVICE", "INTERVENTION_TYPE", "COMPLEXITY", "SKILL"}
ParentLevel == [level \in Level |->
    CASE level = "CATEGORY"          -> "DOMAIN"
      [] level = "SERVICE"           -> "CATEGORY"
      [] level = "INTERVENTION_TYPE" -> "SERVICE"
      [] level = "COMPLEXITY"        -> "INTERVENTION_TYPE"
      [] OTHER                       -> "NULL"]
Node(level, parent, name) ==
    [level |-> level, parent |-> parent, name |-> name, active |-> TRUE, accent |-> NoColour]

NoDialog == [node |-> 0, accent |-> NoColour]
Idle     == [step |-> "idle", node |-> 0, asked |-> <<>>, seen |-> <<>>]
Steps    == {"idle", "parent", "insert", "load", "save", "refetch"}

Nodes == [level: Level, parent: 0..MaxNodes, name: STRING \cup Names, active: BOOLEAN, accent: Colours \cup {NoColour}]

SameName(a, b) == a.level = b.level /\ a.parent = b.parent /\ a.name = b.name

\* Node i hangs below an existing node of the level above its own.
Hangs(some, i) ==
    IF some[i].parent = 0 THEN ParentLevel[some[i].level] = "NULL"
    ELSE some[i].parent < i /\ some[some[i].parent].level = ParentLevel[some[i].level]

\* The seed is a tree already, parents first.
ASSUME CatalogAssumption ==
    /\ MaxNodes \in Nat /\ MaxEdits \in Nat
    /\ Plan \in Seq(Nodes) /\ Len(Plan) \in 1..MaxNodes
    /\ \A i \in DOMAIN Plan : Hangs(Plan, i)
    /\ \A i, j \in DOMAIN Plan : SameName(Plan[i], Plan[j]) => i = j

\* inheritDisplayMetadata: a node without a colour takes its parent's.  A
\* parent is older than its children.
Resolved(some) ==
    LET colour[i \in 0..Len(some)] ==
        IF i = 0 THEN NoColour
        ELSE IF some[i].accent # NoColour THEN some[i].accent ELSE colour[some[i].parent]
    IN [i \in DOMAIN some |-> [some[i] EXCEPT !.accent = colour[i]]]

\* Mutant: the page asks for the tree that the home page shows.
ForDisplay(some) == Resolved(some)

\* GET /catalog/tree?includeInactive=true&rawDisplay=true.
FetchTree(some) == some

-----------------------------------------------------------------------------
(***************************************************************************)
(* The page.  While a mutation is pending every button is disabled.        *)
(***************************************************************************)
Ready(t) == h[t] = Idle /\ dialog[t] = NoDialog /\ Serving # {}

\* The query also runs again on its own, whatever the user is doing.
LoadTree(t) ==
    /\ Serving # {} /\ tree' = [tree EXCEPT ![t] = FetchTree(nodes)]
    /\ UNCHANGED <<bootVars, rows, picked, dialog, h, edits>>

Send(t, step, node, asked) ==
    /\ edits < MaxEdits /\ edits' = edits + 1
    /\ h' = [h EXCEPT ![t] = [Idle EXCEPT !.step = step, !.node = node, !.asked = asked]]

\* A root, or a child of a node the tab shows (CHILD_LEVEL).
AddNode(t, level, parent, name) ==
    /\ Ready(t) /\ Len(nodes) < MaxNodes
    /\ IF parent = 0 THEN ParentLevel[level] = "NULL" ELSE ParentLevel[level] = tree[t][parent].level
    /\ Send(t, "parent", 0, Node(level, parent, name))
    /\ UNCHANGED <<bootVars, rows, picked, tree, dialog>>

\* The page lists every node but the skills.
Listed(t) == {n \in DOMAIN tree[t] : tree[t][n].level # "SKILL"}

\* DELETE for a node shown active, PATCH {active: true} for the others.
ToggleActive(t, n) ==
    /\ Ready(t)
    /\ Send(t, "load", n, [active |-> ~tree[t][n].active])
    /\ UNCHANGED <<bootVars, rows, picked, tree, dialog>>

\* The field starts from the node as the tab shows it.
OpenAppearance(t, n) ==
    /\ Ready(t) /\ dialog' = [dialog EXCEPT ![t] = [node |-> n, accent |-> tree[t][n].accent]]
    /\ UNCHANGED <<bootVars, rows, picked, tree, h, edits>>

CloseAppearance(t) ==
    /\ dialog[t] # NoDialog /\ dialog' = [dialog EXCEPT ![t] = NoDialog]
    /\ UNCHANGED <<bootVars, rows, picked, tree, h, edits>>

PickColour(t, colour) ==
    /\ dialog[t] # NoDialog /\ colour # dialog[t].accent
    /\ dialog' = [dialog EXCEPT ![t].accent = colour]
    /\ picked' = [picked EXCEPT ![dialog[t].node] = @ \cup {colour}]
    /\ UNCHANGED <<bootVars, rows, tree, h, edits>>

SubmitAppearance(t) ==
    /\ dialog[t] # NoDialog /\ h[t] = Idle /\ Serving # {}
    /\ Send(t, "load", dialog[t].node, [accent |-> dialog[t].accent])
    /\ UNCHANGED <<bootVars, rows, picked, tree, dialog>>

-----------------------------------------------------------------------------
(***************************************************************************)
(* CatalogService, one database call per step.                             *)
(***************************************************************************)
Refused(t) == h' = [h EXCEPT ![t] = Idle]

\* assertValidParent.
CheckParent(t) ==
    LET new == h[t].asked IN
    /\ h[t].step = "parent"
    /\ IF IF new.parent = 0 THEN ParentLevel[new.level] = "NULL"
          ELSE new.parent \in DOMAIN nodes /\ nodes[new.parent].level = ParentLevel[new.level]
       THEN h' = [h EXCEPT ![t].step = "insert"] ELSE Refused(t)
    /\ UNCHANGED <<bootVars, rows, picked, tree, dialog, edits>>

\* Mutant: the collection without its unique index.
AnyName(new) == TRUE

\* The unique index on (level, parentId, name).
NewName(new) == \A i \in DOMAIN nodes : ~SameName(nodes[i], new)

InsertNode(t) ==
    /\ h[t].step = "insert"
    /\ IF NewName(h[t].asked) /\ Len(nodes) < MaxNodes
       THEN rows' = Append(rows, h[t].asked) /\ h' = [h EXCEPT ![t] = [Idle EXCEPT !.step = "refetch"]]
       ELSE UNCHANGED rows /\ Refused(t)
    /\ UNCHANGED <<bootVars, picked, tree, dialog, edits>>

LoadNode(t) ==
    /\ h[t].step = "load"
    /\ h' = [h EXCEPT ![t].step = "save", ![t].seen = [f \in DOMAIN h[t].asked |-> nodes[h[t].node][f]]]
    /\ UNCHANGED <<bootVars, rows, picked, tree, dialog, edits>>

\* Only the fields of the patch are assigned.
SaveNode(t) ==
    LET n == h[t].node IN
    /\ h[t].step = "save"
    /\ rows' = [rows EXCEPT ![n] =
                  [f \in DOMAIN @ |-> IF f \in DOMAIN h[t].asked
                                      THEN SetIfModified(h[t].seen[f], h[t].asked[f], @[f]) ELSE @[f]]]
    /\ dialog' = [dialog EXCEPT ![t] = NoDialog]
    /\ h' = [h EXCEPT ![t] = [Idle EXCEPT !.step = "refetch"]]
    /\ UNCHANGED <<bootVars, picked, tree, edits>>

\* invalidateQueries: the mutation is over when the tree has been fetched again.
Refetch(t) ==
    /\ h[t].step = "refetch"
    /\ tree' = IF Serving # {} THEN [tree EXCEPT ![t] = FetchTree(nodes)] ELSE tree
    /\ Refused(t)
    /\ UNCHANGED <<bootVars, rows, picked, dialog, edits>>

\* The instance dies, or the answer is lost: the page shows an error.
RequestLost(t) ==
    /\ h[t] # Idle /\ Refused(t)
    /\ UNCHANGED <<bootVars, rows, picked, tree, dialog, edits>>

-----------------------------------------------------------------------------
Init ==
    /\ SeedLockInit
    /\ picked = [n \in 1..MaxNodes |-> IF n \in DOMAIN Plan THEN {Plan[n].accent} ELSE {}]
    /\ tree = [t \in Tabs |-> <<>>] /\ dialog = [t \in Tabs |-> NoDialog] /\ h = [t \in Tabs |-> Idle] /\ edits = 0

Edit(t) ==
    \/ LoadTree(t) \/ CloseAppearance(t) \/ SubmitAppearance(t)
    \/ \E level \in Level, parent \in 0..Len(tree[t]), name \in Names : AddNode(t, level, parent, name)
    \/ \E n \in Listed(t) : ToggleActive(t, n) \/ OpenAppearance(t, n)
    \/ \E colour \in Colours \cup {NoColour} : PickColour(t, colour)

Answer(t) ==
    CheckParent(t) \/ InsertNode(t) \/ LoadNode(t) \/ SaveNode(t) \/ Refetch(t) \/ RequestLost(t)

Next ==
    \/ SeedLockNext /\ UNCHANGED <<picked, tree, dialog, h, edits>>
    \/ \E t \in Tabs : Edit(t) \/ Answer(t)

Spec == Init /\ [][Next]_vars

-----------------------------------------------------------------------------
TypeOK ==
    /\ SeedLockOK
    /\ rows \in Seq(Nodes) /\ Len(rows) <= MaxNodes
    /\ \A t \in Tabs : tree[t] \in Seq(Nodes) /\ h[t].step \in Steps

\* The catalogue is complete before any instance answers, and the losers of
\* the lock wait for the winner (seed-lock.service.ts:20); nothing the
\* administrators do takes a seeded row away.
Seeded == \A i \in DOMAIN Plan : \E j \in DOMAIN rows : SameName(rows[j], Plan[i])

Abstract == INSTANCE SeededOnce WITH seeded <- Seeded, serving <- Serving
SeededBeforeServing == Abstract!Spec

\* Every node hangs below an existing node of the level above its own, and
\* siblings have different names, whatever two administrators add at once.
TreeIsSound ==
    /\ \A i \in DOMAIN nodes : Hangs(nodes, i)
    /\ \A i, j \in DOMAIN nodes : SameName(nodes[i], nodes[j]) => i = j

\* A colour is a node's own only if somebody once gave it to that node: no
\* inherited value is ever saved back by the editor (catalog.service.ts:31,
\* appearance-dialog.tsx:27), however old the tree of the tab is.
InheritanceKept ==
    \A n \in DOMAIN nodes : nodes[n].accent = NoColour \/ nodes[n].accent \in picked[n]
=============================================================================
