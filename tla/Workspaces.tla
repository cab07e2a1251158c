----------------------------- MODULE Workspaces -----------------------------
(***************************************************************************)
(* The dock: a workspace, whose windows are the leaves of a tree of splits *)
(* and tab groups (src/ui/shell/workspace.ts, layout-actions.ts), and the  *)
(* window that is shown alone (dock.tsx).  The layout is stored, the       *)
(* counter that names new windows and containers is not: it starts again   *)
(* with the page.  The direction of a split and the sizes of its parts are *)
(* abstracted to how many sizes there are; other workspaces are other      *)
(* trees.                                                                  *)
(***************************************************************************)
EXTENDS Naturals, Sequences, FiniteSets

CONSTANTS
    MaxPanels,   \* (bound) windows in a workspace
    MaxNodes,    \* (bound) names given to windows and containers
    MaxReloads   \* (bound)

VARIABLES
    root,        \* the tree of the workspace shown
    counter,     \* nodeCounter
    maximized,   \* the window shown alone, or None
    windows,     \* history: the windows it should have
    reloads,
    clash        \* history: a name was given twice in one tree

vars == <<root, counter, maximized, windows, reloads, clash>>

None == <<>>
Preset == [type |-> "panel", id |-> <<"root", 0>>]
Panel(n) == [type |-> "panel", id |-> <<"p", n>>]
Tabs(id, kids, shown) == [type |-> "tabs", id |-> id, active |-> shown, children |-> kids]
Split(id, kids, sizes) == [type |-> "split", id |-> id, sizes |-> sizes, children |-> kids]

Init ==
    /\ root = Preset /\ counter = 0 /\ maximized = None /\ windows = {Preset.id}
    /\ reloads = 0 /\ clash = FALSE

-----------------------------------------------------------------------------
RECURSIVE AllPanels(_), Containers(_), RemovePanel(_, _), Insert(_, _, _, _, _), SetActiveTab(_, _, _)

\* The ids of the leaves, in the order of the tree; the containers.
AllPanels(node) ==
    IF node.type = "panel" THEN <<node.id>>
    ELSE LET from[n \in 0..Len(node.children)] ==
               IF n = 0 THEN <<>> ELSE from[n - 1] \o AllPanels(node.children[n])
         IN from[Len(node.children)]
Containers(node) ==
    IF node.type = "panel" THEN {}
    ELSE {node} \cup UNION {Containers(node.children[n]) : n \in DOMAIN node.children}
Held(node) == {AllPanels(node)[n] : n \in DOMAIN AllPanels(node)}
Names(node) == Held(node) \cup {c.id : c \in Containers(node)}

\* What is left of a workspace without a window; None when nothing is.  A container
\* with one child gives way to the child.
Nothing == [type |-> "nothing"]
\* A plausible mistake: the number of the visible tab is kept.
ShownKept(shown, removed, kids) == IF shown <= kids THEN shown ELSE kids
Shown(shown, removed, kids) ==
    LET shifted == IF removed < shown THEN shown - 1 ELSE shown
    IN  IF shifted <= kids THEN shifted ELSE kids
Collapsed(node, kids) ==
    CASE Len(kids) = 0 -> Nothing
      [] Len(kids) = 1 -> kids[1]
      [] OTHER -> node
RemovePanel(node, id) ==
    CASE node.type = "panel" -> IF node.id = id THEN Nothing ELSE node
      [] node.type = "tabs" ->
           LET kids == SelectSeq(node.children, LAMBDA c : c.id # id)
               gone == {n \in DOMAIN node.children : node.children[n].id = id}
               removed == CHOOSE n \in gone : \A k \in gone : n <= k
           IN  IF gone = {} THEN node
               ELSE Collapsed(Tabs(node.id, kids, Shown(node.active, removed, Len(kids))), kids)
      [] OTHER ->
           LET rest == [n \in DOMAIN node.children |-> RemovePanel(node.children[n], id)]
               kids == SelectSeq(rest, LAMBDA c : c # Nothing)
           IN  IF rest = node.children THEN node
               ELSE Collapsed(Split(node.id, kids, Len(kids)), kids)

\* insertRelative: into the tab group of the target, or beside it in a new split.
Beside(node, panel, zone, name) ==
    Split(name, IF zone = "before" THEN <<panel, node>> ELSE <<node, panel>>, 2)
Insert(node, target, panel, zone, name) ==
    CASE node.type = "tabs" ->
           IF ~\E n \in DOMAIN node.children : node.children[n].id = target THEN node
           ELSE IF zone = "center"
                THEN Tabs(node.id, Append(node.children, panel), Len(node.children) + 1)
                ELSE Beside(node, panel, zone, name)
      [] node.type = "panel" ->
           IF node.id # target THEN node
           ELSE IF zone = "center" THEN Tabs(name, <<node, panel>>, 2)
                ELSE Beside(node, panel, zone, name)
      [] OTHER ->
           [node EXCEPT !.children = [n \in DOMAIN node.children |->
                Insert(node.children[n], target, panel, zone, name)]]

SetActiveTab(node, tab, n) ==
    CASE node.type = "panel" -> node
      [] node.type = "tabs" ->
           IF node.id # tab THEN node
           ELSE [node EXCEPT !.active = IF n <= Len(node.children) THEN n ELSE Len(node.children)]
      [] OTHER ->
           [node EXCEPT !.children = [k \in DOMAIN node.children |-> SetActiveTab(node.children[k], tab, n)]]

-----------------------------------------------------------------------------
Zones == {"before", "after", "center"}
\* A window shown alone is shown so only while it is in the workspace.
Alone(node) == IF maximized \in Held(node) THEN maximized ELSE None
Changed(node, held) ==
    /\ root' = node /\ windows' = held /\ maximized' = Alone(node)
    /\ UNCHANGED reloads

\* addWidget: beside a given window, or to the right of the first one.
Target == {<<id, zone>> : id \in Held(root), zone \in Zones} \cup {<<AllPanels(root)[1], "after">>}
Add ==
    /\ Len(AllPanels(root)) < MaxPanels /\ counter + 2 <= MaxNodes
    /\ \E to \in Target :
         LET panel == Panel(counter + 1)
             name == <<"n", counter + 2>>
             next == Insert(root, to[1], panel, to[2], name)
             named == name \in {c.id : c \in Containers(next)} \ {c.id : c \in Containers(root)}
         IN  /\ counter' = counter + (IF named THEN 2 ELSE 1)
             /\ clash' = (clash \/ {panel.id, name} \cap Names(root) # {})
             /\ Changed(next, windows \cup {panel.id})

\* closeWidget: the last window stays.
Close(id) ==
    /\ Len(AllPanels(root)) > 1
    /\ LET next == RemovePanel(root, id)
       IN  IF next = Nothing THEN UNCHANGED vars
           ELSE /\ Changed(next, windows \ {id})
                /\ UNCHANGED <<counter, clash>>

\* movePanel: the window is taken out and put in again.
Move(id, target, zone) ==
    /\ id # target /\ counter < MaxNodes
    /\ LET without == RemovePanel(root, id)
           name == <<"n", counter + 1>>
           next == Insert(without, target, [type |-> "panel", id |-> id], zone, name)
           named == name \in {c.id : c \in Containers(next)} \ {c.id : c \in Containers(without)}
       IN  /\ without # Nothing /\ target \in Held(without)
           /\ counter' = IF named THEN counter + 1 ELSE counter
           /\ clash' = (clash \/ name \in Names(root))
           /\ Changed(next, windows)

SelectTab(tab, n) ==
    /\ Changed(SetActiveTab(root, tab.id, n), windows)
    /\ UNCHANGED <<counter, clash>>

Maximize(id) ==
    /\ maximized' = IF maximized = id THEN None ELSE id
    /\ UNCHANGED <<root, counter, windows, reloads, clash>>

-----------------------------------------------------------------------------
\* resetActiveWorkspace, of a screen's own workspace: another has no preset.
Reset ==
    /\ Changed(Preset, {Preset.id})
    /\ UNCHANGED <<counter, clash>>

\* The page is loaded again: the stored layout comes back, the counter does not.
Reload ==
    /\ reloads < MaxReloads /\ reloads' = reloads + 1
    /\ counter' = 0 /\ maximized' = None
    /\ UNCHANGED <<root, windows, clash>>

Next ==
    \/ Add \/ Reset \/ Reload
    \/ \E id \in Held(root) : Close(id) \/ Maximize(id)
    \/ \E id \in Held(root), target \in Held(root), zone \in Zones : Move(id, target, zone)
    \/ \E tab \in {c \in Containers(root) : c.type = "tabs"} :
         \E n \in DOMAIN tab.children : SelectTab(tab, n)

Spec == Init /\ [][Next]_vars

-----------------------------------------------------------------------------
TypeOK ==
    /\ counter \in 0..MaxNodes
    /\ reloads \in 0..MaxReloads /\ clash \in BOOLEAN
    /\ \A id \in Held(root) : id[2] \in 0..MaxNodes

\* No window is lost or shown twice, whatever is added, closed, moved and put into
\* tabs: the leaves of the tree are the windows the operator added and did not close.
\* Only while names are not given twice, which a page that is loaded again may do:
\* workspace.ts:172 counts from zero again beside the stored names.
NoWindowLost ==
    clash \/ (Held(root) = windows /\ Len(AllPanels(root)) = Cardinality(windows))

\* Every tree can be drawn: a container holds two windows or more, a tab group shows
\* one it has, a split has one size for each part, and the window that is shown alone
\* is in the workspace.
TreesAreDrawable ==
    /\ \A c \in Containers(root) :
         /\ Len(c.children) >= 2
         /\ IF c.type = "tabs" THEN c.active \in DOMAIN c.children
            ELSE c.sizes = Len(c.children)
    /\ maximized = None \/ maximized \in Held(root)

\* "so the same tab stays visible" (workspace.ts:221): what a tab group shows changes
\* only when that window leaves, a window comes, or the operator selects another.
VisibleOf(c) == c.children[c.active].id
TabStays ==
    [][\A id \in Held(root) : (Close(id) /\ ~clash) =>
         \A c \in {x \in Containers(root) : x.type = "tabs" /\ VisibleOf(x) # id} :
           \A d \in Containers(root') : d.id = c.id => VisibleOf(d) = VisibleOf(c)]_vars
=============================================================================
