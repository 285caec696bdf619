-------------------------- MODULE ServerResources --------------------------
(***************************************************************************)
(* The state an X11 server keeps for its clients: the resource table       *)
(* (windows, pixmaps, graphics contexts, fonts, cursors, colormaps, shared *)
(* memory segments, regions, damage objects and pictures), with the        *)
(* selections, grabs, redirections and event selections that refer to it.  *)
(* One action stands for one request of one client, for a client that      *)
(* arrives or leaves, or for a deferred operation that commits.            *)
(*                                                                         *)
(* In the stand-alone server every request takes effect at once.  In the   *)
(* integrated server the requests that concern a top-level window are      *)
(* deferred: they are validated now, queued, and applied when the window   *)
(* manager and the compositor have agreed (LifecycleCoordinator).  Between *)
(* the two moments the other clients go on changing the table.             *)
(***************************************************************************)
EXTENDS Integers, Sequences, FiniteSets, SequencesExt, FiniteSetsExt,
        Functions

CONSTANTS Bases,        \* resource bases of the registry, positive numbers
          Indices,      \* resource numbers below one base
          KindsAt,      \* which kinds of resource a number is used for
          MaxClients,   \* how many clients may ever connect
          Cells,        \* the cells regions and damage are made of
          Limits,       \* ResourceLimits, scaled down
          Modes,        \* whether the server runs integrated, a set of BOOLEAN
          Workloads     \* what the clients do: records of the requests they use
                        \* (uses), how many of them (requests) and how many
                        \* clients arrive (clients)

ASSUME ResourcesAssumption ==
    /\ Bases \subseteq Nat \ {0}
    /\ MaxClients \in Nat
    /\ Modes \subseteq BOOLEAN
    /\ \A w \in Workloads : /\ w.clients \in 0..MaxClients
                            /\ w.requests \in Nat
    /\ {Limits.drawableBytes, Limits.cursorBytes, Limits.property,
        Limits.totalProperty} \subseteq Nat

VARIABLES integrated,   \* ServerOptions::integrated()
          workload,     \* what the clients of this behaviour do
          res,          \* the ResourceTable
          clients,      \* base of each connected client, 0 when not connected
          arrived,      \* next_client_identifier_
          pendingBases, \* pending_resource_bases_
          owner,        \* SelectionStore: the owner of the selection
          watchers,     \* SelectionStore: XFixes subscriptions
          grab,         \* GrabState: the active pointer grab
          randr,        \* RandRState: event selections
          redirects,    \* CompositeState
          queue,        \* the deferred operations, the head is the active one
          requests,     \* state-changing requests made so far
          running       \* FALSE after a fatal error

vars == <<integrated, workload, res, clients, arrived, pendingBases, owner, watchers,
          grab, randr, redirects, queue, requests, running>>

sideVars == <<owner, watchers, grab, randr, redirects>>

Clients == 1..MaxClients
Root == <<0, 0>>
None == <<0, 1>>
NoStorage == <<0, 0>>
Nobody == <<0, None>>
Xids == Bases \X Indices
Atoms == {"NAME", "STATE"}

(***************************************************************************)
(* The table                                                               *)
(***************************************************************************)

\* ResourceRecord with a WindowResource.
NewWindow(c, parent, class) ==
    [type |-> "Window", owner |-> c, parent |-> parent, children |-> <<>>,
     class |-> class, mapRequested |-> FALSE, policyVisible |-> FALSE,
     mapState |-> "Unmapped", storage |-> NoStorage, inherit |-> TRUE,
     cursor |-> None, image |-> 0, properties |-> <<>>, events |-> {},
     cleanupPending |-> FALSE]

NewTable ==
    [table |-> [x \in {Root} |-> [NewWindow(0, None, "InputOutput") EXCEPT
                                     !.mapState = "Viewable"]],
     owned |-> [c \in Clients |-> <<>>],
     propertyBytes |-> 0, drawableBytes |-> 0, cursorBytes |-> 0]

\* f with the value v at x, which may be new.
With(f, x, v) == [y \in DOMAIN f \union {x} |-> IF y = x THEN v ELSE f[y]]

OfType(t, type) == {x \in DOMAIN t : t[x].type = type}
Windows(t) == OfType(t, "Window")
IsDrawable(t, x) == x \in DOMAIN t /\ t[x].type \in {"Window", "Pixmap"}
OwnedOf(r, c, type) ==
    Cardinality({x \in OfType(r.table, type) : r.table[x].owner = c})

\* valid_new_resource_id
IsNewId(t, base, x) == x[1] = base /\ x \notin DOMAIN t

\* is_policy_candidate
IsPolicyCandidate(t, x) ==
    /\ x \in Windows(t)
    /\ t[x].parent = Root
    /\ t[x].class = "InputOutput"

\* s without the members of gone, and each of its beginnings.
Kept(s, gone) ==
    LET kept[n \in 0..Len(s)] ==
            IF n = 0 THEN <<>>
            ELSE IF s[n] \in gone THEN kept[n - 1] ELSE Append(kept[n - 1], s[n])
    IN  kept
Without(s, gone) == Kept(s, gone)[Len(s)]

\* The sum of the values of f, counted.
SumOf(f) == Cardinality(UNION {{x} \X (1..f[x]) : x \in DOMAIN f})

Install(r, c, x, record) ==
    [r EXCEPT !.table = With(@, x, record), !.owned[c] = Append(@, x)]

\* The resources of gone leave the table and the lists of their owners.
Erase(r, gone) ==
    [r EXCEPT !.table = Restrict(@, DOMAIN @ \ gone),
              !.owned = [c \in Clients |->
                            Without(@[c], {x \in gone : r.table[x].owner = c})]]

\* remove_damage_for_drawable, remove_pictures_for_drawable
Dependents(t, drawables) ==
    {x \in OfType(t, "Damage") \union OfType(t, "Picture") : t[x].drawable \in drawables}

\* recompute_canonical_drawable_bytes: storage named twice is counted once.
PixmapBytes(t) ==
    SumOf([s \in {t[x].storage : x \in OfType(t, "Pixmap")} |-> s[2]])
Accounted(r) == [r EXCEPT !.drawableBytes = PixmapBytes(r.table)]

FreshStorage(t, bytes) ==
    LET used == {t[x].storage[1] : x \in Windows(t) \union OfType(t, "Pixmap")}
    IN  <<CHOOSE n \in 1..(Cardinality(used) + 1) : n \notin used, bytes>>
FreshImage(t) ==
    LET used == {t[x].image : x \in Windows(t) \union OfType(t, "Cursor")}
    IN  CHOOSE n \in 1..(Cardinality(used) + 1) : n \notin used

\* A mutated free_pixmap that forgets the pictures and damage on the pixmap.
FreePixmapKeepingDependents(r, x) == Accounted(Erase(r, {x}))

FreePixmap(r, x) == Accounted(Erase(r, {x} \union Dependents(r.table, {x})))

\* Whether a resource is a window that names the cursor x.
Names(a, x) == a.type = "Window" /\ ~a.inherit /\ a.cursor = x

\* free_cursor: the identifier dies, windows keep the image.
FreeCursor(r, x) ==
    LET s == Erase(r, {x})
    IN  [s EXCEPT !.cursorBytes = @ - 1,
                  !.table = [y \in DOMAIN s.table |->
                      IF Names(s.table[y], x)
                      THEN [s.table[y] EXCEPT !.cursor = None] ELSE s.table[y]]]

FreeGC(r, x) == Erase(r, {x})
CloseFont(r, x) == Erase(r, {x})
FreeColormap(r, x) == Erase(r, {x})
DetachShmSegment(r, x) == Erase(r, {x})
DestroyRegion(r, x) == Erase(r, {x})
DestroyDamage(r, x) == Erase(r, {x})
FreePicture(r, x) == Erase(r, {x})

\* What FreePixmap, FreeGC, CloseFont, FreeCursor, FreeColormap, ShmDetach,
\* DestroyRegion, DamageDestroy and FreePicture do.
FreeResource(r, x) ==
    LET type == r.table[x].type
    IN  CASE type = "Pixmap" -> FreePixmap(r, x)
          [] type = "GraphicsContext" -> FreeGC(r, x)
          [] type = "Font" -> CloseFont(r, x)
          [] type = "Cursor" -> FreeCursor(r, x)
          [] type = "Colormap" -> FreeColormap(r, x)
          [] type = "ShmSegment" -> DetachShmSegment(r, x)
          [] type = "Region" -> DestroyRegion(r, x)
          [] type = "Damage" -> DestroyDamage(r, x)
          [] type = "Picture" -> FreePicture(r, x)
          [] OTHER -> r

PropertyBytes(window) == SumOf(window.properties)
BytesOf(t, windows) == SumOf([w \in windows |-> PropertyBytes(t[w])])

(***************************************************************************)
(* Window trees                                                            *)
(***************************************************************************)

\* The windows above x: what every set has that contains the parent of x and,
\* with a window, its parent.
Ancestors(t, x) ==
    LET upward == {S \in SUBSET Windows(t) :
                      /\ x # Root => t[x].parent \in S
                      /\ \A y \in S \ {Root} : t[y].parent \in S}
    IN  {y \in Windows(t) : \A S \in upward : y \in S}

Subtree(t, x) == {y \in Windows(t) : y = x \/ x \in Ancestors(t, y)}

\* capture_destroy_plan: postorder, the last child of a window first.
DestroyPlan(t, x) ==
    LET post[w \in Subtree(t, x)] ==
            FlattenSeq(Reverse([i \in DOMAIN t[w].children |->
                                    post[t[w].children[i]]]))
            \o << <<w, t[w].parent>> >>
    IN  post[x]

\* destroy_leaf, for all of gone: nothing hangs on one of them but another.
DestroyWindows(r, gone) ==
    LET s == Erase(r, gone \union Dependents(r.table, gone))
        orphaned(x) == IF s.table[x].type # "Window" THEN s.table[x]
                       ELSE [s.table[x] EXCEPT !.children = Without(@, gone)]
    IN  [s EXCEPT !.table = [x \in DOMAIN s.table |-> orphaned(x)],
                  !.propertyBytes = @ - BytesOf(r.table, gone)]

DestroyTree(r, x) == DestroyWindows(r, Subtree(r.table, x))

\* commit_destroy_plan compares the plan with the tree as it is now.
PlanIsCurrent(t, x, plan) == x \in Windows(t) /\ plan = DestroyPlan(t, x)

\* recompute_map_states_from
MapStateOf(t, x, parentViewable) ==
    CASE ~t[x].mapRequested -> "Unmapped"
      [] t[x].mapRequested /\ IsPolicyCandidate(t, x) /\ ~t[x].policyVisible
            -> "Unmapped"
      [] OTHER -> IF parentViewable THEN "Viewable" ELSE "Unviewable"

MapStates(t, x) ==
    LET states[w \in Subtree(t, x)] ==
            IF w = Root THEN "Viewable"
            ELSE MapStateOf(t, w, IF w = x
                                  THEN t[t[w].parent].mapState = "Viewable"
                                  ELSE states[t[w].parent] = "Viewable")
    IN  states

RecomputeMapStates(t, x) ==
    LET states == MapStates(t, x)
    IN  [y \in DOMAIN t |-> IF y \in DOMAIN states
                            THEN [t[y] EXCEPT !.mapState = states[y]] ELSE t[y]]

(***************************************************************************)
(* Clients that leave                                                      *)
(***************************************************************************)

\* prepare_client_cleanup: the leaver's windows that none of its own covers.
CleanupRoots(r, c) ==
    {x \in Range(r.owned[c]) \intersect Windows(r.table) :
        \A y \in Ancestors(r.table, x) \ {Root} : r.table[y].owner # c}

Trees(t, roots) == UNION {Subtree(t, x) : x \in roots \intersect Windows(t)}
CleanupWindows(r, c) == Trees(r.table, CleanupRoots(r, c))

PrepareCleanup(r, c) ==
    LET doomed == CleanupWindows(r, c)
        left(x, a) == IF a.type # "Window" THEN a
                      ELSE [a EXCEPT !.events = @ \ {c},
                                     !.cleanupPending = @ \/ x \in doomed]
    IN  [r EXCEPT !.table = [x \in DOMAIN r.table |-> left(x, r.table[x])]]

AffectsPolicy(r, c) ==
    \E x \in CleanupWindows(r, c) : IsPolicyCandidate(r.table, x)

\* The resources of list that are still there are freed, one after the other.
FreeLeft(r, x) == IF x \in DOMAIN r.table THEN FreeResource(r, x) ELSE r
Freed(r, list) ==
    LET freed[n \in 0..Len(list)] ==
            IF n = 0 THEN r ELSE FreeLeft(freed[n - 1], list[n])
    IN  freed

\* commit_client_cleanup: the windows first, then what is left of the owner's list.
CommitCleanup(r, c, roots) ==
    LET bare == DestroyWindows(r, Trees(r.table, roots))
    IN  Freed(bare, bare.owned[c])[Len(bare.owned[c])]

(***************************************************************************)
(* Regions and damage                                                      *)
(***************************************************************************)

\* add_damage: every damage object on the drawable accumulates.
AddDamage(r, d, cells) ==
    LET heard(a) == IF a.type = "Damage" /\ a.drawable = d
                    THEN [a EXCEPT !.region = @ \union cells] ELSE a
    IN  [r EXCEPT !.table = [x \in DOMAIN r.table |-> heard(r.table[x])]]

\* subtract_damage; None stands for a region identifier of zero.
SubtractDamage(r, x, repair, parts) ==
    LET all == r.table[x].region
        fixed == IF repair = None THEN all ELSE all \intersect r.table[repair].region
        rest == [r EXCEPT !.table[x].region = all \ fixed]
    IN  IF parts = None THEN rest ELSE [rest EXCEPT !.table[parts].region = fixed]

(***************************************************************************)
(* The selections, grabs, redirections and event selections                *)
(***************************************************************************)

\* SelectionStore::clear_client, clear_window
OwnerWithout(o, cs, ws) == IF o[1] \in cs \/ o[2] \in ws THEN Nobody ELSE o
WatchersWithout(cs, ws) == {w \in watchers : w[1] \notin cs /\ w[2] \notin ws}
\* GrabState::cleanup_client, cleanup_window
GrabWithout(cs, ws) == OwnerWithout(grab, cs, ws)
\* RandRState::clear_client, clear_window
RandrWithout(cs, ws) == {e \in randr : e[1] \notin cs /\ e[2] \notin ws}
\* CompositeState::remove_client, remove_window
RedirectsWithout(cs, ws) == {e \in redirects : e.client \notin cs /\ e.window \notin ws}

\* effectively_redirected
EffectivelyRedirected(t, w) ==
    \E e \in redirects :
        \/ e.window = w /\ e.scope = "Direct"
        \/ e.scope = "Subtree" /\ e.window \in Ancestors(t, w)

(***************************************************************************)
(* Serving a request                                                       *)
(***************************************************************************)

Init ==
    /\ integrated \in Modes
    /\ workload \in Workloads
    /\ res = NewTable
    /\ clients = [c \in Clients |-> 0]
    /\ arrived = 0
    /\ pendingBases = {}
    /\ owner = Nobody
    /\ watchers = {}
    /\ grab = Nobody
    /\ randr = {}
    /\ redirects = {}
    /\ queue = <<>>
    /\ requests = 0
    /\ running = TRUE

\* A client whose deferred operation is pending is not dispatched.
Blocked(c) ==
    \E i \in DOMAIN queue : queue[i].client = c /\ queue[i].kind # "Cleanup"

\* A request that is refused changes nothing and is not an action.
Serves(c, request) ==
    /\ running
    /\ request \in workload.uses
    /\ clients[c] # 0
    /\ requests < workload.requests
    /\ ~Blocked(c)

Served == requests' = requests + 1 /\ UNCHANGED <<integrated, workload, clients,
                                                  arrived, pendingBases, running>>
Changes(r) == Served /\ res' = r /\ UNCHANGED <<sideVars, queue>>

\* defer_lifecycle
Defers(c, kind, w, value) ==
    /\ Served
    /\ queue' = Append(queue, [kind |-> kind, client |-> c, window |-> w,
                               value |-> value, cancelled |-> FALSE])

\* Identifiers are only compared, so a client takes its first unused one.
NewIds(c, kind) ==
    LET free == {x \in {clients[c]} \X Indices : /\ kind \in KindsAt[x[2]]
                                                 /\ IsNewId(res.table, clients[c], x)}
    IN  {x \in free : \A y \in free : x[2] <= y[2]}

\* The requests the integrated server answers with BadWindow.
CleanupPending(w) == integrated /\ res.table[w].cleanupPending

(***************************************************************************)
(* Windows                                                                 *)
(***************************************************************************)

CreateWindowIn(r, c, spec) ==
    LET s == Install(r, c, spec.xid,
                     [NewWindow(c, spec.parent, spec.class) EXCEPT
                          !.inherit = spec.cursor = None, !.cursor = spec.cursor,
                          !.image = spec.image,
                          !.events = IF spec.events THEN {c} ELSE {}])
    IN  [s EXCEPT !.table[spec.parent].children = Append(@, spec.xid)]

CreateWindow(c) ==
    /\ Serves(c, "CreateWindow")
    /\ \E x \in NewIds(c, "Window"), parent \in Windows(res.table),
          class \in {"InputOutput", "InputOnly"},
          cursor \in OfType(res.table, "Cursor") \union {None}, events \in BOOLEAN :
        /\ ~CleanupPending(parent)
        /\ class = "InputOnly" => "InputOnly" \in workload.uses
        /\ events => "ChangeWindowAttributes" \in workload.uses
        /\ class = "InputOutput" => res.table[parent].class = "InputOutput"
        /\ LET spec == [xid |-> x, parent |-> parent, class |-> class,
                        cursor |-> cursor, events |-> events,
                        image |-> IF cursor = None THEN 0
                                  ELSE res.table[cursor].image]
           IN  IF integrated /\ parent = Root /\ class = "InputOutput"
               THEN Defers(c, "Create", x, spec) /\ UNCHANGED <<res, sideVars>>
               ELSE Changes(CreateWindowIn(res, c, spec))

\* The local handler forgets what names the windows, but not the grab.
DestroyWindow(c) ==
    /\ Serves(c, "DestroyWindow")
    /\ \E w \in Windows(res.table) \ {Root} :
        /\ ~CleanupPending(w)
        /\ LET t == res.table
               plan == DestroyPlan(t, w)
               gone == Subtree(t, w)
               exposed == IF t[w].mapState = "Viewable" /\ t[w].class = "InputOutput"
                          THEN AddDamage(res, t[w].parent, Cells) ELSE res
           IN  IF integrated /\ IsPolicyCandidate(t, w)
               THEN Defers(c, "Destroy", w, plan) /\ UNCHANGED <<res, sideVars>>
               ELSE /\ Served
                    /\ res' = DestroyTree(exposed, w)
                    /\ owner' = OwnerWithout(owner, {}, gone)
                    /\ watchers' = WatchersWithout({}, gone)
                    /\ randr' = RandrWithout({}, gone)
                    /\ redirects' = RedirectsWithout({}, gone)
                    /\ UNCHANGED <<grab, queue>>

\* set_local_map_intent with the damage of add_local_lifecycle_effects
LocalMap(r, w, mapped) ==
    LET before == r.table[w].mapState
        s == [r EXCEPT !.table =
                 RecomputeMapStates([@ EXCEPT ![w].mapRequested = mapped], w)]
        after == s.table[w].mapState
    IN  CASE s.table[w].class = "InputOnly" -> s
          [] s.table[w].class = "InputOutput" /\ mapped /\ before # "Viewable"
                /\ after = "Viewable" -> AddDamage(s, w, Cells)
          [] s.table[w].class = "InputOutput" /\ ~mapped /\ before = "Viewable"
                -> AddDamage(s, s.table[w].parent, Cells)
          [] OTHER -> s

MapWindow(c) ==
    /\ Serves(c, "MapWindow")
    /\ \E w \in Windows(res.table) \ {Root}, mapped \in BOOLEAN :
        /\ ~CleanupPending(w)
        /\ IF IsPolicyCandidate(res.table, w)
           THEN /\ integrated
                /\ Defers(c, "Map", w, mapped)
                /\ UNCHANGED <<res, sideVars>>
           ELSE /\ res.table[w].mapRequested # mapped
                /\ Changes(LocalMap(res, w, mapped))

\* One child after the other.
LocalMaps(r, list, mapped) ==
    LET done[n \in 0..Len(list)] ==
            IF n = 0 THEN r ELSE LocalMap(done[n - 1], list[n], mapped)
    IN  done

MapSubwindows(c) ==
    /\ Serves(c, "MapSubwindows")
    /\ \E w \in Windows(res.table), mapped \in BOOLEAN :
        LET children == res.table[w].children
        IN  /\ \A x \in Range(children) : ~IsPolicyCandidate(res.table, x)
            /\ \E x \in Range(children) : res.table[x].mapRequested # mapped
            /\ Changes(LocalMaps(res, children, mapped)[Len(children)])

\* configure_local: a resize replaces the storage, a restack moves the window
\* to the top or the bottom of its siblings.
Configured(r, w, resize, stack) ==
    LET t == r.table
        p == t[w].parent
        others == Without(t[p].children, {w})
        storage == IF resize /\ t[w].storage # NoStorage THEN FreshStorage(t, 1)
                   ELSE t[w].storage
        children == CASE stack = "Above" -> Append(others, w)
                      [] stack = "Below" -> <<w>> \o others
                      [] OTHER -> t[p].children
    IN  [r EXCEPT !.table[w].storage = storage, !.table[p].children = children]

ConfigureWindow(c) ==
    /\ Serves(c, "ConfigureWindow")
    /\ \E w \in Windows(res.table) \ {Root}, resize \in BOOLEAN,
          stack \in {"Above", "Below", "None"} :
        /\ ~CleanupPending(w)
        /\ resize \/ stack # "None"
        /\ IF IsPolicyCandidate(res.table, w)
           THEN /\ integrated
                /\ Defers(c, "Configure", w, resize)
                /\ UNCHANGED <<res, sideVars>>
           ELSE Changes(IF res.table[w].class = "InputOutput"
                        THEN AddDamage(Configured(res, w, resize, stack),
                                       res.table[w].parent, Cells)
                        ELSE Configured(res, w, resize, stack))

ChangeWindowAttributes(c) ==
    /\ Serves(c, "ChangeWindowAttributes")
    /\ \E w \in Windows(res.table) :
        /\ ~CleanupPending(w)
        /\ \/ \E x \in OfType(res.table, "Cursor") :
                Changes([res EXCEPT !.table[w].inherit = FALSE,
                                    !.table[w].cursor = x,
                                    !.table[w].image = res.table[x].image])
           \/ /\ ~res.table[w].inherit
              /\ Changes([res EXCEPT !.table[w].inherit = TRUE,
                                     !.table[w].cursor = None,
                                     !.table[w].image = 0])
           \/ /\ c \in res.table[w].events
              /\ Changes([res EXCEPT !.table[w].events = @ \ {c}])
           \/ /\ c \notin res.table[w].events
              /\ Changes([res EXCEPT !.table[w].events = @ \union {c}])

(***************************************************************************)
(* Drawables and the resources without dependents                          *)
(***************************************************************************)

WithoutStorage(c, kind) == [type |-> kind, owner |-> c]

\* The limits the stores check before they create.
RoomForPixmap(r) ==
    /\ Cardinality(OfType(r.table, "Pixmap")) < Limits.pixmaps
    /\ r.drawableBytes < Limits.drawableBytes
RoomForGC(r) == Cardinality(OfType(r.table, "GraphicsContext")) < Limits.gcs
RoomForFont(r, c) ==
    /\ OwnedOf(r, c, "Font") < Limits.perClient
    /\ Cardinality(OfType(r.table, "Font")) < Limits.fonts
RoomForColormap(r, c) == OwnedOf(r, c, "Colormap") < Limits.perClient
RoomForShm(r, c) == OwnedOf(r, c, "ShmSegment") < Limits.perClient
RoomForCursor(r, c) ==
    /\ OwnedOf(r, c, "Cursor") < Limits.perClient
    /\ r.cursorBytes < Limits.cursorBytes
RoomForRegion(r, c) == OwnedOf(r, c, "Region") < Limits.perClient
RoomForDamage(r, c) == OwnedOf(r, c, "Damage") < Limits.perClient
RoomForPicture(r, c) == OwnedOf(r, c, "Picture") < Limits.perClient

CreatePixmap(c) ==
    /\ Serves(c, "CreatePixmap")
    /\ RoomForPixmap(res)
    /\ \E x \in NewIds(c, "Pixmap"), anchor \in DOMAIN res.table :
        /\ \/ anchor = Root
           \/ IsPolicyCandidate(res.table, anchor)
           \/ res.table[anchor].type = "Pixmap"
        /\ Changes(Accounted(Install(res, c, x,
                [type |-> "Pixmap", owner |-> c,
                 storage |-> FreshStorage(res.table, 1)])))

\* mutable_storage: the window's storage is made when it is first needed.
WithStorage(r, d) ==
    IF r.table[d].storage # NoStorage THEN r
    ELSE [r EXCEPT !.table[d].storage = FreshStorage(r.table, 1)]

\* name_window_pixmap: the pixmap shares the window's storage, which stays when
\* the limit refuses the pixmap.
NamedWindowPixmap(r, c, x, w) ==
    LET s == WithStorage(r, w)
        shared == s.table[w].storage
        counted == \E p \in OfType(s.table, "Pixmap") : s.table[p].storage = shared
    IN  IF ~counted /\ s.drawableBytes >= Limits.drawableBytes THEN s
        ELSE Accounted(Install(s, c, x, [type |-> "Pixmap", owner |-> c,
                                         storage |-> shared]))

NameWindowPixmap(c) ==
    /\ Serves(c, "NameWindowPixmap")
    /\ Cardinality(OfType(res.table, "Pixmap")) < Limits.pixmaps
    /\ \E x \in NewIds(c, "Pixmap"), w \in Windows(res.table) \ {Root} :
        /\ EffectivelyRedirected(res.table, w)
        /\ res.table[w].class = "InputOutput"
        /\ Changes(NamedWindowPixmap(res, c, x, w))

\* FreePixmap, FreeGC, CloseFont, FreeColormap, FreeCursor, ShmDetach,
\* DestroyRegion, DamageDestroy, FreePicture: any client may free any resource.
FreeAny(c) ==
    /\ Serves(c, "Free")
    /\ \E x \in DOMAIN res.table :
        /\ res.table[x].type # "Window"
        /\ Changes(FreeResource(res, x))

CreateGC(c) ==
    /\ Serves(c, "CreateGC")
    /\ RoomForGC(res)
    /\ \E x \in NewIds(c, "GraphicsContext"), d \in DOMAIN res.table :
        /\ IsDrawable(res.table, d)
        /\ d \in Windows(res.table) => res.table[d].class = "InputOutput"
        /\ Changes(Install(res, c, x, WithoutStorage(c, "GraphicsContext")))

OpenFont(c) ==
    /\ Serves(c, "OpenFont")
    /\ RoomForFont(res, c)
    /\ \E x \in NewIds(c, "Font") :
        Changes(Install(res, c, x, WithoutStorage(c, "Font")))

CreateColormap(c) ==
    /\ Serves(c, "CreateColormap")
    /\ RoomForColormap(res, c)
    /\ \E x \in NewIds(c, "Colormap") :
        Changes(Install(res, c, x, WithoutStorage(c, "Colormap")))

AttachShm(c) ==
    /\ Serves(c, "ShmAttach")
    /\ RoomForShm(res, c)
    /\ \E x \in NewIds(c, "ShmSegment") :
        Changes(Install(res, c, x, WithoutStorage(c, "ShmSegment")))

WithCursor(r, c, x) ==
    [Install(r, c, x, [type |-> "Cursor", owner |-> c, image |-> FreshImage(r.table)])
     EXCEPT !.cursorBytes = @ + 1]

CreateCursor(c) ==
    /\ Serves(c, "CreateCursor")
    /\ RoomForCursor(res, c)
    /\ OfType(res.table, "Pixmap") # {}
    /\ \E x \in NewIds(c, "Cursor") : Changes(WithCursor(res, c, x))

CreateGlyphCursor(c) ==
    /\ Serves(c, "CreateGlyphCursor")
    /\ RoomForCursor(res, c)
    /\ OfType(res.table, "Font") # {}
    /\ \E x \in NewIds(c, "Cursor") : Changes(WithCursor(res, c, x))

\* recolor_cursor: the windows that name the cursor take the new image.
Recoloured(r, x, image) ==
    [r EXCEPT !.table = [y \in DOMAIN r.table |->
        IF y = x \/ Names(r.table[y], x)
        THEN [r.table[y] EXCEPT !.image = image] ELSE r.table[y]]]

RecolorCursor(c) ==
    /\ Serves(c, "RecolorCursor")
    /\ \E x \in OfType(res.table, "Cursor") :
        Changes(Recoloured(res, x, FreshImage(res.table)))

(***************************************************************************)
(* Regions, damage objects, pictures, drawing                              *)
(***************************************************************************)

CreateRegion(c) ==
    /\ Serves(c, "CreateRegion")
    /\ RoomForRegion(res, c)
    /\ \E x \in NewIds(c, "Region"), cells \in SUBSET Cells :
        Changes(Install(res, c, x, [type |-> "Region", owner |-> c, region |-> cells]))

\* SetRegion, CopyRegion, TranslateRegion, RegionExtents: new contents.
SetRegion(c) ==
    /\ Serves(c, "SetRegion")
    /\ \E x \in OfType(res.table, "Region"), cells \in SUBSET Cells :
        /\ res.table[x].region # cells
        /\ Changes([res EXCEPT !.table[x].region = cells])

\* UnionRegion, IntersectRegion, SubtractRegion; the sources may be the destination.
CombineRegion(c) ==
    /\ Serves(c, "CombineRegion")
    /\ \E x, y, z \in OfType(res.table, "Region") :
        LET a == res.table[x].region
            b == res.table[y].region
        IN  \E new \in {a \union b, a \intersect b, a \ b} :
                /\ new # res.table[z].region
                /\ Changes([res EXCEPT !.table[z].region = new])

CreateDamage(c) ==
    /\ Serves(c, "DamageCreate")
    /\ RoomForDamage(res, c)
    /\ \E x \in NewIds(c, "Damage"), d \in DOMAIN res.table :
        /\ IsDrawable(res.table, d)
        /\ Changes(Install(res, c, x, [type |-> "Damage", owner |-> c,
                                       drawable |-> d, region |-> {}]))

DamageSubtract(c) ==
    /\ Serves(c, "DamageSubtract")
    /\ \E x \in OfType(res.table, "Damage"),
          repair, parts \in OfType(res.table, "Region") \union {None} :
        /\ res.table[x].region # {}
        /\ Changes(SubtractDamage(res, x, repair, parts))

DamageAdd(c) ==
    /\ Serves(c, "DamageAdd")
    /\ \E d \in DOMAIN res.table, y \in OfType(res.table, "Region") :
        /\ IsDrawable(res.table, d)
        /\ \E x \in OfType(res.table, "Damage") : res.table[x].drawable = d
        /\ Changes(AddDamage(res, d, res.table[y].region))

CreateSolidFill(c) ==
    /\ Serves(c, "CreateSolidFill")
    /\ RoomForPicture(res, c)
    /\ \E x \in NewIds(c, "Picture") :
        Changes(Install(res, c, x, [type |-> "Picture", owner |-> c,
                                    drawable |-> None]))

CreatePicture(c) ==
    /\ Serves(c, "CreatePicture")
    /\ RoomForPicture(res, c)
    /\ \E x \in NewIds(c, "Picture"), d \in DOMAIN res.table :
        /\ IsDrawable(res.table, d)
        /\ d \in Windows(res.table) => res.table[d].class = "InputOutput"
        /\ Changes(Install(res, c, x, [type |-> "Picture", owner |-> c,
                                       drawable |-> d]))

\* supported_window_drawable, or a pixmap
Paintable(t, d) ==
    IsDrawable(t, d) /\ (d \in Windows(t) => d # Root /\ t[d].class = "InputOutput")

\* Pixels change in some cells of d, and every damage object on d hears of it.
Paints(r, d) ==
    \E cells \in SUBSET Cells :
        LET new == AddDamage(WithStorage(r, d), d, cells)
        IN  new # res /\ Changes(new)

\* PolyLine, PolySegment, FillPoly, PolyFillArc
PolyDraw(c) ==
    /\ Serves(c, "PolyDraw")
    /\ OfType(res.table, "GraphicsContext") # {}
    /\ \E d \in DOMAIN res.table : Paintable(res.table, d) /\ Paints(res, d)

PutImage(c) ==
    /\ Serves(c, "PutImage")
    /\ OfType(res.table, "GraphicsContext") # {}
    /\ \E d \in DOMAIN res.table : Paintable(res.table, d) /\ Paints(res, d)

\* ShmPutImage crops the segment and goes on as PutImage.
ShmPutImage(c) ==
    /\ Serves(c, "ShmPutImage")
    /\ OfType(res.table, "ShmSegment") # {}
    /\ OfType(res.table, "GraphicsContext") # {}
    /\ \E d \in DOMAIN res.table : Paintable(res.table, d) /\ Paints(res, d)

PolyFillRectangle(c) ==
    /\ Serves(c, "PolyFillRectangle")
    /\ OfType(res.table, "GraphicsContext") # {}
    /\ \E d \in DOMAIN res.table : Paintable(res.table, d) /\ Paints(res, d)

\* ImageText8, PolyText8
DrawText(c) ==
    /\ Serves(c, "DrawText")
    /\ OfType(res.table, "GraphicsContext") # {}
    /\ \E d \in DOMAIN res.table : Paintable(res.table, d) /\ Paints(res, d)

\* The source gets its storage too.
CopyArea(c) ==
    /\ Serves(c, "CopyArea")
    /\ OfType(res.table, "GraphicsContext") # {}
    /\ \E source, d \in DOMAIN res.table :
        /\ Paintable(res.table, source)
        /\ Paintable(res.table, d)
        /\ Paints(WithStorage(res, source), d)

ClearArea(c) ==
    /\ Serves(c, "ClearArea")
    /\ \E w \in Windows(res.table) : Paintable(res.table, w) /\ Paints(res, w)

\* Composite: the destination picture has a drawable, the source may be solid.
RenderComposite(c) ==
    /\ Serves(c, "RenderComposite")
    /\ \E from, to \in OfType(res.table, "Picture") :
        LET d == res.table[to].drawable
            source == res.table[from].drawable
        IN  /\ d # None
            /\ Paintable(res.table, d)
            /\ source # None => Paintable(res.table, source)
            /\ Paints(IF source = None THEN res ELSE WithStorage(res, source), d)

RenderFillRectangles(c) ==
    /\ Serves(c, "RenderFillRectangles")
    /\ \E to \in OfType(res.table, "Picture") :
        LET d == res.table[to].drawable
        IN  d # None /\ Paintable(res.table, d) /\ Paints(res, d)

(***************************************************************************)
(* Properties                                                              *)
(***************************************************************************)

OldSize(r, w, a) ==
    IF a \in DOMAIN r.table[w].properties THEN r.table[w].properties[a] ELSE 0

\* change_property refuses what passes a limit.
PropertyFits(r, w, a, size) ==
    /\ size <= Limits.property
    /\ \/ a \in DOMAIN r.table[w].properties
       \/ Cardinality(DOMAIN r.table[w].properties) < Limits.properties
    /\ size <= Limits.totalProperty - (r.propertyBytes - OldSize(r, w, a))

WithProperty(r, w, a, size) ==
    [r EXCEPT !.table[w].properties = With(@, a, size),
              !.propertyBytes = @ - OldSize(r, w, a) + size]

WithoutProperty(r, w, a) ==
    [r EXCEPT !.table[w].properties = Restrict(@, DOMAIN @ \ {a}),
              !.propertyBytes = @ - OldSize(r, w, a)]

\* A policy property of a top-level window is computed now and applied later.
ChangeProperty(c) ==
    /\ Serves(c, "ChangeProperty")
    /\ \E w \in Windows(res.table), a \in Atoms, append \in BOOLEAN,
          bytes \in 1..Limits.property :
        LET size == IF append THEN OldSize(res, w, a) + bytes ELSE bytes
        IN  /\ PropertyFits(res, w, a, size)
            /\ IF integrated /\ a = "STATE" /\ IsPolicyCandidate(res.table, w)
               THEN /\ Defers(c, "Property", w, size)
                    /\ UNCHANGED <<res, sideVars>>
               ELSE Changes(WithProperty(res, w, a, size))

DeleteProperty(c) ==
    /\ Serves(c, "DeleteProperty")
    /\ \E w \in Windows(res.table), a \in Atoms :
        /\ a \in DOMAIN res.table[w].properties
        /\ IF integrated /\ a = "STATE" /\ IsPolicyCandidate(res.table, w)
           THEN Defers(c, "Property", w, 0) /\ UNCHANGED <<res, sideVars>>
           ELSE Changes(WithoutProperty(res, w, a))

\* GetProperty deletes what it has read to the end, and never defers.
GetProperty(c) ==
    /\ Serves(c, "GetProperty")
    /\ \E w \in Windows(res.table), a \in Atoms :
        /\ a \in DOMAIN res.table[w].properties
        /\ Changes(WithoutProperty(res, w, a))

(***************************************************************************)
(* Selections, grabs, redirections, event selections                       *)
(***************************************************************************)

SetSelectionOwner(c) ==
    /\ Serves(c, "SetSelectionOwner")
    /\ \E w \in Windows(res.table) \union {None} :
        /\ Served
        /\ owner' = IF w = None THEN Nobody ELSE <<c, w>>
        /\ owner' # owner
        /\ UNCHANGED <<res, watchers, grab, randr, redirects, queue>>

SelectSelectionInput(c) ==
    /\ Serves(c, "SelectSelectionInput")
    /\ \E w \in Windows(res.table) :
        /\ Served
        /\ watchers' = SymDiff(watchers, {<<c, w>>})
        /\ UNCHANGED <<res, owner, grab, randr, redirects, queue>>

GrabPointer(c) ==
    /\ Serves(c, "GrabPointer")
    /\ grab = Nobody
    /\ \E w \in Windows(res.table) :
        /\ res.table[w].mapState = "Viewable"
        /\ Served
        /\ grab' = <<c, w>>
        /\ UNCHANGED <<res, owner, watchers, randr, redirects, queue>>

UngrabPointer(c) ==
    /\ Serves(c, "UngrabPointer")
    /\ grab[1] = c
    /\ Served
    /\ grab' = Nobody
    /\ UNCHANGED <<res, owner, watchers, randr, redirects, queue>>

RandrSelectInput(c) ==
    /\ Serves(c, "RandrSelectInput")
    /\ \E w \in Windows(res.table) :
        /\ Served
        /\ randr' = SymDiff(randr, {<<c, w>>})
        /\ UNCHANGED <<res, owner, watchers, grab, redirects, queue>>

\* RedirectWindow, RedirectSubwindows: one manual redirection per window and scope.
Redirect(c) ==
    /\ Serves(c, "Redirect")
    /\ \E w \in Windows(res.table), scope \in {"Direct", "Subtree"}, manual \in BOOLEAN :
        /\ ~(scope = "Direct" /\ w = Root)
        /\ manual => ~\E e \in redirects : /\ e.window = w /\ e.scope = scope
                                           /\ e.manual /\ e.client # c
        /\ Served
        /\ redirects' = redirects \union {[client |-> c, window |-> w,
                                           scope |-> scope, manual |-> manual]}
        /\ redirects' # redirects
        /\ UNCHANGED <<res, owner, watchers, grab, randr, queue>>

Unredirect(c) ==
    /\ Serves(c, "Unredirect")
    /\ \E e \in redirects :
        /\ e.client = c
        /\ Served
        /\ redirects' = redirects \ {e}
        /\ UNCHANGED <<res, owner, watchers, grab, randr, queue>>

(***************************************************************************)
(* Clients arrive and leave                                                *)
(***************************************************************************)

\* allocate_resource_base
FreeBases == {b \in Bases : b \notin pendingBases /\ \A c \in Clients : clients[c] # b}

\* A mutated allocate_resource_base that hands out bases still being cleaned.
AcceptPendingBase ==
    /\ running
    /\ arrived < workload.clients
    /\ LET free == {b \in Bases : \A c \in Clients : clients[c] # b}
       IN  /\ free # {}
           /\ clients' = [clients EXCEPT ![arrived + 1] = Min(free)]
    /\ arrived' = arrived + 1
    /\ UNCHANGED <<integrated, workload, res, pendingBases, sideVars, queue,
                   requests, running>>

Accept ==
    /\ running
    /\ arrived < workload.clients
    /\ FreeBases # {}
    /\ arrived' = arrived + 1
    /\ clients' = [clients EXCEPT ![arrived + 1] = Min(FreeBases)]
    /\ UNCHANGED <<integrated, workload, res, pendingBases, sideVars, queue,
                   requests, running>>

\* A mutated cleanup_client that keeps the client's grab.
LeaveAloneGrabbing(c) ==
    LET cleaned == CommitCleanup(PrepareCleanup(res, c), c, CleanupRoots(res, c))
    IN  /\ res' = cleaned
        /\ owner' = OwnerWithout(owner, {c}, {})
        /\ watchers' = WatchersWithout({c}, {})
        /\ randr' = {e \in RandrWithout({c}, {}) : e[2] \in Windows(cleaned.table)}
        /\ redirects' = RedirectsWithout({c}, {})
        /\ UNCHANGED grab

\* ServerState::cleanup_client
LeaveAlone(c) ==
    LET cleaned == CommitCleanup(PrepareCleanup(res, c), c, CleanupRoots(res, c))
    IN  /\ res' = cleaned
        /\ owner' = OwnerWithout(owner, {c}, {})
        /\ watchers' = WatchersWithout({c}, {})
        /\ grab' = GrabWithout({c}, {})
        /\ randr' = {e \in RandrWithout({c}, {}) : e[2] \in Windows(cleaned.table)}
        /\ redirects' = RedirectsWithout({c}, {})

LeaveStandalone(c) ==
    /\ running
    /\ ~integrated
    /\ clients[c] # 0
    /\ clients' = [clients EXCEPT ![c] = 0]
    /\ LeaveAlone(c)
    /\ UNCHANGED <<integrated, workload, arrived, pendingBases, queue, requests,
                   running>>

Cancelled(q, c) ==
    [i \in DOMAIN q |-> [q[i] EXCEPT !.cancelled = @ \/ q[i].client = c]]

\* cancel_client_lifecycle: the table is cleaned at once unless a top-level
\* window goes with the client; then the cleanup goes to the front of the
\* queue, behind the operation that is already under way.
LeaveIntegrated(c) ==
    /\ running
    /\ integrated
    /\ clients[c] # 0
    /\ clients' = [clients EXCEPT ![c] = 0]
    /\ owner' = OwnerWithout(owner, {c}, {})
    /\ watchers' = WatchersWithout({c}, {})
    /\ LET roots == CleanupRoots(res, c)
           q == Cancelled(queue, c)
           cleanup == [kind |-> "Cleanup", client |-> c, window |-> None,
                       value |-> <<clients[c], roots>>, cancelled |-> FALSE]
       IN  IF AffectsPolicy(res, c)
           THEN /\ res' = PrepareCleanup(res, c)
                /\ pendingBases' = pendingBases \union {clients[c]}
                /\ \E n \in {0, 1} : n <= Len(q) /\ queue' = InsertAt(q, n + 1, cleanup)
           ELSE /\ res' = CommitCleanup(PrepareCleanup(res, c), c, roots)
                /\ queue' = q
                /\ UNCHANGED pendingBases
    /\ UNCHANGED <<integrated, workload, arrived, grab, randr, redirects, requests,
                   running>>

(***************************************************************************)
(* The deferred operations                                                 *)
(***************************************************************************)

\* apply_policy_state: the windows the manager shows go on top, in its order.
PolicyApplied(r, order) ==
    LET shown == Range(order)
        t == [x \in DOMAIN r.table |->
                 IF IsPolicyCandidate(r.table, x)
                 THEN [r.table[x] EXCEPT !.policyVisible = x \in shown]
                 ELSE r.table[x]]
        hidden == Without(t[Root].children, shown)
    IN  [r EXCEPT !.table =
            RecomputeMapStates([t EXCEPT ![Root].children = hidden \o order], Root)]

\* What the window manager may answer: any of the windows that ask to be mapped.
Answers(r) ==
    UNION {SetToSeqs(shown) : shown \in
        SUBSET {x \in Windows(r.table) : /\ IsPolicyCandidate(r.table, x)
                                        /\ r.table[x].mapRequested}}

\* commit_lifecycle: what the mutation of the operation does to the table.
Mutated(r, op) ==
    CASE op.kind = "Create" -> CreateWindowIn(r, op.client, op.value)
      [] op.kind = "Destroy" -> DestroyTree(r, op.window)
      [] op.kind = "Cleanup" -> CommitCleanup(r, op.client, op.value[2])
      [] op.kind = "Property" -> IF op.value = 0
                                 THEN WithoutProperty(r, op.window, "STATE")
                                 ELSE WithProperty(r, op.window, "STATE", op.value)
      [] op.kind = "Map" -> [r EXCEPT !.table[op.window].mapRequested = op.value]
      [] op.kind = "Configure" -> Configured(r, op.window, op.value, "None")

\* Whether commit_lifecycle succeeds; a failure is fatal to the coordinator.
Commits(r, op) ==
    CASE op.kind = "Destroy" -> PlanIsCurrent(r.table, op.window, op.value)
      [] op.kind = "Property" /\ op.value # 0 ->
            PropertyFits(r, op.window, "STATE", op.value)
      [] OTHER -> TRUE

\* rebase: an operation on a window that is gone is refused when its turn comes.
Rebases(op) == op.kind \in {"Create", "Cleanup"} \/ op.window \in Windows(res.table)

CommitDeferred ==
    /\ running
    /\ queue # <<>>
    /\ LET op == Head(queue)
           gone == IF op.kind = "Destroy" THEN Subtree(res.table, op.window)
                  ELSE {}
           left == IF op.kind = "Cleanup" THEN {op.client} ELSE {}
       IN  /\ ~op.cancelled
           /\ Rebases(op)
           /\ Commits(res, op)
           /\ \E mutated \in {Mutated(res, op)} :
                \E order \in Answers(mutated) : res' = PolicyApplied(mutated, order)
           /\ owner' = OwnerWithout(owner, left, gone)
           /\ watchers' = WatchersWithout(left, gone)
           /\ grab' = GrabWithout({}, gone)
           /\ redirects' = RedirectsWithout(left, gone)
           /\ pendingBases' = IF op.kind = "Cleanup"
                              THEN pendingBases \ {op.value[1]} ELSE pendingBases
    /\ queue' = Tail(queue)
    /\ UNCHANGED <<integrated, workload, clients, arrived, randr, requests, running>>

\* Refused by the window manager, by the compositor or by rebase, or cancelled.
\* A cleanup is never refused (LifecycleCoordinator has its rollback).
RejectDeferred ==
    /\ running
    /\ queue # <<>>
    /\ Head(queue).kind # "Cleanup"
    /\ queue' = Tail(queue)
    /\ UNCHANGED <<integrated, workload, res, clients, arrived, pendingBases,
                   sideVars, requests, running>>

\* LifecycleCoordinator::fatal
CommitFails ==
    /\ running
    /\ queue # <<>>
    /\ ~Head(queue).cancelled
    /\ Rebases(Head(queue))
    /\ ~Commits(res, Head(queue))
    /\ running' = FALSE
    /\ UNCHANGED <<integrated, workload, res, clients, arrived, pendingBases,
                   sideVars, queue, requests>>

Next ==
    \/ Accept \/ CommitDeferred \/ RejectDeferred \/ CommitFails
    \/ \E c \in Clients :
        \/ LeaveStandalone(c) \/ LeaveIntegrated(c)
        \/ CreateWindow(c) \/ DestroyWindow(c) \/ MapWindow(c) \/ MapSubwindows(c)
        \/ ConfigureWindow(c) \/ ChangeWindowAttributes(c)
        \/ CreatePixmap(c) \/ NameWindowPixmap(c) \/ FreeAny(c) \/ CreateGC(c)
        \/ OpenFont(c) \/ CreateColormap(c) \/ AttachShm(c) \/ CreateCursor(c)
        \/ CreateGlyphCursor(c) \/ CreateSolidFill(c)
        \/ RecolorCursor(c) \/ CreateRegion(c) \/ SetRegion(c) \/ CombineRegion(c)
        \/ CreateDamage(c) \/ DamageSubtract(c) \/ DamageAdd(c) \/ CreatePicture(c)
        \/ PolyDraw(c) \/ PutImage(c) \/ ShmPutImage(c) \/ PolyFillRectangle(c)
        \/ DrawText(c) \/ CopyArea(c) \/ ClearArea(c) \/ RenderComposite(c)
        \/ RenderFillRectangles(c) \/ ChangeProperty(c) \/ DeleteProperty(c) \/ GetProperty(c)
        \/ SetSelectionOwner(c) \/ SelectSelectionInput(c) \/ GrabPointer(c)
        \/ UngrabPointer(c) \/ RandrSelectInput(c) \/ Redirect(c) \/ Unredirect(c)

Spec == Init /\ [][Next]_vars

(***************************************************************************)
(* Correctness                                                             *)
(***************************************************************************)

OwnersAreExact ==
    \A x \in DOMAIN res.table \ {Root} :
        LET list == res.owned[res.table[x].owner]
        IN  Cardinality({i \in DOMAIN list : list[i] = x}) = 1

TreeIsConsistent ==
    LET t == res.table
    IN  \A w \in Windows(t) :
            /\ \A i \in DOMAIN t[w].children : /\ t[w].children[i] \in Windows(t)
                                               /\ t[t[w].children[i]].parent = w
            /\ w # Root => /\ t[w].parent \in Windows(t)
                           /\ w \in Range(t[t[w].parent].children)
            /\ t[w].class = "InputOutput" /\ w # Root
                    => t[t[w].parent].class = "InputOutput"

NothingDangles ==
    \A x \in OfType(res.table, "Damage") \union OfType(res.table, "Picture") :
        res.table[x].drawable = None \/ IsDrawable(res.table, res.table[x].drawable)

TotalsAreExact ==
    /\ res.propertyBytes = BytesOf(res.table, Windows(res.table))
    /\ res.drawableBytes = PixmapBytes(res.table)
    /\ res.cursorBytes = Cardinality(OfType(res.table, "Cursor"))
    /\ res.propertyBytes <= Limits.totalProperty
    /\ res.drawableBytes <= Limits.drawableBytes
    /\ res.cursorBytes <= Limits.cursorBytes

\* A window's map state is what its own intent, its ancestors' and the window
\* manager's decision make it, though it is stored and only recomputed along
\* the paths that change it (recompute_map_states).
MapStatesAreDerived ==
    LET t == res.table
        asks(w) == /\ t[w].mapRequested
                   /\ IsPolicyCandidate(t, w) => t[w].policyVisible
    IN  \A w \in Windows(t) \ {Root} :
            t[w].mapState =
                IF ~asks(w) THEN "Unmapped"
                ELSE IF \A a \in Ancestors(t, w) \ {Root} : asks(a)
                     THEN "Viewable" ELSE "Unviewable"

\* The resource table stays whole through every order of requests, of clients
\* that leave, and of deferred operations that commit late: each resource is in
\* its owner's list exactly once, the window tree agrees in both directions, no
\* damage object or picture outlives its drawable, the byte totals are those of
\* the resources there are and within the limits, and the stored map states are
\* what the tree makes them (ResourceTable::invariants_hold).
TableIsConsistent ==
    /\ OwnersAreExact
    /\ TreeIsConsistent
    /\ NothingDangles
    /\ TotalsAreExact
    /\ MapStatesAreDerived

\* A resource base is not given to a new client while anything of its previous
\* holder is still in the table or waits to be cleaned: a live resource belongs
\* to the client that holds its base, or is being cleaned for one that left
\* (allocate_resource_base with pending_resource_bases_).
BasesAreClean ==
    \A x \in DOMAIN res.table \ {Root} :
        \/ clients[res.table[x].owner] = x[1]
        \/ x[1] \in pendingBases /\ \A c \in Clients : clients[c] # x[1]

\* In the stand-alone server a client that leaves takes with it every selection,
\* watch, grab, event selection and redirection it had (cleanup_client).
LeavesNoTrace ==
    ~integrated =>
        \A c \in Clients : clients[c] = 0 =>
            /\ c # owner[1] /\ c # grab[1]
            /\ \A e \in watchers \union randr : e[1] # c
            /\ \A e \in redirects : e.client # c
            /\ \A w \in Windows(res.table) : c \notin res.table[w].events
            /\ res.owned[c] = <<>>

=============================================================================
