------------------------------ MODULE WebClient ------------------------------
(***************************************************************************)
(* The pages of apps/web behind the login: the form with its due date, the *)
(* tasks in the cache with their events, the paged lists, and the bell.    *)
(* These parts share the cache's client but no entry of it, so a behaviour *)
(* follows one of them, the scene, and leaves the others as they started.  *)
(***************************************************************************)
EXTENDS TaskForm, TasksCache, TaskPages, NotificationsPopover

CONSTANT Scene      \* the parts a behaviour may follow

ASSUME SceneAssumption == Scene \subseteq {"form", "tasks", "pages", "bell"}

VARIABLE scene

vars == <<scene, formVars, cacheVars, pageCacheVars, popoverVars>>

(* Every variable has its type.                                            *)
TypeOK ==
    /\ scene \in Scene
    /\ FormTypeOK
    /\ CacheTypeOK
    /\ PagesTypeOK
    /\ PopoverTypeOK

Init ==
    /\ scene \in Scene
    /\ FormInit /\ CacheInit /\ PagesInit /\ PopoverInit
    /\ scene # "form" => browserZone = UTC /\ taskTimezone = UTC
    /\ scene # "tasks" => matching = {} /\ filters = CHOOSE slice \in Slice : TRUE
    /\ scene # "pages" => view = CommentsView /\ rows["comments"] = 0
    /\ scene # "bell" => total = 0

Next ==
    \/ /\ scene = "form" /\ FormNext
       /\ UNCHANGED <<scene, cacheVars, pageCacheVars, popoverVars>>
    \/ /\ scene = "tasks" /\ CacheNext
       /\ UNCHANGED <<scene, formVars, pageCacheVars, popoverVars>>
    \/ /\ scene = "pages" /\ PagesNext
       /\ UNCHANGED <<scene, formVars, cacheVars, popoverVars>>
    \/ /\ scene = "bell" /\ PopoverNext
       /\ UNCHANGED <<scene, formVars, cacheVars, pageCacheVars>>

Spec == Init /\ [][Next]_vars
=============================================================================
