-------------------------- MODULE AreaOfInterest ----------------------------
(***************************************************************************)
(* The plugin plugin/aoi and its user js/game_server/entity.js: who is     *)
(* near whom in a scene, and what the clients are told of it.  A manager   *)
(* keeps two lists of its entities, by x and by y, and an entity keeps the *)
(* map of those that were near it when it or they moved last.              *)
(* (The calls of entity.js in game_player.js are commented out; the        *)
(* modules are modelled as they would run.)                                *)
(***************************************************************************)
EXTENDS Integers, Sequences, SequencesExt

CONSTANTS
    Sids,        \* the players
    Scenes,      \* the ids of managers
    Xs, Ys,      \* the coordinates a player may have
    Radius,      \* the radius of create_aoi_entity
    MaxMoves     \* bound: how many steps are walked

NoScene == "none"
ASSUME AoiAssumption == Radius \in Nat /\ NoScene \notin Scenes

VARIABLES
    managers,    \* aoi_manager_map_
    x_list, y_list, \* by manager, in what is to be the order of a coordinate
    entity_map,  \* aoi_entity_map_
    manager,     \* aoi_manager_ of each entity
    pos,         \* pos_
    aoi_map,     \* aoi_map_
    scene_id,    \* of entity.js: "none" without an entity, else where it entered
    shown,       \* whom the client of a player was told of, and not told to forget
    strangers,   \* a client was told that somebody moves whom it does not know
    moves
aoiVars == <<managers, x_list, y_list, entity_map, manager, pos, aoi_map, scene_id, shown,
             strangers, moves>>

-----------------------------------------------------------------------------
(* The two lists.  "c" gives the coordinate of each entity. *)

\* x_pos_ and y_pos_: where an entity is in a list.
Place(list, s) == CHOOSE i \in DOMAIN list : list[i] = s
Without(list, s) == RemoveAt(list, Place(list, s))

\* In front of the first one that is farther.
insert_entity(list, s, c) ==
    LET farther == { i \in DOMAIN list : c[list[i]] > c[s] }
    IN  IF farther = {} THEN Append(list, s)
        ELSE InsertAt(list, CHOOSE i \in farther : \A j \in farther : i <= j, s)

\* An entity that gained on the axis is looked a place for in front of where it was,
\* any other behind: the first and the last stay.
update_list(list, s, c, direct) ==
    LET at == Place(list, s)
        rest == Without(list, s)
        nearer == { i \in 1 .. at - 1 : c[rest[i]] < c[s] }
        farther == { i \in at .. Len(rest) : c[rest[i]] > c[s] }
    IN  IF direct
        THEN IF at = 1 THEN list
             ELSE IF nearer = {} THEN InsertAt(rest, 1, s)
             ELSE InsertAt(rest, 1 + CHOOSE i \in nearer : \A j \in nearer : i >= j, s)
        ELSE IF at = Len(list) THEN list
             ELSE IF farther = {} THEN Append(rest, s)
             ELSE InsertAt(rest, CHOOSE i \in farther : \A j \in farther : i <= j, s)

\* Those reached from s along a list before one that is too far.
Reached(list, s, c) ==
    LET at == Place(list, s)
    IN  { list[i] : i \in { j \in at + 1 .. Len(list) :
                              \A k \in at + 1 .. j : c[list[k]] - c[s] <= Radius } }
        \cup { list[i] : i \in { j \in 1 .. at - 1 :
                              \A k \in j .. at - 1 : c[s] - c[list[k]] <= Radius } }

X(p) == [ s \in Sids |-> p[s].x ]
Y(p) == [ s \in Sids |-> p[s].y ]

\* update_aoi_map of the manager and of the entity: the new map of s, who came into it
\* and who is out of it, and the maps of those.
Enters(old, new) == new \ old
Leaves(old, new) == old \ new
\* A plausible slip: those who are out of reach keep s in their maps.
MapsAfterKeeping(s, new) ==
    [ t \in Sids |-> IF t = s THEN new
                     ELSE IF t \in Enters(aoi_map[s], new) THEN aoi_map[t] \cup {s}
                     ELSE aoi_map[t] ]
MapsAfter(s, new) ==
    [ t \in Sids |-> IF t = s THEN new
                     ELSE IF t \in Enters(aoi_map[s], new) THEN aoi_map[t] \cup {s}
                     ELSE IF t \in Leaves(aoi_map[s], new) THEN aoi_map[t] \ {s}
                     ELSE aoi_map[t] ]

-----------------------------------------------------------------------------
(* broadcast_msg of entity.js: RES_ENTER_ZONE, RES_LEAVE_ZONE and RES_MOVE. *)

\* s and those who came learn of each other; those who left forget s, and s forgets them
\* as long as it is in a scene.
Told(s, came, left, inScene) ==
    [ t \in Sids |-> IF t = s THEN (shown[s] \cup came) \ (IF inScene THEN left ELSE {})
                     ELSE IF t \in came THEN shown[t] \cup {s}
                     ELSE IF t \in left THEN shown[t] \ {s} ELSE shown[t] ]

\* Those told of a step, by what is shown to them by then.
StepTold(s, to, view) == strangers \/ \E t \in to : s \notin view[t]

-----------------------------------------------------------------------------
aoiInit ==
    /\ managers = {} /\ x_list = [m \in Scenes |-> << >>] /\ y_list = [m \in Scenes |-> << >>]
    /\ entity_map = {} /\ manager = [s \in Sids |-> NoScene]
    /\ pos = [s \in Sids |-> [x |-> 0, y |-> 0]]
    /\ aoi_map = [s \in Sids |-> {}] /\ scene_id = [s \in Sids |-> NoScene]
    /\ shown = [s \in Sids |-> {}] /\ strangers = FALSE /\ moves = 0

create_aoi_manager(m) ==
    /\ m \notin managers
    /\ managers' = managers \cup {m}
    /\ UNCHANGED <<x_list, y_list, entity_map, manager, pos, aoi_map, scene_id, shown, strangers,
                   moves>>

\* load_data: the entity enters the scene its player was in last.  A scene without a
\* manager is entered on the script's side only.
enter_scene(s, m, x, y) ==
    /\ scene_id[s] = NoScene
    /\ scene_id' = [scene_id EXCEPT ![s] = m]
    /\ pos' = [pos EXCEPT ![s] = [x |-> x, y |-> y]]
    /\ IF m \notin managers
       THEN UNCHANGED <<x_list, y_list, entity_map, manager, aoi_map, shown>>
       ELSE LET xs == insert_entity(x_list[m], s, X(pos'))
                ys == insert_entity(y_list[m], s, Y(pos'))
                new == Reached(xs, s, X(pos')) \cap Reached(ys, s, Y(pos'))
            IN  /\ x_list' = [x_list EXCEPT ![m] = xs] /\ y_list' = [y_list EXCEPT ![m] = ys]
                /\ manager' = [manager EXCEPT ![s] = m]
                /\ aoi_map' = MapsAfter(s, new)
                /\ entity_map' = entity_map \cup {s}
                /\ shown' = Told(s, new, {}, TRUE)
    /\ UNCHANGED <<managers, strangers, moves>>

\* move_process: the entity is somewhere else, and its position is updated.  When it
\* has come to a corner of its path all near it are told where it goes next; those who
\* just came near are told in any case while the path goes on.
move_process(s, x, y, corner) ==
    /\ scene_id[s] # NoScene /\ moves < MaxMoves
    /\ moves' = moves + 1
    /\ pos' = [pos EXCEPT ![s] = [x |-> x, y |-> y]]
    /\ IF manager[s] = NoScene
       THEN UNCHANGED <<x_list, y_list, aoi_map, shown, strangers>>
       ELSE LET m == manager[s]
                xs == update_list(x_list[m], s, X(pos'), x > pos[s].x)
                ys == update_list(y_list[m], s, Y(pos'), y > pos[s].y)
                new == Reached(xs, s, X(pos')) \cap Reached(ys, s, Y(pos'))
                came == Enters(aoi_map[s], new)
            IN  /\ x_list' = [x_list EXCEPT ![m] = xs] /\ y_list' = [y_list EXCEPT ![m] = ys]
                /\ aoi_map' = MapsAfter(s, new)
                /\ shown' = Told(s, came, Leaves(aoi_map[s], new), TRUE)
                /\ strangers' = StepTold(s, IF corner THEN new ELSE came, shown')
    /\ UNCHANGED <<managers, entity_map, manager, scene_id>>

\* start_move: all near are told.
start_move(s) ==
    /\ scene_id[s] # NoScene
    /\ strangers' = StepTold(s, aoi_map[s], shown)
    /\ UNCHANGED <<managers, x_list, y_list, entity_map, manager, pos, aoi_map, scene_id, shown,
                   moves>>

\* save_data at a logout: the others are told, the entity leaves and is given back.  Its
\* own client is not told any more (scene_id is -1 by then), but is gone with it.
leave_scene(s) ==
    /\ scene_id[s] # NoScene
    /\ scene_id' = [scene_id EXCEPT ![s] = NoScene]
    /\ shown' = [Told(s, {}, aoi_map[s], FALSE) EXCEPT ![s] = {}]
    /\ manager' = [manager EXCEPT ![s] = NoScene]
    /\ aoi_map' = MapsAfter(s, {})
    /\ pos' = [pos EXCEPT ![s] = [x |-> 0, y |-> 0]]
    /\ entity_map' = entity_map \ {s}
    /\ IF manager[s] = NoScene THEN UNCHANGED <<x_list, y_list>>
       ELSE /\ x_list' = [x_list EXCEPT ![manager[s]] = Without(@, s)]
            /\ y_list' = [y_list EXCEPT ![manager[s]] = Without(@, s)]
    /\ UNCHANGED <<managers, strangers, moves>>

aoiNext ==
    \/ \E m \in Scenes : create_aoi_manager(m)
    \/ \E s \in Sids :
         \/ \E x \in Xs, y \in Ys :
              \/ \E m \in Scenes : enter_scene(s, m, x, y)
              \/ \E corner \in BOOLEAN : move_process(s, x, y, corner)
         \/ start_move(s) \/ leave_scene(s)

aoiSpec == aoiInit /\ [][aoiNext]_aoiVars

-----------------------------------------------------------------------------
\* What a client shows is what the map of its entity holds: each in it is in the same
\* scene, known by its sid (broadcast_msg_to_all looks it up and does not test), and
\* has the entity in its own map; and no client is told of a step of one it does not show.
NeighboursMutual ==
    /\ ~strangers
    /\ \A s \in Sids :
         /\ shown[s] = aoi_map[s]
         /\ \A t \in aoi_map[s] :
              s \in aoi_map[t] /\ manager[t] = manager[s] /\ t \in entity_map /\ t # s

\* Violated after a step: update_list looks for the new place on the wrong side, the
\* lists are not in order any more, and the walk along them stops early.
SeesEverybodyNear ==
    \A s, t \in Sids :
        LET Near(a, b) == a - b <= Radius /\ b - a <= Radius
        IN  (/\ s # t /\ manager[s] # NoScene /\ manager[s] = manager[t]
             /\ Near(pos[s].x, pos[t].x) /\ Near(pos[s].y, pos[t].y)) => t \in aoi_map[s]
=============================================================================
