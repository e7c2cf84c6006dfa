------------------------------ MODULE Queries -------------------------------
(***************************************************************************)
(* What the query hooks of SurrealGraphStore return (graph_store.py): the  *)
(* filtered object queries, and neighborhood, a breadth-first walk of one  *)
(* query per level that other stores may write between.                    *)
(*                                                                         *)
(* The vertex and relation tables of one run are written here by whole     *)
(* database statements; the status checks that come before a call are the  *)
(* subject of module GraphStore.  The variable memory is the reference:    *)
(* the framework's InMemoryGraphStore, which keeps its objects in the      *)
(* order in which they were inserted.                                      *)
(***************************************************************************)
EXTENDS Integers, Sequences, SequencesExt

CONSTANTS Ids,          \* the object identifiers, in the order of creation
          Relations,    \* relation identifiers
          Links,        \* the endpoints a relation may have
          Depths,       \* the depths a caller may ask for
          Disturbances, \* bound: writes while a walk is under way
          None          \* Python's None, SurrealDB's NONE

\* An identifier has a type, the counter that ends it (None when a caller made
\* it up), and a place in the lexicographic order of identifiers.
Id == [type : STRING, counter : Nat \cup {None}, rank : Nat]

Objects == {Ids[i] : i \in DOMAIN Ids}

\* _object_seq
ObjectSeq(o) == IF o.counter = None THEN 0 ELSE o.counter

ASSUME QueriesAssumption ==
    /\ Ids \in Seq(Id)
    /\ \A i, j \in DOMAIN Ids :
          i < j => /\ ObjectSeq(Ids[i]) < ObjectSeq(Ids[j])
                   /\ Ids[i].rank # Ids[j].rank
    /\ None \notin Links /\ None \notin BOOLEAN
    /\ Links \subseteq [source : Objects, target : Objects]
    /\ Depths \subseteq Int
    /\ Disturbances \in Nat

Edge == [id : Relations, ends : Links]

\* A plan of the framework.  A where predicate stands for the objects that
\* satisfy it; None is no predicate.
Plan == [type : {o.type : o \in Objects} \cup {None},
         where : (SUBSET Objects) \cup {None},
         limit : (0 .. Len(Ids)) \cup {None},
         mode : {"objects", "exists"}]

VARIABLES
    vertex,     \* ag_vertex: no record, a placeholder, or an object
    relation,   \* ag_relation: None or the endpoints
    memory,     \* reference: the objects in the order they were inserted
    created,    \* how many objects the framework has created
    pc,         \* where the call of neighborhood is
    walk,       \* its arguments, local variables and results
    history     \* what the tables held while it ran

tables == <<vertex, relation, memory, created>>
vars == <<vertex, relation, memory, created, pc, walk, history>>

\* Every variable ranges over the values the code gives it.
TypeOK ==
    /\ vertex \in [Objects -> {"none", "placeholder", "object"}]
    /\ relation \in [Relations -> Links \cup {None}]
    /\ memory \in Seq(Objects)
    /\ created \in 0 .. Len(Ids)
    /\ pc \in {"idle", "level", "objects", "relations", "done"}
    /\ walk \in [start : Objects \cup {None}, depth : Nat, left : Nat,
                 seen_objs : SUBSET Objects, frontier : SUBSET Objects,
                 seen_rels : SUBSET Relations, objects : Seq(Objects),
                 relations : SUBSET Edge]
    /\ walk.left <= walk.depth /\ walk.frontier \subseteq walk.seen_objs
    /\ history \in [writes : 0 .. Disturbances, ever : SUBSET Edge,
                    always : SUBSET Edge, stayed : SUBSET Objects]
    /\ history.always \subseteq history.ever

NoWalk == [start |-> None, depth |-> 0, left |-> 0, seen_objs |-> {},
           frontier |-> {}, seen_rels |-> {}, objects |-> <<>>,
           relations |-> {}]

Present(v) == {o \in Objects : v[o] = "object"}
Edges(r) == {e \in Edge : r[e.id] = e.ends}
EndsOf(e) == {e.ends.source, e.ends.target}

-----------------------------------------------------------------------------
(* Queries on the vertex table                                             *)

\* ORDER BY object_seq ASC, object_id ASC
Before(o, p) == \/ ObjectSeq(o) < ObjectSeq(p)
                \/ ObjectSeq(o) = ObjectSeq(p) /\ o.rank < p.rank

\* The objects of S in that order.
Sorted(S) ==
    CHOOSE s \in SeqOf(S, Len(Ids)) :
        /\ ToSet(s) = S
        /\ \A i, j \in DOMAIN s : i < j => Before(s[i], s[j])

Upto(limit, s) == IF limit = None THEN s
                  ELSE SubSeq(s, 1, IF limit < Len(s) THEN limit ELSE Len(s))

OfType(type) == {o \in Present(vertex) : type = None \/ o.type = type}

SelectObjects(type, limit) == Upto(limit, Sorted(OfType(type)))

ObjectExists(type) == OfType(type) # {}

\* Variant: the limit is always sent to the database.
QueryObjects_LimitFirst(plan) ==
    IF plan.mode = "exists" /\ plan.where = None
    THEN [objects |-> <<>>, residual |-> None, exists |-> ObjectExists(plan.type)]
    ELSE [objects |-> SelectObjects(plan.type, plan.limit),
          residual |-> plan.where, exists |-> None]

\* query_objects leaves the predicate, when there is one, to the framework.
QueryObjects(plan) ==
    IF plan.mode = "exists" /\ plan.where = None
    THEN [objects |-> <<>>, residual |-> None, exists |-> ObjectExists(plan.type)]
    ELSE [objects |-> SelectObjects(plan.type,
                                    IF plan.where = None THEN plan.limit ELSE None),
          residual |-> plan.where, exists |-> None]

\* SelectSeq for the members of T, as a recursive function.
Filter(s, T) ==
    LET F[n \in 0 .. Len(s)] ==
            IF n = 0 THEN <<>>
            ELSE IF s[n] \in T THEN Append(F[n - 1], s[n]) ELSE F[n - 1]
    IN  F[Len(s)]

\* What the framework makes of the result: it evaluates the residual on every
\* object, cuts to the limit, and answers an exists plan by whether an object
\* is left, for which the limit plays no part, as in _object_exists.
Finish(plan, result) ==
    LET fit == {o \in Objects : result.residual = None \/ o \in result.residual}
        found == Filter(result.objects, fit)
    IN  IF plan.mode = "objects" THEN Upto(plan.limit, found)
        ELSE IF result.exists # None THEN result.exists
        ELSE found # <<>>

-----------------------------------------------------------------------------
(* Writes of other stores                                                  *)

\* ever and always: the edges there were at some time, and all the time, of
\* the walk; stayed: the objects there were all the time.
HistoryFrom(v, r) ==
    [writes |-> 0, ever |-> Edges(r), always |-> Edges(r), stayed |-> Present(v)]

\* A write while a walk is under way.
Disturb ==
    IF pc \in {"level", "objects", "relations"}
    THEN /\ history.writes < Disturbances
         /\ history' = [writes |-> history.writes + 1,
                        ever |-> history.ever \cup Edges(relation'),
                        always |-> history.always \cap Edges(relation'),
                        stayed |-> history.stayed \cap Present(vertex')]
         /\ UNCHANGED <<pc, walk>>
    ELSE pc = "idle" /\ UNCHANGED <<pc, walk, history>>

\* put_object of the next object the framework creates, which a relation may
\* have named before.
CreateObject ==
    /\ created < Len(Ids)
    /\ created' = created + 1
    /\ vertex' = [vertex EXCEPT ![Ids[created + 1]] = "object"]
    /\ memory' = Append(memory, Ids[created + 1])
    /\ UNCHANGED relation
    /\ Disturb

RemoveObject(o) ==
    /\ o \in Present(vertex)
    /\ vertex' = [vertex EXCEPT ![o] = "placeholder"]
    /\ memory' = RemoveAt(memory, CHOOSE i \in DOMAIN memory : memory[i] = o)
    /\ UNCHANGED <<relation, created>>
    /\ Disturb

\* put_relation replaces the edge and creates the vertices it lacks.
PutRelation(k, ends) ==
    /\ relation[k] # ends
    /\ relation' = [relation EXCEPT ![k] = ends]
    /\ vertex' = [o \in Objects |->
          IF o \in {ends.source, ends.target} /\ vertex[o] = "none"
          THEN "placeholder"
          ELSE vertex[o]]
    /\ UNCHANGED <<memory, created>>
    /\ Disturb

RemoveRelation(k) ==
    /\ relation[k] # None
    /\ relation' = [relation EXCEPT ![k] = None]
    /\ UNCHANGED <<vertex, memory, created>>
    /\ Disturb

\* The last statement of clear(), which takes the edges with the vertices; a
\* replay then creates the objects of the log again, in its order.
ClearVertices ==
    /\ vertex' = [o \in Objects |-> "none"]
    /\ relation' = [k \in Relations |-> None]
    /\ memory' = <<>>
    /\ created' = 0
    /\ Disturb

-----------------------------------------------------------------------------
(* neighborhood                                                            *)

\* The walk w takes its next step with n levels left from the frontier next.
Walk(w, n, next) ==
    /\ walk' = [w EXCEPT !.left = n, !.frontier = next]
    /\ pc' = IF n = 0 \/ next = {} THEN "objects" ELSE "level"

\* The call: get_object on the start, and an empty answer without it.
Neighborhood(o, d) ==
    /\ pc = "idle"
    /\ LET depth == IF d < 0 THEN 0 ELSE d
           w == [NoWalk EXCEPT !.start = o, !.depth = depth]
       IN  IF o \in Present(vertex)
           THEN Walk([w EXCEPT !.seen_objs = {o}], depth, {o})
           ELSE walk' = w /\ pc' = "done"
    /\ history' = HistoryFrom(vertex, relation)
    /\ UNCHANGED tables

\* Variant: relations are followed from source to target only.
Incident_Outgoing(F) == {e \in Edges(relation) : e.ends.source \in F}

\* source IN $frontier OR target IN $frontier
Incident(F) == {e \in Edges(relation) : EndsOf(e) \cap F # {}}

\* Variant: what a level reaches is not remembered as seen.
Level_Forgets ==
    /\ pc = "level"
    /\ LET rows == Incident(walk.frontier)
           next == (UNION {EndsOf(e) : e \in rows}) \ walk.seen_objs
       IN  Walk([walk EXCEPT !.seen_rels = @ \cup {e.id : e \in rows}],
                walk.left - 1, next)
    /\ UNCHANGED <<tables, history>>

\* One level: the relations that meet the frontier, and their other ends.
Level ==
    /\ pc = "level"
    /\ LET rows == Incident(walk.frontier)
           next == (UNION {EndsOf(e) : e \in rows}) \ walk.seen_objs
       IN  Walk([walk EXCEPT !.seen_rels = @ \cup {e.id : e \in rows},
                             !.seen_objs = @ \cup next],
                walk.left - 1, next)
    /\ UNCHANGED <<tables, history>>

\* _objects_by_logical_ids: placeholders are no objects.
ObjectsByLogicalIds ==
    /\ pc = "objects"
    /\ walk' = [walk EXCEPT !.objects =
                   Sorted(walk.seen_objs \cap Present(vertex))]
    /\ pc' = IF walk.seen_rels = {} THEN "done" ELSE "relations"
    /\ UNCHANGED <<tables, history>>

\* _relations_by_logical_ids: the rows as they are now, in no order.
RelationsByLogicalIds ==
    /\ pc = "relations"
    /\ walk' = [walk EXCEPT !.relations =
                   {e \in Edges(relation) : e.id \in walk.seen_rels}]
    /\ pc' = "done"
    /\ UNCHANGED <<tables, history>>

\* The caller has its answer; or a query failed and the call raises.
Return ==
    /\ pc # "idle"
    /\ pc' = "idle"
    /\ walk' = NoWalk
    /\ history' = HistoryFrom([o \in Objects |-> "none"],
                              [k \in Relations |-> None])
    /\ UNCHANGED tables

-----------------------------------------------------------------------------

Init ==
    /\ vertex = [o \in Objects |-> "none"]
    /\ relation = [k \in Relations |-> None]
    /\ memory = <<>>
    /\ created = 0
    /\ pc = "idle"
    /\ walk = NoWalk
    /\ history = HistoryFrom(vertex, relation)

Write ==
    \/ CreateObject
    \/ \E o \in Objects : RemoveObject(o)
    \/ \E k \in Relations :
          RemoveRelation(k) \/ \E ends \in Links : PutRelation(k, ends)
    \/ ClearVertices

Next ==
    \/ Write
    \/ \E o \in Objects, d \in Depths : Neighborhood(o, d)
    \/ Level \/ ObjectsByLogicalIds \/ RelationsByLogicalIds
    \/ Return

Spec == Init /\ [][Next]_vars

-----------------------------------------------------------------------------
(* Properties                                                              *)

\* Reference: the objects a path of at most n of the edges in E leads to.
Joined(E, o, p) == \E e \in E : {o, p} = EndsOf(e)
Ball(E, o, n) ==
    {p \in Objects :
        \E m \in 0 .. n : \E path \in [0 .. m -> Objects] :
            /\ path[0] = o /\ path[m] = p
            /\ \A i \in 1 .. m : Joined(E, path[i - 1], path[i])}

\* Whatever is written between the queries of a walk, it returns no object
\* and no relation that the edges that existed during the walk do not lead to
\* within the depth asked for, and misses none that was there throughout and
\* that edges there throughout lead to, in either direction, through
\* placeholders and around cycles.  A walk nobody disturbs is therefore exact
\* (neighborhood).
NeighborhoodIsBracketed ==
    pc = "done" =>
        LET found == ToSet(walk.objects)
            edges == walk.relations
            near(E, n) == Ball(E, walk.start, n)
            touching(E) == {e \in E : EndsOf(e) \cap near(E, walk.depth - 1) # {}}
        IN  IF walk.seen_objs = {}
            THEN walk.start \notin history.stayed /\ found = {} /\ edges = {}
            ELSE /\ found \subseteq near(history.ever, walk.depth)
                 /\ near(history.always, walk.depth) \cap history.stayed
                        \subseteq found
                 /\ edges \subseteq history.ever
                 /\ {e.id : e \in edges}
                        \subseteq {e.id : e \in touching(history.ever)}
                 /\ touching(history.always) \subseteq edges

\* An object query answered by the database and finished by the framework is
\* the one the in-memory store answers by scanning: the same objects in the
\* order of their creation, for every combination of type, predicate, limit
\* (zero included) and mode, after objects were removed, named before they were created, or
\* projected anew (query_objects, _select_objects, _object_seq).
QueriesMatchMemory ==
    pc = "idle" => \A plan \in Plan :
        LET wanted == {o \in Objects :
                         /\ plan.type = None \/ o.type = plan.type
                         /\ plan.where = None \/ o \in plan.where}
            scan == Filter(memory, wanted)
            first == IF plan.limit = None \/ plan.limit > Len(scan)
                     THEN scan ELSE SubSeq(scan, 1, plan.limit)
        IN  Finish(plan, QueryObjects(plan)) =
                IF plan.mode = "objects" THEN first ELSE scan # <<>>

-----------------------------------------------------------------------------
(* Inductive invariants                                                    *)

\* The in-memory store holds the objects of the database, in its order.
MemoryOK ==
    /\ ToSet(memory) = Present(vertex)
    /\ Present(vertex) \subseteq {Ids[i] : i \in 1 .. created}
    /\ \A i, j \in DOMAIN memory : i < j => Before(memory[i], memory[j])

\* The history tells what the tables hold while a walk is under way.
HistoryOK ==
    pc \in {"level", "objects", "relations"} =>
        /\ history.always \subseteq Edges(relation)
        /\ Edges(relation) \subseteq history.ever
        /\ history.stayed \subseteq Present(vertex)

\* What the walk w has seen is led to by the edges E, level by level.
WalkSound(w, E) ==
    LET near(n) == Ball(E, w.start, n)
        level == w.depth - w.left
    IN  /\ w.seen_objs \subseteq near(level)
        /\ \A k \in w.seen_rels : \E e \in E :
              e.id = k /\ EndsOf(e) \cap near(level - 1) # {}

\* What the edges E lead to has been seen by the walk w, level by level; behind
\* the frontier nothing is left to follow.
WalkComplete(w, E) ==
    LET near(n) == Ball(E, w.start, n)
        level == w.depth - w.left
        done == w.seen_objs \ w.frontier
    IN  /\ near(level) \subseteq w.seen_objs
        /\ near(level - 1) \subseteq done
        /\ \A e \in E :
              EndsOf(e) \cap done # {} =>
                  EndsOf(e) \subseteq w.seen_objs /\ e.id \in w.seen_rels

\* The objects and relations that are read by their identifiers.
ResultsOK ==
    /\ pc \in {"relations", "done"} =>
          /\ ToSet(walk.objects) \subseteq walk.seen_objs
          /\ walk.seen_objs \cap history.stayed \subseteq ToSet(walk.objects)
    /\ pc \in {"level", "objects", "relations"} => walk.relations = {}
    /\ walk.relations \subseteq history.ever
    /\ \A e \in walk.relations : e.id \in walk.seen_rels
    /\ pc = "done" =>
          \A e \in history.always :
              e.id \in walk.seen_rels => e \in walk.relations

\* A walk under way is sound and complete so far, whatever is written between
\* its queries (neighborhood).
WalkInv ==
    /\ TypeOK
    /\ MemoryOK
    /\ HistoryOK
    /\ pc # "idle" =>
          /\ walk.start \in Objects
          /\ IF walk.seen_objs = {}
             THEN /\ pc = "done" /\ walk.start \notin history.stayed
                  /\ walk.objects = <<>> /\ walk.relations = {}
             ELSE /\ WalkSound(walk, history.ever)
                  /\ WalkComplete(walk, history.always)
                  /\ pc = "level" <=> walk.left # 0 /\ walk.frontier # {}
                  /\ ResultsOK
=============================================================================
