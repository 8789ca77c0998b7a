----------------------------- MODULE Curriculum -----------------------------
(***************************************************************************)
(* The curriculum shared by all tenants: a tree of subjects, topics,       *)
(* concepts and skills, the facets of a skill, and the prerequisite graph  *)
(* over skills (services/curriculum_service.py).  Rows are only added.     *)
(*                                                                         *)
(* A handler is a series of statements of a READ COMMITTED transaction, of *)
(* which the last inserts and commits; the steps of several handlers       *)
(* interleave.  The cycle check reads the edges once and then searches its *)
(* own copy, so what it finds may be out of date when its edge is added.   *)
(***************************************************************************)
EXTENDS Domain, FiniteSets

CONSTANTS
    Request,    \* calls of the routes; a row has the id of the call adding it
    SeedId,     \* ids of the rows there are at the start
    Slug,
    Seed,       \* the rows there are at the start
    Calls,      \* what a request may ask
    None

Id == SeedId \cup Request
Level == {"subject", "topic", "concept", "skill"}
Above == [topic |-> "subject", concept |-> "topic", skill |-> "concept"]

Row == [id : Id, level : Level, parent : Id \cup {None}, slug : Slug]
SkillFacet == [skill : Id, type : Facet]
Edge == [skill : Id, pre : Id]

\* The payloads of create_subject/topic/concept/skill, of add_skill_facet and
\* of add_prerequisite.
Creation == [op : {"create"}, level : Level, parent : Id \cup {None}, slug : Slug]
FacetCall == [op : {"facet"}, skill : Id, type : Facet]
EdgeCall == [op : {"prerequisite"}, skill : Id, pre : Id]
Call == Creation \cup FacetCall \cup EdgeCall

IsRow(rows, id, level) == \E w \in rows : w.id = id /\ w.level = level

\* The unique constraints: slugs of subjects, and of the children of a row.
Siblings(w, x) == w.level = x.level /\ w.parent = x.parent /\ w.slug = x.slug

WholeTree(rows) ==
    /\ \A w \in rows : w.level # "subject" => IsRow(rows, w.parent, Above[w.level])
    /\ \A w, x \in rows : w.id = x.id \/ Siblings(w, x) => w = x

ASSUME SeedAssumption == /\ Seed \subseteq Row /\ WholeTree(Seed)
                         /\ \A w \in Seed : w.id \in SeedId
ASSUME IdAssumption == SeedId \cap Request = {} /\ None \notin Id
\* To have no answer yet is not to be told of a creation.
ASSUME NoneAssumption == None # "created"
ASSUME CallsAssumption == Calls \subseteq Call

VARIABLES
    content,    \* subjects, topics, concepts and skills
    facets,
    edges,      \* prerequisites
    pc, call,
    graph,      \* the edges a request has read
    frontier, visited,  \* of its search
    answer,
    seen        \* history: the edges the adding of an edge had read

vars == <<content, facets, edges, pc, call, graph, frontier, visited, answer, seen>>
search == <<graph, frontier, visited>>
tables == <<content, facets, edges, seen>>

Init ==
    /\ content = Seed /\ facets = {} /\ edges = {}
    /\ pc = [r \in Request |-> "idle"]
    /\ call = [r \in Request |-> None]
    /\ graph = [r \in Request |-> {}]
    /\ frontier = [r \in Request |-> {}]
    /\ visited = [r \in Request |-> {}]
    /\ answer = [r \in Request |-> None]
    /\ seen = [e \in Edge |-> {}]

GoTo(r, label) == pc' = [pc EXCEPT ![r] = label]

Answer(r, a) == GoTo(r, "answered") /\ answer' = [answer EXCEPT ![r] = a]

\* The next statement if ok, else the refusal.
Check(r, ok, label, refusal) ==
    /\ UNCHANGED <<call, tables, search>>
    /\ \/ ok /\ GoTo(r, label) /\ UNCHANGED answer
       \/ ~ok /\ Answer(r, refusal)

Submit(r) ==
    /\ pc[r] = "idle"
    /\ \E c \in Calls :
        /\ call' = [call EXCEPT ![r] = c]
        /\ GoTo(r, IF c.op = "create"
                   THEN IF c.level = "subject" THEN "find_slug" ELSE "find_parent"
                   ELSE "find_skill")
    /\ UNCHANGED <<answer, tables, search>>

-----------------------------------------------------------------------------
(* create_subject, create_topic, create_concept, create_skill *)

NewRow(r) == [id |-> r, level |-> call[r].level, parent |-> call[r].parent,
              slug |-> call[r].slug]

SlugTaken(r) == \E w \in content : Siblings(w, NewRow(r))

FindParent(r) ==
    /\ pc[r] = "find_parent"
    /\ Check(r, IsRow(content, call[r].parent, Above[call[r].level]),
             "find_slug", "parent_not_found")

FindSlug(r) ==
    /\ pc[r] = "find_slug"
    /\ Check(r, ~SlugTaken(r), "insert_row", "slug_already_exists")

\* Mutant: the tables have no unique constraints on slugs.
InsertAnyRow(r) ==
    /\ pc[r] = "insert_row"
    /\ Answer(r, "created")
    /\ content' = content \cup {NewRow(r)}
    /\ UNCHANGED <<facets, edges, call, search, seen>>

\* A row with the slug may have been added since: the constraint refuses this.
InsertRow(r) ==
    /\ pc[r] = "insert_row"
    /\ \/ SlugTaken(r) /\ Answer(r, "conflict") /\ UNCHANGED content
       \/ ~SlugTaken(r) /\ Answer(r, "created")
            /\ content' = content \cup {NewRow(r)}
    /\ UNCHANGED <<facets, edges, call, search, seen>>

-----------------------------------------------------------------------------
(* add_skill_facet, which leaves a facet added twice to the constraint *)

FindSkill(r) ==
    /\ pc[r] = "find_skill"
    /\ Check(r, IsRow(content, call[r].skill, "skill"),
             IF call[r].op = "facet" THEN "insert_facet" ELSE "find_prerequisite",
             "skill_not_found")

InsertFacet(r) ==
    /\ pc[r] = "insert_facet"
    /\ LET f == [skill |-> call[r].skill, type |-> call[r].type] IN
        \/ f \in facets /\ Answer(r, "conflict") /\ UNCHANGED facets
        \/ f \notin facets /\ Answer(r, "created") /\ facets' = facets \cup {f}
    /\ UNCHANGED <<content, edges, call, search, seen>>

-----------------------------------------------------------------------------
(* add_prerequisite *)

FindPrerequisite(r) ==
    /\ pc[r] = "find_prerequisite"
    /\ Check(r, IsRow(content, call[r].pre, "skill"), "check_self", "skill_not_found")

CheckSelf(r) ==
    /\ pc[r] = "check_self"
    /\ Check(r, call[r].skill # call[r].pre, "read_edges", "self_prerequisite")

ReadEdges(r) ==
    /\ pc[r] = "read_edges"
    /\ graph' = [graph EXCEPT ![r] = edges]
    /\ frontier' = [frontier EXCEPT ![r] = {call[r].skill}]
    /\ visited' = [visited EXCEPT ![r] = {}]
    /\ GoTo(r, "search")
    /\ UNCHANGED <<call, answer, tables>>

\* Mutant: the search follows the edges backwards.
SuccessorsBackwards(s, E) == {e.pre : e \in {d \in E : d.skill = s}}

\* Mutant: the adjacency lists hold rows in place of their skills.
SuccessorRows(s, E) == {d \in E : d.pre = s}

Successors(s, E) == {e.skill : e \in {d \in E : d.pre = s}}

\* Mutant: nothing remembers what was visited.
VisitedNever(r, current) == FALSE

Visited(r, current) == current \in visited[r]

\* Mutant: only the direct successors of the skill are looked at.
ExtendedOnce(r, current) ==
    (frontier[r] \ {current})
        \cup IF current = call[r].skill THEN Successors(current, graph[r]) ELSE {}

Extended(r, current) == (frontier[r] \ {current}) \cup Successors(current, graph[r])

\* One round of _would_create_cycle's loop.  The list it pops from is a set
\* here, of which any member may come next.
SearchStep(r) ==
    /\ pc[r] = "search"
    /\ \E current \in frontier[r] :
        \/ /\ current = call[r].pre
           /\ Answer(r, "cycle")
           /\ UNCHANGED search
        \/ /\ current # call[r].pre
           /\ Visited(r, current)
           /\ frontier' = [frontier EXCEPT ![r] = @ \ {current}]
           /\ UNCHANGED <<pc, answer, graph, visited>>
        \/ /\ current # call[r].pre
           /\ ~Visited(r, current)
           /\ visited' = [visited EXCEPT ![r] = @ \cup {current}]
           /\ frontier' = [frontier EXCEPT ![r] = Extended(r, current)]
           /\ UNCHANGED <<pc, answer, graph>>
    /\ UNCHANGED <<call, tables>>

NewEdge(r) == [skill |-> call[r].skill, pre |-> call[r].pre]

\* Mutant: an edge that is there already is taken for a success.
InsertEdgeAgain(r) ==
    /\ pc[r] = "search"
    /\ frontier[r] = {}
    /\ Answer(r, "created")
    /\ edges' = edges \cup {NewEdge(r)}
    /\ seen' = [seen EXCEPT ![NewEdge(r)] = graph[r]]
    /\ UNCHANGED <<content, facets, call, search>>

\* Nothing looks for the edge itself before: the constraint does.
InsertEdge(r) ==
    /\ pc[r] = "search"
    /\ frontier[r] = {}
    /\ \/ NewEdge(r) \in edges /\ Answer(r, "conflict") /\ UNCHANGED <<edges, seen>>
       \/ /\ NewEdge(r) \notin edges
          /\ Answer(r, "created")
          /\ edges' = edges \cup {NewEdge(r)}
          /\ seen' = [seen EXCEPT ![NewEdge(r)] = graph[r]]
    /\ UNCHANGED <<content, facets, call, search>>

-----------------------------------------------------------------------------

Step(r) ==
    \/ FindParent(r) \/ FindSlug(r) \/ InsertRow(r)
    \/ FindSkill(r) \/ InsertFacet(r)
    \/ FindPrerequisite(r) \/ CheckSelf(r) \/ ReadEdges(r) \/ SearchStep(r)
    \/ InsertEdge(r)

AllAnswered ==
    /\ \A r \in Request : pc[r] = "answered"
    /\ UNCHANGED vars

Next == (\E r \in Request : Submit(r) \/ Step(r)) \/ AllAnswered

Spec == Init /\ [][Next]_vars

\* A request is served by a thread of its own, whose next statement is always
\* possible: inserts that collide wait for one commit only.
FairSpec == Spec /\ \A r \in Request : WF_vars(Step(r))

-----------------------------------------------------------------------------
(* Reachability, as the closed sets see it *)

Closed(V, E) == \A e \in E : e.pre \in V => e.skill \in V

\* There is a path from a to b: a set that holds a and is closed under the
\* edges holds b.
Reaches(a, b, E) == \A V \in SUBSET Id : a \in V /\ Closed(V, E) => b \in V

\* Every edge of C lies on a cycle of C.
Cyclic(C) == C # {} /\ \A e \in C : Reaches(e.skill, e.pre, C \ {e})

\* Neither was in the graph that the other's check had read.
Concurrent(e, f) == e # f /\ e \notin seen[f] /\ f \notin seen[e]

-----------------------------------------------------------------------------
(* Properties *)

Location == {"idle", "find_parent", "find_slug", "insert_row", "find_skill",
           "insert_facet", "find_prerequisite", "check_self", "read_edges",
           "search", "answered"}
Refusal == {"parent_not_found", "slug_already_exists", "conflict",
            "skill_not_found", "self_prerequisite", "cycle"}

\* Every variable has the values its table or handler can hold.
TypeOK ==
    /\ content \in SUBSET Row
    /\ facets \in SUBSET SkillFacet
    /\ edges \in SUBSET Edge
    /\ pc \in [Request -> Location]
    /\ call \in [Request -> Call \cup {None}]
    /\ graph \in [Request -> SUBSET Edge]
    /\ frontier \in [Request -> SUBSET Id]
    /\ visited \in [Request -> SUBSET Id]
    /\ answer \in [Request -> Refusal \cup {None, "created"}]
    /\ seen \in [Edge -> SUBSET Edge]

\* The prerequisite graph can have a cycle (nothing locks it), but only where
\* two requests ran at once: edges no two of which are concurrent form none.
\* So requests that come one after the other, in whatever order and number,
\* leave no cycle, and no skill is its own prerequisite (add_prerequisite).
CyclesNeedRaces ==
    \A C \in SUBSET edges :
        (\A e, f \in C : ~Concurrent(e, f)) => ~Cyclic(C)

\* The depth-first search decides reachability in the graph it has read, also
\* when that graph already has a cycle: it refuses an edge only if the skill
\* reaches the prerequisite there, and lets it pass only if it does not
\* (_would_create_cycle).
SearchDecides ==
    \A r \in Request :
        /\ pc[r] = "answered" /\ answer[r] = "cycle" =>
            Reaches(call[r].skill, call[r].pre, graph[r])
        /\ pc[r] = "search" /\ frontier[r] = {} =>
            ~Reaches(call[r].skill, call[r].pre, graph[r])

\* However creations of the same thing interleave, the tree stays whole - no
\* orphan, no two children of one name - and the answers tell the truth: a
\* creation answered "created" has its one row, any other has none, and one
\* that lost to another finds that other's row (the four create_ functions).
AnswersMatchRows ==
    /\ WholeTree(content)
    /\ \A r \in Request : pc[r] = "answered" /\ call[r].op = "create" =>
        /\ answer[r] = "created" <=> \E w \in content : w.id = r
        /\ answer[r] \in {"slug_already_exists", "conflict"} => SlugTaken(r)

\* Every facet and every edge belongs to skills of the tree, and of the
\* requests for one edge exactly one is answered "created" (add_skill_facet,
\* add_prerequisite and the constraint uq_prerequisites_edge).
EdgesBelong ==
    /\ \A f \in facets : IsRow(content, f.skill, "skill")
    /\ \A e \in edges :
        /\ IsRow(content, e.skill, "skill") /\ IsRow(content, e.pre, "skill")
        /\ Cardinality({r \in Request :
                answer[r] = "created" /\ call[r].op = "prerequisite" /\ NewEdge(r) = e}) = 1

\* Every call is answered: in particular the search ends, also on a graph with
\* a cycle (_would_create_cycle).
EveryCallAnswered ==
    \A r \in Request : pc[r] # "idle" ~> pc[r] = "answered"

=============================================================================
