-------------------------- MODULE CurriculumProofs --------------------------
(***************************************************************************)
(* Proofs about Curriculum, for any tree, any calls and any number of      *)
(* concurrent requests.                                                    *)
(***************************************************************************)
EXTENDS Curriculum, FiniteSetTheorems, TLAPS

-----------------------------------------------------------------------------
(* Reachability *)

LEMMA ReachesSelf ==
    ASSUME NEW a \in Id, NEW E PROVE Reaches(a, a, E)
BY DEF Reaches

LEMMA ReachesNext ==
    ASSUME NEW a, NEW b, NEW E, Reaches(a, b, E), NEW e \in E, e.pre = b
    PROVE  Reaches(a, e.skill, E)
BY DEF Reaches, Closed

LEMMA ReachesMore ==
    ASSUME NEW a, NEW b, NEW E, NEW F, E \subseteq F, Reaches(a, b, E)
    PROVE  Reaches(a, b, F)
BY DEF Reaches, Closed

LEMMA ClosedSetEnds ==
    ASSUME NEW a, NEW b, NEW E, NEW V \in SUBSET Id,
           a \in V, Closed(V, E), b \notin V
    PROVE  ~Reaches(a, b, E)
BY DEF Reaches

-----------------------------------------------------------------------------
(* What a handler's label says of its call and its search *)

CallFits(r) ==
    /\ pc[r] \in {"find_parent", "find_slug", "insert_row"} => call[r] \in Creation
    /\ pc[r] = "find_parent" => call[r].level # "subject"
    /\ pc[r] = "find_skill" => call[r] \in FacetCall \cup EdgeCall
    /\ pc[r] = "insert_facet" => call[r] \in FacetCall
    /\ pc[r] \in {"find_prerequisite", "check_self", "read_edges", "search"} =>
        call[r] \in EdgeCall

\* What was visited has only successors that are visited or waiting, and all
\* of it is reachable.
SearchFits(r) ==
    pc[r] = "search" =>
        /\ graph[r] \subseteq edges
        /\ call[r].skill \in visited[r] \cup frontier[r]
        /\ call[r].pre \notin visited[r]
        /\ \A e \in graph[r] :
            e.pre \in visited[r] => e.skill \in visited[r] \cup frontier[r]
        /\ \A s \in visited[r] \cup frontier[r] :
            Reaches(call[r].skill, s, graph[r])

CycleFound(r) ==
    pc[r] = "answered" /\ answer[r] = "cycle" =>
        Reaches(call[r].skill, call[r].pre, graph[r])

SeenEarlier == \A e \in edges : seen[e] \subseteq edges

Control == \A r \in Request : CallFits(r) /\ SearchFits(r) /\ CycleFound(r)

IInv == TypeOK /\ Control /\ SeenEarlier /\ CyclesNeedRaces

-----------------------------------------------------------------------------

USE DEF Location, Refusal

LEMMA RowOfCall ==
    ASSUME NEW r \in Request, call[r] \in Creation PROVE NewRow(r) \in Row
BY DEF NewRow, Creation, Row, Id

LEMMA EdgeOfCall ==
    ASSUME NEW r \in Request, call[r] \in EdgeCall
    PROVE  NewEdge(r) \in Edge /\ call[r].skill \in Id /\ call[r].pre \in Id
BY DEF NewEdge, EdgeCall, Edge

LEMMA CallFitsOp ==
    ASSUME NEW c \in Call
    PROVE  /\ c.op = "create" => c \in Creation
           /\ c.op # "create" => c \in FacetCall \cup EdgeCall
           /\ c.op = "facet" => c \in FacetCall
           /\ c.op # "facet" /\ c.op # "create" => c \in EdgeCall
BY DEF Call, Creation, FacetCall, EdgeCall

LEMMA SuccessorIds ==
    ASSUME NEW s, NEW E \in SUBSET Edge PROVE Successors(s, E) \in SUBSET Id
BY DEF Successors, Edge

\* A step of one request leaves the others' control state alone.
LEMMA CheckKeeps ==
    ASSUME TypeOK, NEW r \in Request, NEW ok \in BOOLEAN, NEW label \in Location,
           NEW refusal \in Refusal, Check(r, ok, label, refusal)
    PROVE  TypeOK'
BY DEF TypeOK, Check, GoTo, Answer, tables, search

LEMMA TypeStep == ASSUME TypeOK, Control, [Next]_vars PROVE TypeOK'
<1>1. ASSUME NEW r \in Request, Submit(r) PROVE TypeOK'
  BY <1>1, CallsAssumption DEF TypeOK, Submit, GoTo, tables, search
<1>2. ASSUME NEW r \in Request, Step(r) PROVE TypeOK'
  <2>0. CallFits(r)
    BY DEF Control
  <2>1. CASE FindParent(r)
    BY <2>1, CheckKeeps DEF FindParent, IsRow
  <2>2. CASE FindSlug(r)
    BY <2>2, CheckKeeps DEF FindSlug, SlugTaken
  <2>3. CASE InsertRow(r)
    BY <2>0, <2>3, RowOfCall DEF TypeOK, InsertRow, Answer, GoTo, search, CallFits
  <2>4. CASE FindSkill(r)
    BY <2>4, CheckKeeps DEF FindSkill, IsRow
  <2>5. CASE InsertFacet(r)
    <3>1. [skill |-> call[r].skill, type |-> call[r].type] \in SkillFacet
      BY <2>0, <2>5 DEF InsertFacet, CallFits, FacetCall, SkillFacet
    <3> QED
      BY <2>5, <3>1 DEF TypeOK, InsertFacet, Answer, GoTo, search
  <2>6. CASE FindPrerequisite(r)
    BY <2>6, CheckKeeps DEF FindPrerequisite, IsRow
  <2>7. CASE CheckSelf(r)
    BY <2>7, CheckKeeps DEF CheckSelf
  <2>8. CASE ReadEdges(r)
    BY <2>0, <2>8, EdgeOfCall DEF TypeOK, ReadEdges, GoTo, tables, CallFits
  <2>9. CASE SearchStep(r)
    <3>1. \A s : Successors(s, graph[r]) \in SUBSET Id
      BY SuccessorIds DEF TypeOK
    <3> QED
      BY <2>9, <3>1 DEF TypeOK, SearchStep, Extended, Answer, GoTo, search, tables
  <2>10. CASE InsertEdge(r)
    BY <2>0, <2>10, EdgeOfCall DEF TypeOK, InsertEdge, Answer, GoTo, search, CallFits
  <2>11. QED
    BY <1>2, <2>1, <2>2, <2>3, <2>4, <2>5, <2>6, <2>7, <2>8, <2>9, <2>10 DEF Step
<1>3. CASE AllAnswered \/ UNCHANGED vars
  BY <1>3 DEF AllAnswered, TypeOK, vars
<1>4. QED
  BY <1>1, <1>2, <1>3 DEF Next

\* The requests that do not move keep what is known of them: the tables only
\* grow, and the rest is theirs.
LEMMA OthersKeep ==
    ASSUME Control, NEW r \in Request, NEW q \in Request, q # r,
           edges \subseteq edges',
           pc'[q] = pc[q], call'[q] = call[q], graph'[q] = graph[q],
           frontier'[q] = frontier[q], visited'[q] = visited[q],
           answer'[q] = answer[q]
    PROVE  CallFits(q)' /\ SearchFits(q)' /\ CycleFound(q)'
<1>1. CallFits(q) /\ SearchFits(q) /\ CycleFound(q)
  BY DEF Control
<1>2. CallFits(q)'
  BY <1>1 DEF CallFits
<1>3. SearchFits(q)'
  BY <1>1 DEF SearchFits
<1>4. CycleFound(q)'
  BY <1>1 DEF CycleFound
<1>5. QED
  BY <1>2, <1>3, <1>4

LEMMA StepFrame ==
    ASSUME TypeOK, NEW r \in Request, Submit(r) \/ Step(r),
           NEW q \in Request, q # r
    PROVE  /\ edges \subseteq edges'
           /\ pc'[q] = pc[q] /\ call'[q] = call[q] /\ graph'[q] = graph[q]
           /\ frontier'[q] = frontier[q] /\ visited'[q] = visited[q]
           /\ answer'[q] = answer[q]
<1> USE DEF TypeOK, GoTo, Answer, tables, search
<1>1. CASE Submit(r)
  BY <1>1 DEF Submit
<1>2. CASE FindParent(r) \/ FindSlug(r) \/ FindSkill(r) \/ FindPrerequisite(r)
           \/ CheckSelf(r)
  BY <1>2 DEF FindParent, FindSlug, FindSkill, FindPrerequisite, CheckSelf, Check
<1>3. CASE InsertRow(r) \/ InsertFacet(r) \/ InsertEdge(r)
  BY <1>3 DEF InsertRow, InsertFacet, InsertEdge
<1>4. CASE ReadEdges(r)
  BY <1>4 DEF ReadEdges
<1>5. CASE SearchStep(r)
  BY <1>5 DEF SearchStep
<1>6. QED
  BY <1>1, <1>2, <1>3, <1>4, <1>5 DEF Step

\* A step that only moves on, to no search, or is answered otherwise.
LEMMA OwnKeep ==
    ASSUME NEW r \in Request,
           pc'[r] # "search", ~(pc'[r] = "answered" /\ answer'[r] = "cycle")
    PROVE  SearchFits(r)' /\ CycleFound(r)'
BY DEF SearchFits, CycleFound

LEMMA OwnStep ==
    ASSUME TypeOK, Control, NEW r \in Request, Submit(r) \/ Step(r)
    PROVE  CallFits(r)' /\ SearchFits(r)' /\ CycleFound(r)'
<1>0. CallFits(r) /\ SearchFits(r) /\ CycleFound(r)
  BY DEF Control
<1> USE DEF TypeOK
<1>1. CASE Submit(r)
  <2>1. PICK c \in Calls :
          /\ call' = [call EXCEPT ![r] = c]
          /\ pc' = [pc EXCEPT ![r] =
                IF c.op = "create"
                THEN IF c.level = "subject" THEN "find_slug" ELSE "find_parent"
                ELSE "find_skill"]
    BY <1>1 DEF Submit, GoTo
  <2>2. /\ c.op = "create" => c \in Creation
        /\ c.op # "create" => c \in FacetCall \cup EdgeCall
    BY <2>1, CallFitsOp, CallsAssumption
  <2>3. CallFits(r)'
    BY <2>1, <2>2 DEF CallFits
  <2> QED
    BY <2>1, <2>3, OwnKeep
<1>2. CASE FindParent(r) \/ FindSlug(r)
  <2>1. CallFits(r)' /\ pc'[r] # "search"
        /\ ~(pc'[r] = "answered" /\ answer'[r] = "cycle")
    BY <1>0, <1>2 DEF FindParent, FindSlug, Check, GoTo, Answer, CallFits
  <2> QED
    BY <2>1, OwnKeep
<1>3. CASE InsertRow(r) \/ InsertFacet(r) \/ InsertEdge(r)
  <2>1. CallFits(r)' /\ pc'[r] # "search"
        /\ ~(pc'[r] = "answered" /\ answer'[r] = "cycle")
    BY <1>0, <1>3 DEF InsertRow, InsertFacet, InsertEdge, GoTo, Answer, CallFits
  <2> QED
    BY <2>1, OwnKeep
<1>4. CASE FindSkill(r)
  <2>1. call[r] \in Call
    BY <1>0, <1>4 DEF FindSkill, CallFits, Call
  <2>2. CallFits(r)' /\ pc'[r] # "search"
        /\ ~(pc'[r] = "answered" /\ answer'[r] = "cycle")
    BY <1>0, <1>4, <2>1, CallFitsOp DEF FindSkill, Check, GoTo, Answer, CallFits, FacetCall
  <2> QED
    BY <2>2, OwnKeep
<1>5. CASE FindPrerequisite(r) \/ CheckSelf(r)
  <2>1. CallFits(r)' /\ pc'[r] # "search"
        /\ ~(pc'[r] = "answered" /\ answer'[r] = "cycle")
    BY <1>0, <1>5 DEF FindPrerequisite, CheckSelf, Check, GoTo, Answer, CallFits
  <2> QED
    BY <2>1, OwnKeep
<1>6. CASE ReadEdges(r)
  <2>1. /\ call' = call /\ edges' = edges /\ graph'[r] = edges /\ pc'[r] = "search"
        /\ frontier'[r] = {call[r].skill} /\ visited'[r] = {}
        /\ call[r].skill \in Id /\ call[r] \in EdgeCall
    BY <1>0, <1>6, EdgeOfCall DEF ReadEdges, GoTo, tables, CallFits
  <2>2. Reaches(call[r].skill, call[r].skill, edges)
    BY <2>1, ReachesSelf
  <2>3. CallFits(r)' /\ CycleFound(r)'
    BY <2>1 DEF CallFits, CycleFound
  <2>4. SearchFits(r)'
    BY <2>1, <2>2 DEF SearchFits
  <2> QED
    BY <2>3, <2>4
<1>7. CASE SearchStep(r)
  <2>1. PICK current \in frontier[r] :
          \/ /\ current = call[r].pre
             /\ Answer(r, "cycle")
             /\ UNCHANGED search
          \/ /\ current # call[r].pre
             /\ current \in visited[r]
             /\ frontier' = [frontier EXCEPT ![r] = @ \ {current}]
             /\ UNCHANGED <<pc, answer, graph, visited>>
          \/ /\ current # call[r].pre
             /\ current \notin visited[r]
             /\ visited' = [visited EXCEPT ![r] = @ \cup {current}]
             /\ frontier' = [frontier EXCEPT ![r] =
                  (@ \ {current}) \cup Successors(current, graph[r])]
             /\ UNCHANGED <<pc, answer, graph>>
    BY <1>7 DEF SearchStep, Visited, Extended
  <2>2. /\ pc[r] = "search" /\ call' = call /\ edges' = edges
    BY <1>7 DEF SearchStep, tables
  <2>3. CASE current = call[r].pre
    <3>1. /\ pc'[r] = "answered" /\ answer'[r] = "cycle" /\ graph' = graph
      BY <2>1, <2>3 DEF Answer, GoTo, search
    <3>2. Reaches(call[r].skill, call[r].pre, graph[r])
      BY <1>0, <2>2, <2>3 DEF SearchFits
    <3> QED
      BY <2>2, <3>1, <3>2 DEF CallFits, SearchFits, CycleFound
  <2>4. CASE current # call[r].pre /\ current \in visited[r]
    <3>1. /\ pc' = pc /\ answer' = answer /\ graph' = graph /\ visited' = visited
          /\ frontier'[r] = frontier[r] \ {current}
      BY <2>1, <2>4 DEF Answer, GoTo
    <3>2. visited'[r] \cup frontier'[r] = visited[r] \cup frontier[r]
      BY <2>4, <3>1
    <3>3. CallFits(r)' /\ CycleFound(r)'
      BY <1>0, <2>2, <3>1 DEF CallFits, CycleFound
    <3>4. SearchFits(r)'
      BY <1>0, <2>2, <3>1, <3>2 DEF SearchFits
    <3> QED
      BY <3>3, <3>4
  <2>5. CASE current # call[r].pre /\ current \notin visited[r]
    <3> DEFINE next == Successors(current, graph[r])
    <3>1. /\ pc' = pc /\ answer' = answer /\ graph' = graph
          /\ visited'[r] = visited[r] \cup {current}
          /\ frontier'[r] = (frontier[r] \ {current}) \cup next
      BY <2>1, <2>5 DEF Answer, GoTo
    <3>2. visited'[r] \cup frontier'[r] = visited[r] \cup frontier[r] \cup next
      BY <2>1, <3>1
    <3>3. \A e \in graph[r] : e.pre = current => e.skill \in next
      BY DEF Successors
    <3>4. \A s \in next : Reaches(call[r].skill, s, graph[r])
      <4>1. Reaches(call[r].skill, current, graph[r])
        BY <1>0, <2>2 DEF SearchFits
      <4>2. \A e \in graph[r] : e.pre = current =>
              Reaches(call[r].skill, e.skill, graph[r])
        BY <4>1, ReachesNext
      <4> QED
        BY <4>2 DEF Successors
    <3>5. CallFits(r)' /\ CycleFound(r)'
      BY <1>0, <2>2, <3>1 DEF CallFits, CycleFound
    <3>6. \A e \in graph[r] : e.pre \in visited'[r] => e.skill \in visited'[r] \cup frontier'[r]
      BY <1>0, <2>2, <3>1, <3>2, <3>3 DEF SearchFits
    <3>7. \A s \in visited'[r] \cup frontier'[r] : Reaches(call[r].skill, s, graph[r])
      BY <1>0, <2>2, <3>2, <3>4 DEF SearchFits
    <3>8. SearchFits(r)'
      BY <1>0, <2>2, <2>5, <3>1, <3>2, <3>6, <3>7 DEF SearchFits
    <3> QED
      BY <3>5, <3>8
  <2>6. QED
    BY <2>3, <2>4, <2>5
<1>8. QED
  BY <1>1, <1>2, <1>3, <1>4, <1>5, <1>6, <1>7 DEF Step

LEMMA ControlStep == ASSUME TypeOK, Control, [Next]_vars PROVE Control'
<1>1. ASSUME NEW r \in Request, Submit(r) \/ Step(r) PROVE Control'
  <2>1. ASSUME NEW q \in Request PROVE CallFits(q)' /\ SearchFits(q)' /\ CycleFound(q)'
    <3>1. CASE q = r
      BY <1>1, <3>1, OwnStep
    <3>2. CASE q # r
      BY <1>1, <3>2, StepFrame, OthersKeep
    <3> QED
      BY <3>1, <3>2
  <2> QED
    BY <2>1 DEF Control
<1>2. CASE AllAnswered \/ UNCHANGED vars
  BY <1>2 DEF AllAnswered, vars, Control, CallFits, SearchFits, CycleFound
<1>3. QED
  BY <1>1, <1>2 DEF Next

-----------------------------------------------------------------------------
(* The graph *)

\* When an edge is about to be added its search has found it to close no
\* cycle of the edges that it had read.
LEMMA SearchEnds ==
    ASSUME TypeOK, Control, NEW r \in Request,
           pc[r] = "search", frontier[r] = {}
    PROVE  /\ ~Reaches(call[r].skill, call[r].pre, graph[r])
           /\ graph[r] \subseteq edges /\ call[r] \in EdgeCall
<1>1. CallFits(r) /\ SearchFits(r)
  BY DEF Control
<1>2. Closed(visited[r], graph[r]) /\ visited[r] \in SUBSET Id
  BY <1>1 DEF SearchFits, Closed, TypeOK
<1>3. ~Reaches(call[r].skill, call[r].pre, graph[r])
  BY <1>1, <1>2, ClosedSetEnds DEF SearchFits
<1>4. QED
  BY <1>1, <1>3 DEF CallFits, SearchFits

\* Only InsertEdge changes the graph.
LEMMA EdgesChange ==
    ASSUME [Next]_vars
    PROVE  \/ \E r \in Request : InsertEdge(r)
           \/ UNCHANGED <<edges, seen>>
BY DEF Next, Step, vars, AllAnswered, Submit, Check, tables,
   FindParent, FindSlug, InsertRow, FindSkill, InsertFacet, FindPrerequisite,
   CheckSelf, ReadEdges, SearchStep

LEMMA GraphStep ==
    ASSUME TypeOK, Control, SeenEarlier, CyclesNeedRaces, [Next]_vars
    PROVE  (SeenEarlier /\ CyclesNeedRaces)'
<1>1. ASSUME NEW r \in Request, InsertEdge(r), NewEdge(r) \notin edges
      PROVE  (SeenEarlier /\ CyclesNeedRaces)'
  <2> DEFINE n == NewEdge(r)
  <2>1. /\ pc[r] = "search" /\ frontier[r] = {}
        /\ edges' = edges \cup {n}
        /\ seen' = [seen EXCEPT ![n] = graph[r]]
    BY <1>1 DEF InsertEdge
  <2>2. /\ ~Reaches(n.skill, n.pre, graph[r]) /\ graph[r] \subseteq edges
        /\ n \in Edge
    BY <2>1, SearchEnds, EdgeOfCall DEF NewEdge
  <2>3. /\ seen'[n] = graph[r]
        /\ \A e \in edges : seen'[e] = seen[e] /\ seen[e] \subseteq edges
    BY <1>1, <2>1, <2>2 DEF TypeOK, SeenEarlier
  <2>4. SeenEarlier'
    BY <2>1, <2>2, <2>3 DEF SeenEarlier
  <2>5. ASSUME NEW C \in SUBSET edges',
               \A e, f \in C : ~Concurrent(e, f)', Cyclic(C)
        PROVE  FALSE
    <3>1. CASE n \notin C
      <4>1. C \in SUBSET edges
        BY <2>1, <3>1
      <4>2. \A e, f \in C : ~Concurrent(e, f)
        BY <2>3, <2>5, <4>1 DEF Concurrent
      <4> QED
        BY <2>5, <4>1, <4>2 DEF CyclesNeedRaces
    <3>2. CASE n \in C
      <4>1. ASSUME NEW e \in C \ {n} PROVE e \in graph[r]
        <5>1. e \in edges /\ n \notin seen'[e]
          BY <1>1, <2>1, <2>3, <4>1
        <5>2. e # n /\ e \in seen'[n]
          BY <2>5, <3>2, <4>1, <5>1 DEF Concurrent
        <5> QED
          BY <2>3, <5>2
      <4>2. Reaches(n.skill, n.pre, C \ {n})
        BY <2>5, <3>2 DEF Cyclic
      <4> QED
        BY <2>2, <4>1, <4>2, ReachesMore
    <3> QED
      BY <3>1, <3>2
  <2>6. QED
    BY <2>4, <2>5 DEF CyclesNeedRaces
<1>2. CASE UNCHANGED <<edges, seen>>
  BY <1>2 DEF SeenEarlier, CyclesNeedRaces, Concurrent
<1>3. ASSUME NEW r \in Request, InsertEdge(r), NewEdge(r) \in edges
      PROVE  UNCHANGED <<edges, seen>>
  BY <1>3 DEF InsertEdge
<1>4. QED
  BY <1>1, <1>2, <1>3, EdgesChange

LEMMA Inductive ==
    /\ Init => IInv
    /\ IInv /\ [Next]_vars => IInv'
<1>1. Init => TypeOK
  BY SeedAssumption DEF Init, TypeOK
<1>2. Init => Control /\ SeenEarlier
  BY DEF Init, Control, CallFits, SearchFits, CycleFound, SeenEarlier
<1>3. Init => CyclesNeedRaces
  BY DEF Init, CyclesNeedRaces, Cyclic
<1>4. QED
  BY <1>1, <1>2, <1>3, TypeStep, ControlStep, GraphStep DEF IInv

-----------------------------------------------------------------------------
(* The tree, and what the answers say of it *)

\* What a handler has found to be there stays there, and its own row is there
\* exactly when its answer says so.
TreeFits(r) ==
    /\ pc[r] # "answered" => answer[r] # "created"
    /\ pc[r] \in {"find_slug", "insert_row"} /\ call[r].level # "subject" =>
        IsRow(content, call[r].parent, Above[call[r].level])
    /\ (\E w \in content : w.id = r) <=>
        (pc[r] = "answered" /\ call[r].op = "create" /\ answer[r] = "created")
    /\ pc[r] = "answered" /\ call[r].op = "create"
            /\ answer[r] \in {"slug_already_exists", "conflict"} => SlugTaken(r)
    /\ pc[r] \in {"insert_facet", "find_prerequisite", "check_self", "read_edges", "search"} =>
        IsRow(content, call[r].skill, "skill")
    /\ pc[r] \in {"check_self", "read_edges", "search"} =>
        IsRow(content, call[r].pre, "skill")

Tree == WholeTree(content) /\ \A r \in Request : TreeFits(r)

\* The requests answered to have added the edge e.
Makers(e) == {r \in Request :
    answer[r] = "created" /\ call[r].op = "prerequisite" /\ NewEdge(r) = e}

Belonging ==
    /\ \A f \in facets : IsRow(content, f.skill, "skill")
    /\ \A e \in edges : IsRow(content, e.skill, "skill") /\ IsRow(content, e.pre, "skill")
    /\ \A e \in edges : \E r \in Request : Makers(e) = {r}
    /\ \A r \in Request : answer[r] = "created" /\ call[r].op = "prerequisite" =>
        NewEdge(r) \in edges

TreeInv == IInv /\ Tree /\ Belonging

LEMMA RowsStay ==
    ASSUME NEW S, NEW T, S \subseteq T, NEW i, NEW k, IsRow(S, i, k) PROVE IsRow(T, i, k)
BY DEF IsRow

\* Rows are added by creations only, under the id of the request.
LEMMA ContentChanges ==
    ASSUME NEW r \in Request, Submit(r) \/ Step(r)
    PROVE  /\ content \subseteq content'
           /\ \A w \in content' \ content : w.id = r
           /\ ~InsertRow(r) => content' = content
<1>1. CASE InsertRow(r)
  BY <1>1 DEF InsertRow, NewRow
<1>2. CASE ~InsertRow(r)
  BY <1>2 DEF Step, Submit, Check, tables, FindParent, FindSlug, FindSkill, InsertFacet,
     FindPrerequisite, CheckSelf, ReadEdges, SearchStep, InsertEdge
<1>3. QED
  BY <1>1, <1>2

LEMMA OthersTree ==
    ASSUME TypeOK, Tree, NEW r \in Request, Submit(r) \/ Step(r),
           NEW q \in Request, q # r
    PROVE  TreeFits(q)'
<1>1. TreeFits(q)
  BY DEF Tree
<1>2. pc'[q] = pc[q] /\ call'[q] = call[q] /\ answer'[q] = answer[q]
  BY StepFrame
<1>3. content \subseteq content' /\ \A w \in content' \ content : w.id = r
  BY ContentChanges
<1>4. (\E w \in content' : w.id = q) <=> (\E w \in content : w.id = q)
  BY <1>3
<1>5. SlugTaken(q) => SlugTaken(q)'
  BY <1>2, <1>3 DEF SlugTaken, NewRow, Siblings
<1>6. \A i, k : IsRow(content, i, k) => IsRow(content', i, k)
  BY <1>3, RowsStay
<1>7. QED
  BY <1>1, <1>2, <1>4, <1>5, <1>6 DEF TreeFits

LEMMA InsertRowKeepsTree ==
    ASSUME TypeOK, Control, Tree, NEW r \in Request, InsertRow(r)
    PROVE  WholeTree(content)' /\ TreeFits(r)'
<1>0. CallFits(r) /\ TreeFits(r) /\ WholeTree(content)
  BY DEF Control, Tree
<1>1. pc[r] = "insert_row" /\ call' = call /\ call[r] \in Creation /\ call[r].op = "create"
  BY <1>0 DEF InsertRow, CallFits, Creation
<1>2. \A w \in content : w.id # r
  BY <1>0, <1>1 DEF TreeFits
<1>3. CASE SlugTaken(r) /\ Answer(r, "conflict") /\ content' = content
  <2>1. pc'[r] = "answered" /\ answer'[r] = "conflict"
    BY <1>3 DEF Answer, GoTo, TypeOK
  <2>2. SlugTaken(r)'
    BY <1>1, <1>3 DEF SlugTaken, NewRow
  <2>3. TreeFits(r)'
    BY <1>1, <1>2, <1>3, <2>1, <2>2 DEF TreeFits
  <2> QED
    BY <1>0, <1>3, <2>3
<1>4. CASE ~SlugTaken(r) /\ Answer(r, "created") /\ content' = content \cup {NewRow(r)}
  <2> DEFINE n == NewRow(r)
  <2>1. pc'[r] = "answered" /\ answer'[r] = "created"
    BY <1>4 DEF Answer, GoTo, TypeOK
  <2>2. n.id = r /\ n.level = call[r].level /\ n.parent = call[r].parent
    BY DEF NewRow
  <2>3. TreeFits(r)'
    BY <1>1, <1>4, <2>1, <2>2 DEF TreeFits
  <2>4. n.level # "subject" => IsRow(content, n.parent, Above[n.level])
    BY <1>0, <1>1, <2>2 DEF TreeFits
  <2>5. \A w \in content' : w.level # "subject" => IsRow(content', w.parent, Above[w.level])
    BY <1>0, <1>4, <2>4, RowsStay DEF WholeTree
  <2>6. \A w \in content : w.id # n.id /\ ~Siblings(w, n) /\ ~Siblings(n, w)
    BY <1>2, <1>4, <2>2 DEF SlugTaken, Siblings
  <2>7. \A w, x \in content' : w.id = x.id \/ Siblings(w, x) => w = x
    BY <1>0, <1>4, <2>6 DEF WholeTree
  <2> QED
    BY <2>3, <2>5, <2>7 DEF WholeTree
<1>5. QED
  BY <1>3, <1>4 DEF InsertRow

LEMMA OwnTree ==
    ASSUME TypeOK, Control, Tree, NEW r \in Request, Submit(r) \/ Step(r), ~InsertRow(r)
    PROVE  TreeFits(r)'
<1>0. CallFits(r) /\ TreeFits(r)
  BY DEF Control, Tree
<1>1. content' = content
  BY ContentChanges
<1> USE DEF TypeOK, GoTo, Answer
<1>2. CASE Submit(r)
  <2>1. pc[r] = "idle" /\ answer' = answer
        /\ pc'[r] \in {"find_slug", "find_parent", "find_skill"}
        /\ (pc'[r] = "find_slug" => call'[r].level = "subject")
    BY <1>2, CallsAssumption DEF Submit
  <2> QED
    BY <1>0, <1>1, <2>1 DEF TreeFits
<1>3. CASE FindParent(r)
  BY <1>0, <1>1, <1>3 DEF FindParent, Check, CallFits, TreeFits
<1>4. CASE FindSlug(r)
  <2>1. SlugTaken(r) => SlugTaken(r)'
    BY <1>1, <1>4 DEF FindSlug, Check, SlugTaken, NewRow
  <2> QED
    BY <1>0, <1>1, <1>4, <2>1 DEF FindSlug, Check, CallFits, TreeFits
<1>5. CASE FindSkill(r)
  BY <1>0, <1>1, <1>5 DEF FindSkill, Check, CallFits, TreeFits, FacetCall, EdgeCall
<1>6. CASE InsertFacet(r)
  BY <1>0, <1>1, <1>6 DEF InsertFacet, CallFits, TreeFits, FacetCall
<1>7. CASE FindPrerequisite(r) \/ CheckSelf(r)
  BY <1>0, <1>1, <1>7 DEF FindPrerequisite, CheckSelf, Check, CallFits, TreeFits, EdgeCall
<1>8. CASE ReadEdges(r)
  BY <1>0, <1>1, <1>8 DEF ReadEdges, CallFits, TreeFits, EdgeCall
<1>9. CASE SearchStep(r)
  <2>0. pc[r] = "search" /\ call' = call /\ call[r] \in EdgeCall
    BY <1>0, <1>9 DEF SearchStep, CallFits
  <2>1. \/ pc' = pc /\ answer' = answer
        \/ pc'[r] = "answered" /\ answer'[r] = "cycle"
    BY <1>9 DEF SearchStep
  <2> QED
    BY <1>0, <1>1, <2>0, <2>1 DEF TreeFits, EdgeCall
<1>10. CASE InsertEdge(r)
  BY <1>0, <1>1, <1>10 DEF InsertEdge, CallFits, TreeFits, EdgeCall
<1>11. QED
  BY <1>2, <1>3, <1>4, <1>5, <1>6, <1>7, <1>8, <1>9, <1>10 DEF Step

LEMMA TreeStep == ASSUME TypeOK, Control, Tree, [Next]_vars PROVE Tree'
<1>1. ASSUME NEW r \in Request, Submit(r) \/ Step(r) PROVE Tree'
  <2>1. TreeFits(r)'
    BY <1>1, InsertRowKeepsTree, OwnTree
  <2>2. WholeTree(content)'
    <3>1. CASE InsertRow(r)
      BY <3>1, InsertRowKeepsTree
    <3>2. CASE ~InsertRow(r)
      BY <1>1, <3>2, ContentChanges DEF Tree
    <3> QED
      BY <3>1, <3>2
  <2>3. \A q \in Request : TreeFits(q)'
    BY <1>1, <2>1, OthersTree
  <2> QED
    BY <2>2, <2>3 DEF Tree
<1>2. CASE AllAnswered \/ UNCHANGED vars
  BY <1>2 DEF AllAnswered, vars, Tree, TreeFits, SlugTaken, NewRow
<1>3. QED
  BY <1>1, <1>2 DEF Next

\* To add an edge and to answer "created" to its request are one step.
LEMMA MakersStay ==
    ASSUME TypeOK, Control, Tree, NEW r \in Request, Submit(r) \/ Step(r), edges' = edges,
           NEW q \in Request
    PROVE  /\ (answer'[q] = "created" /\ call'[q].op = "prerequisite") <=>
              (answer[q] = "created" /\ call[q].op = "prerequisite")
           /\ answer[q] = "created" => NewEdge(q)' = NewEdge(q)
<1>1. CASE q # r
  BY <1>1, StepFrame DEF NewEdge
<1>2. CASE q = r
  <2>0. CallFits(r) /\ answer[r] # "created"
    <3>1. CallFits(r) /\ TreeFits(r) /\ pc[r] # "answered"
      BY DEF Control, Tree, Submit, Step, FindParent, FindSlug, InsertRow, FindSkill,
         InsertFacet, FindPrerequisite, CheckSelf, ReadEdges, SearchStep, InsertEdge
    <3> QED
      BY <3>1 DEF TreeFits
  <2>1. ~(answer'[r] = "created" /\ call'[r].op = "prerequisite")
    <3> USE DEF TypeOK, GoTo, Answer
    <3>1. CASE InsertRow(r)
      BY <2>0, <3>1 DEF InsertRow, CallFits, Creation
    <3>2. CASE InsertFacet(r)
      BY <2>0, <3>2 DEF InsertFacet, CallFits, FacetCall
    <3>3. CASE InsertEdge(r)
      BY <2>0, <3>3 DEF InsertEdge
    <3>4. CASE ~InsertRow(r) /\ ~InsertFacet(r) /\ ~InsertEdge(r)
      BY <2>0, <3>4 DEF Submit, Step, Check, FindParent, FindSlug, FindSkill,
         FindPrerequisite, CheckSelf, ReadEdges, SearchStep
    <3> QED
      BY <3>1, <3>2, <3>3, <3>4
  <2> QED
    BY <1>2, <2>0, <2>1
<1>3. QED
  BY <1>1, <1>2

LEMMA BelongingStep ==
    ASSUME TypeOK, Control, Tree, Belonging, [Next]_vars
    PROVE  Belonging'
<1>1. ASSUME NEW r \in Request, Submit(r) \/ Step(r) PROVE Belonging'
  <2>0. CallFits(r) /\ TreeFits(r)
    BY DEF Control, Tree
  <2>1. content \subseteq content'
    BY <1>1, ContentChanges
  <2>2. \A i, k : IsRow(content, i, k) => IsRow(content', i, k)
    BY <2>1, RowsStay
  <2>3. CASE InsertEdge(r) /\ NewEdge(r) \notin edges
    <3> DEFINE n == NewEdge(r)
    <3>1. /\ pc[r] = "search" /\ call' = call /\ facets' = facets /\ content' = content
          /\ edges' = edges \cup {n} /\ answer'[r] = "created"
          /\ call[r] \in EdgeCall
      BY <2>0, <2>3 DEF InsertEdge, Answer, TypeOK, CallFits
    <3>2. /\ answer[r] # "created"
          /\ IsRow(content, n.skill, "skill") /\ IsRow(content, n.pre, "skill")
      BY <2>0, <3>1 DEF TreeFits, NewEdge
    <3>3. \A q \in Request : NewEdge(q)' = NewEdge(q) /\ (q # r => answer'[q] = answer[q])
      BY <1>1, <3>1, StepFrame DEF NewEdge
    <3>4. call[r].op = "prerequisite"
      BY <3>1 DEF EdgeCall
    <3>5. \A q \in Request : answer[q] = "created" /\ call[q].op = "prerequisite" => NewEdge(q) # n
      BY <2>3 DEF Belonging
    <3>6. ASSUME NEW e, e = n PROVE Makers(e)' = {r}
      BY <3>1, <3>3, <3>4, <3>5, <3>6 DEF Makers
    <3>7. ASSUME NEW e \in edges PROVE Makers(e)' = Makers(e)
      BY <2>3, <3>1, <3>2, <3>3 DEF Makers
    <3>8. ASSUME NEW e \in edges' PROVE \E q \in Request : Makers(e)' = {q}
      <4>1. CASE e = n
        BY <3>6, <4>1
      <4>2. CASE e \in edges
        BY <3>7, <4>2 DEF Belonging
      <4> QED
        BY <3>1, <4>1, <4>2
    <3>9. \A q \in Request : answer'[q] = "created" /\ call'[q].op = "prerequisite" =>
            NewEdge(q)' \in edges'
      BY <3>1, <3>3 DEF Belonging
    <3>10. /\ \A f \in facets' : IsRow(content', f.skill, "skill")
           /\ \A e \in edges' : IsRow(content', e.skill, "skill") /\ IsRow(content', e.pre, "skill")
      BY <3>1, <3>2 DEF Belonging
    <3> QED
      BY <3>8, <3>9, <3>10 DEF Belonging
  <2>4. CASE edges' = edges
    <3>1. \A q \in Request :
            /\ (answer'[q] = "created" /\ call'[q].op = "prerequisite") <=>
               (answer[q] = "created" /\ call[q].op = "prerequisite")
            /\ answer[q] = "created" => NewEdge(q)' = NewEdge(q)
      BY <1>1, <2>4, MakersStay
    <3>2. ASSUME NEW e PROVE Makers(e)' = Makers(e)
      BY <3>1 DEF Makers
    <3>3. \A f \in facets' : IsRow(content', f.skill, "skill")
      <4>1. CASE InsertFacet(r)
        BY <2>0, <2>2, <4>1 DEF InsertFacet, TreeFits, Belonging
      <4>2. CASE ~InsertFacet(r)
        <5>1. facets' = facets
          BY <1>1, <4>2 DEF Submit, Step, Check, tables, FindParent, FindSlug, InsertRow,
             FindSkill, FindPrerequisite, CheckSelf, ReadEdges, SearchStep, InsertEdge
        <5> QED
          BY <2>2, <5>1 DEF Belonging
      <4> QED
        BY <4>1, <4>2
    <3>4. \A e \in edges' : IsRow(content', e.skill, "skill") /\ IsRow(content', e.pre, "skill")
      BY <2>2, <2>4 DEF Belonging
    <3>5. \A e \in edges' : \E q \in Request : Makers(e)' = {q}
      BY <2>4, <3>2 DEF Belonging
    <3>6. \A q \in Request : answer'[q] = "created" /\ call'[q].op = "prerequisite" =>
            NewEdge(q)' \in edges'
      BY <2>4, <3>1 DEF Belonging
    <3> QED
      BY <3>3, <3>4, <3>5, <3>6 DEF Belonging
  <2>5. edges' = edges \/ (InsertEdge(r) /\ NewEdge(r) \notin edges)
    BY <1>1 DEF Submit, Step, Check, tables, FindParent, FindSlug, InsertRow, FindSkill,
       InsertFacet, FindPrerequisite, CheckSelf, ReadEdges, SearchStep, InsertEdge
  <2> QED
    BY <2>3, <2>4, <2>5
<1>2. CASE AllAnswered \/ UNCHANGED vars
  BY <1>2 DEF AllAnswered, vars, Belonging, Makers, NewEdge
<1>3. QED
  BY <1>1, <1>2 DEF Next

LEMMA TreeInductive ==
    /\ Init => TreeInv
    /\ TreeInv /\ [Next]_vars => TreeInv'
<1>1. Init => Tree
  BY SeedAssumption, IdAssumption, NoneAssumption DEF Init, Tree, TreeFits
<1>2. Init => Belonging
  BY NoneAssumption DEF Init, Belonging
<1>3. QED
  BY <1>1, <1>2, Inductive, TreeStep, BelongingStep DEF TreeInv, IInv

-----------------------------------------------------------------------------

\* Tables and handlers hold what they may hold.
THEOREM TypesCorrect == Spec => []TypeOK
<1>1. IInv => TypeOK
  BY DEF IInv
<1>2. QED
  BY Inductive, <1>1, PTL DEF Spec

\* Edges of which no two were added concurrently form no cycle: of a cycle
\* take the edge added last; the search had read all the others.
THEOREM CyclesAreRaces == Spec => []CyclesNeedRaces
<1>1. IInv => CyclesNeedRaces
  BY DEF IInv
<1>2. QED
  BY Inductive, <1>1, PTL DEF Spec

\* The search is right about the graph it has read: what it has visited is
\* reachable, and closed once nothing waits.
THEOREM SearchCorrect == Spec => []SearchDecides
<1>1. IInv => SearchDecides
  BY SearchEnds DEF IInv, Control, CycleFound, SearchDecides
<1>2. QED
  BY Inductive, <1>1, PTL DEF Spec

\* However creations interleave, the tree stays whole and the answers are true:
\* a row is inserted only where its parent was found and its slug is free, under
\* the id of its request, and rows are never removed.
THEOREM AnswersTrue == Spec => []AnswersMatchRows
<1>1. TreeInv => AnswersMatchRows
  BY DEF TreeInv, Tree, TreeFits, AnswersMatchRows
<1>2. QED
  BY TreeInductive, <1>1, PTL DEF Spec

\* Facets and edges belong to skills, and each edge to the one request that
\* was told to have added it.
THEOREM EdgesHaveOneMaker == Spec => []EdgesBelong
<1>1. ASSUME TreeInv PROVE EdgesBelong
  <2>1. ASSUME NEW e \in edges PROVE Cardinality(Makers(e)) = 1
    BY <1>1, FS_Singleton DEF TreeInv, Belonging
  <2> QED
    BY <1>1, <2>1 DEF TreeInv, Belonging, Makers, EdgesBelong
<1>2. QED
  BY TreeInductive, <1>1, PTL DEF Spec

=============================================================================
