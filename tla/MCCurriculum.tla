---------------------------- MODULE MCCurriculum ----------------------------
(* A small instance of Curriculum: one chapter with three skills. *)
EXTENDS Curriculum, TLC

CONSTANTS r1, r2, r3, physics, motion, speed, a, b, c, one, two

MCSeed ==
    {[id |-> physics, level |-> "subject", parent |-> None, slug |-> one],
     [id |-> motion, level |-> "topic", parent |-> physics, slug |-> one],
     [id |-> speed, level |-> "concept", parent |-> motion, slug |-> one]}
    \cup {[id |-> s, level |-> "skill", parent |-> speed, slug |-> s] : s \in {a, b, c}}

Create(level, parent, slug) ==
    [op |-> "create", level |-> level, parent |-> parent, slug |-> slug]

\* Prerequisites that can close a cycle of two or three skills, a facet, a
\* new skill and one for it, a new subject and a topic of it; all but the first
\* kinds may come too early, for a parent or skill that is not there yet.
MCCalls ==
    {[op |-> "prerequisite", skill |-> a, pre |-> t] : t \in {a, b}}
    \cup {[op |-> "prerequisite", skill |-> b, pre |-> t] : t \in {a, c}}
    \cup {[op |-> "prerequisite", skill |-> c, pre |-> a],
          [op |-> "facet", skill |-> a, type |-> "recall"],
          [op |-> "facet", skill |-> r1, type |-> "recall"],
          Create("skill", speed, two), Create("skill", r1, two),
          Create("subject", None, two), Create("topic", r1, one)}

=============================================================================
