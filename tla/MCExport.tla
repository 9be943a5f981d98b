------------------------------ MODULE MCExport ------------------------------
(* Instances of DatasetExport for TLC: one database with every kind of     *)
(* reference, and what can be missing from it.                             *)
EXTENDS DatasetExport

MCTopicOf ==
  [l1 |-> "lineup", l2 |-> "lineup", h1 |-> "headend", a1 |-> "affiliation",
   s1 |-> "station", s2 |-> "station", s3 |-> "station",
   d1 |-> "day", d2 |-> "day", d3 |-> "day",
   p1 |-> "program", p2 |-> "program", p3 |-> "program",
   q1 |-> "person", q2 |-> "person", q3 |-> "person",
   t1 |-> "team", u1 |-> "university", c1 |-> "conference",
   g1 |-> "genre", m1 |-> "market",
   is |-> "image", ip |-> "image", iq1 |-> "image", iq2 |-> "image",
   it |-> "image", iu |-> "image", ic |-> "image"]

MCObjects == DOMAIN MCTopicOf
MCCollections == {"genre", "market"}

Fixed ==
  {<<"l1", "s1">>, <<"l1", "h1">>, <<"l2", "s3">>, <<"s1", "d1">>, <<"s3", "d3">>,
   <<"d1", "p1">>, <<"d3", "p3">>, <<"p1", "ip">>, <<"q1", "iq1">>, <<"q2", "iq2">>,
   <<"q1", "p3">>, <<"s1", "is">>, <<"t1", "it">>, <<"u1", "iu">>, <<"c1", "ic">>}

Optional ==
  {<<"a1", "s3">>, <<"l1", "s2">>, <<"s2", "d2">>, <<"d2", "p2">>, <<"d1", "p2">>,
   <<"p1", "p3">>, <<"p1", "q1">>, <<"p1", "q2">>, <<"p2", "q3">>}

Whole ==
  [stored |-> MCObjects, empty |-> {}, window |-> {"d1", "d2", "d3"},
   requested |-> {"l1"}, refs |-> Fixed \cup Optional]

\* Any references; rows missing or without an object; days out of range; none
\* or both of the lineups asked for.
MCDatabases ==
       {[Whole EXCEPT !.refs = Fixed \cup e] : e \in SUBSET Optional}
  \cup {[Whole EXCEPT !.stored = @ \ x] :
          x \in SUBSET {"l1", "s1", "d1", "p1", "p2", "q1", "q2", "q3"}}
  \cup {[Whole EXCEPT !.empty = x] :
          x \in SUBSET {"d1", "d2", "q1", "q3", "u1", "c1"}}
  \cup {[Whole EXCEPT !.empty = {x}] : x \in {"l1", "s1", "a1", "t1", "p1"}}
  \cup {[Whole EXCEPT !.window = w, !.requested = r] :
          w \in SUBSET {"d1", "d2", "d3"}, r \in {{}, {"l1"}, {"l1", "l2"}}}
  \cup {[Whole EXCEPT !.stored = @ \ {"l1", "a1"}]}
=============================================================================
