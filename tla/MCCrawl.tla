------------------------------- MODULE MCCrawl ------------------------------
(* Instances of Crawl for TLC: a site of five pages.                       *)
EXTENDS Crawl, TLC

CONSTANTS home, about, aboutSlash, docs, guide, more, u1

(* about has two spellings.                                                *)
Spelling == [h \in Hrefs |-> IF h = aboutSlash THEN about ELSE h]

(* about is one link from home, and two by way of docs, which home links    *)
(* twice; guide and more are behind about.                                 *)
Site ==
  (home :> <<about, docs, docs>>) @@ (docs :> <<aboutSlash, home>>) @@ (about :> <<guide>>) @@
  (guide :> <<more>>) @@ (more :> <<home>>)
=============================================================================
