------------------------------- MODULE MCMetaPage -------------------------------
(***************************************************************************)
(* Small instances of MetaPage.  Rows come with one label each.  A version *)
(* with roots takes a second page, and a third one for the root of a label *)
(* in LongLabel: versions of 2 and 3 pages are replaced by one of 3 pages  *)
(* while other backends read them.                                         *)
(***************************************************************************)
EXTENDS MetaPage

CONSTANT LongLabel

MCRowLabels == {{l} : l \in Label}

MCChunks ==
  [v \in Roots |-> IF v = NoRoots THEN 1
                   ELSE IF \E l \in LongLabel : v[l] # NoNode THEN 3 ELSE 2]
================================================================================
