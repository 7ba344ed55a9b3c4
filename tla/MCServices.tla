----------------------------- MODULE MCServices -----------------------------
(***************************************************************************)
(* Small services for TLC.  A plan has four of the five profiles.          *)
(***************************************************************************)
EXTENDS Services, TLC

CONSTANTS researcher, coder, reasoner, critic, other
MCProfiles == {researcher, coder, reasoner, critic, other}
MCNodes    == {researcher, coder, reasoner, critic}

CONSTANTS p1, p2, s1, s2
MCPrompts == {p1, p2}
MCScopes  == {s1, s2}
MCAsked   == {<<p1, s1>>, <<p2, s1>>, <<p1, s2>>}

\* Nothing tells the two workers apart, nor the two pages.
Symmetry == Permutations(Workers) \cup Permutations(Pages)
=============================================================================
