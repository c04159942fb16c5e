------------------------------ MODULE MCNodeTask ------------------------------
(***************************************************************************)
(* Node tasks of one type for two sites and of a second user, and one of   *)
(* another type; small bounds on changes and failures.                     *)
(***************************************************************************)
EXTENDS NodeTask, TLC

CONSTANTS n1, c1

Key(t, s, u) == [type |-> t, server |-> s, user |-> u]

Config    == Key("configChanged", 0, 0)
Site(s)   == Key("configChanged", s, 0)
UserOf(u) == Key("userServersStateChanged", 0, u)
ListGone  == Key("ipListDeleted@1", 0, 0)

MCNodes         == {n1}
TwoKeys         == {Config, Site(1)}
NoKeys          == {}
MCKeys          == {Config, Site(1), UserOf(1), UserOf(2), ListGone}
MCNodeLevelKeys == {Config}
MCDeletedOnDone == {ListGone}
MCCreators      == {c1}
==============================================================================
