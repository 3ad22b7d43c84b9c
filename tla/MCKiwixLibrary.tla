---------------------------- MODULE MCKiwixLibrary ----------------------------
(* One series with two releases and an archive without a date; git moves to  *)
(* the new release and may roll back.                                        *)
EXTENDS KiwixLibrary, TLC

CONSTANTS old, new, undated

ThreeArchives == {old, new, undated}
TwoReleases == {old, new}
OldBeforeNew(a, b) == a = old /\ b = new
TwoLists == {<<old, undated>>, <<new, undated>>}
=============================================================================
