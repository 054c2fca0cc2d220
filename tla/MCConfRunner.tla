---------------------------- MODULE MCConfRunner ----------------------------
(* Small instances of ConfRunner.                                           *)
EXTENDS ConfRunner

(* Release 1 has two images, release 2 one of them, release 3 is raw.       *)
ThreeReleases == <<<<"i1", "i2">>, <<"i2">>, <<>>>>

(* An image of the site's own is built from i1, another is unrelated.       *)
BuiltFrom == [i \in Images |-> IF i = "i1" THEN {"i1", "own"} ELSE {i}]

(* An exclude expression leaves out what was restarted twice.               *)
WebNames == {"web"} \X {0, 1}
=============================================================================
