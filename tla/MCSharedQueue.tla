--------------------------- MODULE MCSharedQueue ----------------------------
(***************************************************************************)
(* Instances of SharedQueue for TLC: agent x makes requests and subscribes *)
(* under one name, agent z subscribes.                                     *)
(***************************************************************************)
EXTENDS SharedQueue, TLC

CONSTANTS x, z, server, publisher, s1, s2

MCLinks == {<<x, server>>, <<server, x>>, <<x, publisher>>, <<publisher, x>>,
            <<z, publisher>>, <<publisher, z>>}
MCNames == s1 :> x @@ s2 :> z
=============================================================================
