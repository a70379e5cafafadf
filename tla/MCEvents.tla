-------------------------------- MODULE MCEvents --------------------------------
(* Instances of the consumption of events for TLC. *)
EXTENDS EventProperties, TLC

CONSTANTS s1, s2, s3, m1, m2, w1, w2

\* Two messages on one stream, or one of them on both.
MCPublications == {{<<s1, m1>>, <<s1, m2>>}, {<<s1, m1>>, <<s2, m1>>}}
MCOneMessage == {Streams \X {m2}}

\* Calls are interchangeable.
Symmetric == Permutations(Workers)
================================================================================
