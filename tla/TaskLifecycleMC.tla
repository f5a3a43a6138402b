--------------------------- MODULE TaskLifecycleMC ---------------------------
(***************************************************************************)
(* Instances of TaskLifecycle for TLC; each .cfg picks one.                *)
(***************************************************************************)
EXTENDS TaskLifecycle

CONSTANTS b1, b2, b3, b4, s1, s2, s3, s4

\* Two blockers lie on b1; b4 is free and its stack may receive a blocker.
DeepStacks == (s1 :> <<b1, b2, b3>>) @@ (s2 :> <<b4>>) @@ (s3 :> <<>>)
                @@ (s4 :> <<>>)

\* Two requests for the buried b1: the second may join the first's service.
DeepTarget == <<b1, b4, b1>>

\* One blocker on b1 and two stacks to put it.
ShallowStacks == (s1 :> <<b1, b2>>) @@ (s2 :> <<b3>>) @@ (s3 :> <<>>)
ShallowTarget == <<b1, b3, b1>>

\* The second request wants the bin that blocks the first.
BlockerTarget == <<b1, b2>>

\* Two tasks dig at the same time and may put their blockers on one stack.
TwinStacks == (s1 :> <<b1, b2>>) @@ (s2 :> <<b3, b4>>) @@ (s3 :> <<>>)
                @@ (s4 :> <<>>)
TwinTarget == <<b1, b3>>

\* The second target lies on the first, under a blocker; the third bin wanted
\* is b4, whose stack may take them.
PileStacks == (s1 :> <<b1, b2, b3>>) @@ (s2 :> <<>>) @@ (s3 :> <<b4>>)
                @@ (s4 :> <<>>)
PileTarget == <<b1, b2, b4>>
=============================================================================
