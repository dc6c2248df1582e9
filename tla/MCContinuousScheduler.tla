----------------------- MODULE MCContinuousScheduler -----------------------
\* Instances of ContinuousScheduler for TLC: the prompt lengths.
EXTENDS ContinuousScheduler

Prompts13 == 1 :> 1 @@ 2 :> 3
Prompts213 == 1 :> 2 @@ 2 :> 1 @@ 3 :> 3
Prompts214 == 1 :> 2 @@ 2 :> 1 @@ 3 :> 4
=============================================================================
