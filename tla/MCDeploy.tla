------------------------------ MODULE MCDeploy ------------------------------
(* Deploy on small instances: one image per kind of answer that matters.   *)
EXTENDS Deploy

\* A factory image without describe.  Another major is left to AllDigests: the gate
\* refuses it as it does a garbled contract, which identify refuses as well.
MCDigests == {"factory", "good", "garbled", "mute", "bringup"}
MCSpeech == [d \in MCDigests |->
  CASE d = "factory" -> "silent" [] d = "good" -> "match" [] OTHER -> d]

\* The images a deploy gets through with, and one it does not.
FewDigests == {"factory", "good", "mute"}
FewSpeech == [d \in FewDigests |-> IF d = "mute" THEN "mute" ELSE "match"]

\* Every kind of answer, with a factory image that has no describe command.
AllDigests == {"factory", "good", "other", "garbled", "bringup", "mute"}
AllSpeech == [d \in AllDigests |->
  CASE d = "factory" -> "silent" [] d = "good" -> "match" [] OTHER -> d]
=============================================================================
