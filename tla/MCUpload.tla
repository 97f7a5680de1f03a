------------------------------ MODULE MCUpload ------------------------------
(***************************************************************************)
(* Upload of two signed files of different layout and one without digest,  *)
(* and the parser over a few hundred files, cut anywhere.                  *)
(***************************************************************************)
EXTENDS Upload, SequencesExt

CONSTANTS d1, d2

Plain == Layout(<<>>, Sha(d1))
Protected == Layout(Other(1), Sha(d2))
Unsigned == << [tag |-> "data", n |-> 0], [tag |-> "data", n |-> 0] >>

MCFiles == {Plain, Protected, Unsigned}
MCFaults == {[kind |-> "None", at |-> 0], [kind |-> "BadHash", at |-> 0],
             [kind |-> "RestartUpload", at |-> 2], [kind |-> "DisconnectMidUpload", at |-> 2]}

\* Entries with no digest, one of them of that type but too short, and with one.
Short == << [tag |-> "sha", n |-> 0] >>
Without == {<<>>, Other(0), Other(2), Short \o Other(1)}
With == {Sha(d1), Other(1) \o Sha(d1), Sha(d1) \o Other(2), Short \o Sha(d1) \o Other(1)}

(* What imgtool makes: the digest in one of the two areas, or in none;     *)
(* another signed file's areas may follow, or half of one.                 *)
Signed == {Layout(a, b) : a \in Without, b \in With} \cup {Layout(a, b) : a \in With, b \in Without}
MCSamples == {[file |-> f, digest |-> d1] : f \in Signed}
             \cup {[file |-> Layout(a, b), digest |-> NoDigest] : a \in Without, b \in Without}
MCTrailers == {<<>>, Sha(d2), << [tag |-> "data", n |-> 3] >> \o Sha(d2)}

MCUnits == UNION {Range(f) : f \in MCFiles \cup {s.file : s \in MCSamples} \cup MCTrailers}
=============================================================================
