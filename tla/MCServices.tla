---------------------------- MODULE MCServices ----------------------------
(* Two build jobs and uploads of one file name, two console clients, an    *)
(* image that is selected and one that is not; two VDs, a master and two   *)
(* workers, three VDs in subnets of eight addresses.                       *)
EXTENDS Services, TLC

CONSTANTS a1, a2, b1, b2  \* the parts never meet: they share the model values

Alike == Permutations({a1, a2}) \cup Permutations({b1, b2})

\* A kind built from a disk, one that builds itself and one that is pulled.
Classes == "vr" :> "vrnetlab" @@ "me" :> "self" @@ "na" :> "native"
Dirs == "vr" :> "vr" @@ "me" :> "me" @@ "na" :> "none"
Names == [u \in {b1, b2} |-> "disk"]
Globs == [k \in {"vr", "me", "na"} |-> {"disk"}]

\* The second VD asks for its own memory; what the hosts report makes VDs move.
Size(cpu, ram) == [cpu |-> cpu, ram |-> ram]
Parsed == Size(1, 1)
Unparsed == Size(2, 1)
Larger == 2 :> Size(1, 2)
Reports == {0 :> Size(2, 1) @@ 1 :> Size(1, 2) @@ 2 :> Size(1, 1),
            0 :> Size(0, 0) @@ 1 :> Size(2, 3) @@ 2 :> Size(2, 2)}
=============================================================================
