----------------------------- MODULE MCProbeRouting -----------------------------
EXTENDS ProbeRouting, TLC

(* Leaves 0 and 1, spines 2 and 3: a leaf-spine fabric, and a ring. *)
Cable(u, p, v, q) == (<<u, p>> :> <<v, q>>) @@ (<<v, q>> :> <<u, p>>)

MCWire == Cable(0, 1, 2, 1) @@ Cable(0, 2, 3, 1)
            @@ Cable(1, 1, 2, 2) @@ Cable(1, 2, 3, 2)
=============================================================================
