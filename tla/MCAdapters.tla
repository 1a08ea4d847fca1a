----------------------------- MODULE MCAdapters -----------------------------
(* Small instances of Adapters for TLC.                                     *)
EXTENDS Adapters, TLC

\* Two calls with the same tool and arguments, and a third.
MCSignature == ("c1" :> "same") @@ ("c2" :> "same") @@ ("c3" :> "other")

\* Two span trees: r1 holds m1, c1 and c2, and r2 holds c3.
MCParentSpan == ("r1" :> "none") @@ ("r2" :> "none") @@ ("m1" :> "r1") @@ ("c1" :> "r1")
                @@ ("c2" :> "m1") @@ ("c3" :> "r2")
MCRootOf == ("r1" :> "r1") @@ ("r2" :> "r2") @@ ("m1" :> "r1") @@ ("c1" :> "r1")
            @@ ("c2" :> "r1") @@ ("c3" :> "r2")
MCModelOf == ("r1" :> 0) @@ ("r2" :> 2) @@ ("m1" :> 1) @@ ("c1" :> 0) @@ ("c2" :> 0) @@ ("c3" :> 0)

\* A run with a run and a function in it.
MCEnclosing == ("c1" :> "none") @@ ("c2" :> "c1") @@ ("c3" :> "c1")
MCRunModel == ("c1" :> 1) @@ ("c2" :> 2)

\* Two lines of the file are the same span.
MCFile == <<"c1", "c2", "c3">>
=============================================================================
