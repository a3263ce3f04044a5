------------------------------ MODULE MCPiiFlow ------------------------------
(***************************************************************************)
(* Two files: one declares a name the patterns know, and both a name of    *)
(* which only the context tells, in one of them, that it is an address.    *)
(***************************************************************************)
EXTENDS PiiFlow, TLC

MCFileOf == "card1" :> "f1" @@ "note1" :> "f1" @@ "note2" :> "f2"
MCNameOf == "card1" :> "card" @@ "note1" :> "note" @@ "note2" :> "note"
MCWriterOf == "card1" :> "g" @@ "note1" :> "g" @@ "note2" :> "g"
MCNameType == "card" :> "CREDIT_CARD" @@ "note" :> "clean"
MCContextType ==
    "card1" :> "clean" @@ "note1" :> "clean" @@ "note2" :> "ADDRESS"
MCScopesOf == "CREDIT_CARD" :> {"PCI"} @@ "ADDRESS" :> {}
MCMarkers == "pci" :> {"CREDIT_CARD"} @@ "hipaa" :> {}
MCSymmetry == Permutations(Taints)
MCCodeqlFlows == {<<"note", "card">>}
=============================================================================
