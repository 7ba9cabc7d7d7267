---------------------------- MODULE MCSynthesis ----------------------------
(***************************************************************************)
(* A project of three directory groups: a function with an overload and a  *)
(* class of the same name, an import and one that leaves the scan.  The    *)
(* model may call a layer domain:shared and a domain layer:a.              *)
(***************************************************************************)
EXTENDS Synthesis

MCCore   == <<"packages", "core", "src", "bus.ts">>
MCIndex  == <<"packages", "index.ts">>
MCReadme == <<"README.md">>

MCFiles == {MCCore, MCIndex, MCReadme}

MCCodeFiles == {MCCore, MCIndex}

MCOtherGroup == <<"packages", "api">>

MCSymbols ==
  [f \in MCFiles |->
     IF f = MCCore THEN << [kind |-> "function", name |-> "on"],
                           [kind |-> "function", name |-> "on"],
                           [kind |-> "class", name |-> "on"] >>
                   ELSE <<>>]

MCImports == {<<MCIndex, MCCore>>, <<MCCore, MCCore>>, <<MCCore, <<"node:fs">>>>}
=============================================================================
